---------------------------- MODULE PortProofs ----------------------------
(***************************************************************************)
(* The serial ports.  What is written to either port is sent once and in   *)
(* order, for every size of the rings, every latency of the interrupts the *)
(* compare unit allows, and any number of bytes: first port B, SoftSender, *)
(* then port A, UsartSender.  The receiver of port B puts every frame      *)
(* together, for every number of data bits, size of the ring, width of the *)
(* timer and number of frames, and whenever in the allowed time its        *)
(* interrupts are served; and its ring is the bounded queue of             *)
(* SerialQueue.                                                            *)
(***************************************************************************)
EXTENDS MCAltSoftSerial, RingLemmas

\* What the assumption gives: the sizes the compare unit counts with.
LEMMA Sizes ==
  ASSUME Soft!SenderAssumption
  PROVE  /\ DataBits \in Nat \ {0} /\ RX_BUFFER_SIZE \in Nat \ {0} /\ RX_BUFFER_SIZE >= 2
         /\ Soft!StopBit = 4 * DataBits + 4 /\ Soft!StopBit \in Nat /\ Soft!ticks_per_bit = 4
         /\ Soft!Idle = -1
         /\ MaxLatency \in 0..3 /\ TimerMod \in Nat \ {0} /\ TimerMod > Soft!StopBit + MaxLatency
         /\ Soft!Zero \in Soft!Bits
<1>1. DataBits \in Nat \ {0} /\ Soft!ticks_per_bit = 4 /\ Soft!Idle = -1 /\ Soft!Zero \in Soft!Bits
  BY DEF Soft!SenderAssumption, Soft!ticks_per_bit, Soft!Idle, Soft!Zero, Soft!Bits
<1>2. Soft!StopBit = 4 * DataBits + 4 /\ Soft!StopBit \in Nat
  BY <1>1 DEF Soft!StopBit
<1>3. MaxLatency \in 0..3 /\ TimerMod \in Nat /\ TimerMod > Soft!StopBit + MaxLatency
  BY <1>1 DEF Soft!SenderAssumption
<1>4. TimerMod # 0
  BY <1>2, <1>3
<1>5. RX_BUFFER_SIZE \in Nat \ {0} /\ RX_BUFFER_SIZE >= 2
  BY DEF Soft!SenderAssumption
<1> QED BY <1>1, <1>2, <1>3, <1>4, <1>5

\* A sequence that is longer by one.
LEMMA Appended ==
  ASSUME NEW S, NEW s \in Seq(S), NEW e \in S
  PROVE  /\ Append(s, e) \in Seq(S) /\ Len(s) \in Nat /\ Len(Append(s, e)) = Len(s) + 1
         /\ \A i \in 1..Len(s) : Append(s, e)[i] = s[i]
         /\ Append(s, e)[Len(s) + 1] = e
OBVIOUS

-----------------------------------------------------------------------------
(***************************************************************************)
(* The clock.                                                              *)
(***************************************************************************)
LEMMA LaterAdd ==
  ASSUME Soft!SenderAssumption, NEW t \in Int, NEW k \in Int, NEW n \in Int
  PROVE  Soft!Later(Soft!Later(t, k), n) = Soft!Later(t, k + n)
<1>1. t + k \in Int /\ TimerMod \in Nat \ {0}
  BY Sizes
<1>2. \A a, j \in Int : \A N \in Nat \ {0} : ((a % N) + j) % N = (a + j) % N
  BY ClockAdd
<1>3. (((t + k) % TimerMod) + n) % TimerMod = ((t + k) + n) % TimerMod
  BY <1>1, <1>2
<1>4. (t + k) + n = t + (k + n)
  OBVIOUS
<1> QED BY <1>3, <1>4 DEF Soft!Later

\* A time of the timer stays one, whatever is added to it.
LEMMA LaterRange ==
  ASSUME Soft!SenderAssumption, NEW t \in Int, NEW k \in Int
  PROVE  Soft!Later(t, k) \in 0..(TimerMod - 1)
<1>1. t + k \in Int /\ TimerMod \in Nat \ {0}
  BY Sizes
<1>2. \A a \in Int : \A N \in Nat \ {0} : a % N \in 0..(N - 1)
  BY IntMod
<1> QED BY <1>1, <1>2 DEF Soft!Later

\* Nothing added, nothing changed.
LEMMA LaterNow ==
  ASSUME Soft!SenderAssumption, NEW t \in 0..(TimerMod - 1)
  PROVE  Soft!Later(t, 0) = t
BY Sizes DEF Soft!Later

\* Two times less than a round apart.
LEMMA LaterInj ==
  ASSUME Soft!SenderAssumption, NEW t \in Int, NEW k \in Int, NEW n \in Int,
         k - n < TimerMod, n - k < TimerMod, Soft!Later(t, k) = Soft!Later(t, n)
  PROVE  k = n
<1>1. (t + k) - (t + n) < TimerMod /\ (t + n) - (t + k) < TimerMod
  OBVIOUS
<1>2. t + k = t + n
  BY <1>1, Sizes, ClockInj DEF Soft!Later
<1> QED BY <1>2

-----------------------------------------------------------------------------
(***************************************************************************)
(* The line.                                                               *)
(***************************************************************************)

\* A change of level is asked for at the beginning of a cell; the cell has the
\* level that the compare unit sets.
LEMMA LineCell ==
  ASSUME Soft!SenderAssumption, NEW byte \in Soft!Bits, NEW s \in 1..(DataBits + 2),
         NEW d \in 0..3
  PROVE  Soft!LineAt(byte, Soft!ticks_per_bit * (s - 1) + d)
           = IF s = 1 THEN 0 ELSE IF s = DataBits + 2 THEN 1 ELSE byte[s - 1]
<1>0. /\ DataBits \in Nat \ {0} /\ s \in Nat /\ s >= 1 /\ s <= DataBits + 2 /\ d \in Nat /\ d <= 3
      /\ Soft!ticks_per_bit = 4 /\ Soft!StopBit = 4 * DataBits + 4
  BY Sizes
<1> DEFINE i == 4 * (s - 1) + d
<1>1. i \in Nat /\ ~(i < 0)
  BY <1>0
<1>2. i \div 4 = s - 1
  BY <1>0
<1>3. s = 1 <=> i < 4
  BY <1>0
<1>4. s = DataBits + 2 <=> ~(i < Soft!StopBit)
  BY <1>0
<1>5. Soft!ticks_per_bit * (s - 1) + d = i
  BY <1>0
<1> HIDE DEF i
<1> QED BY <1>0, <1>1, <1>2, <1>3, <1>4, <1>5 DEF Soft!LineAt

\* Every quarter of a frame before the stop bit is in a cell.
LEMMA CellOf ==
  ASSUME Soft!SenderAssumption, NEW i \in Nat
  PROVE  \E s \in Nat, d \in 0..3 : i = Soft!ticks_per_bit * (s - 1) + d /\ s >= 1
<1>0. Soft!ticks_per_bit = 4
  BY Sizes
<1> DEFINE s == i \div 4 + 1
           d == i % 4
<1>1. s \in Nat /\ s >= 1 /\ d \in 0..3 /\ i = 4 * (s - 1) + d
  OBVIOUS
<1> HIDE DEF s, d
<1> QED BY <1>0, <1>1

-----------------------------------------------------------------------------
(***************************************************************************)
(* The types.                                                              *)
(***************************************************************************)
LEMMA TimerTypesStep ==
  ASSUME Soft!SenderAssumption, Soft!TypeOK, [Soft!Next]_(Soft!vars)
  PROVE  Soft!TimerTypes'
<1>0. /\ softTime \in Int /\ softOcr \in Int
      /\ softTime \in 0..(TimerMod - 1) /\ softOcr \in 0..(TimerMod - 1)
  BY Sizes DEF Soft!TypeOK, Soft!TimerTypes
<1>1. \A t, k \in Int : Soft!Later(t, k) \in 0..(TimerMod - 1)
  BY LaterRange
<1>2. softTime' \in 0..(TimerMod - 1)
  <2>1. softTime' \in {softTime, Soft!Later(softTime, 1)}
    BY DEF Soft!Next, Soft!Tick, Soft!CompareInterrupt, Soft!begin, Soft!writeByte,
       Soft!Writing, Soft!HasRoom, Soft!Stores,
         Soft!flushOutput, Soft!GoesOn, Soft!end, Soft!vars, Soft!timer, Soft!tx, Soft!ring,
            Soft!receiver, Soft!DataBit, Soft!LastBit, Soft!FrameDone,
         Soft!Finishes, Soft!TakesNext, Soft!Ask, Soft!StoresInRing, Soft!SendsAtOnce
  <2>2. Soft!Later(softTime, 1) \in 0..(TimerMod - 1)
    BY <1>0, <1>1
  <2> QED BY <1>0, <2>1, <2>2, Zenon
<1>3. softOcr' \in 0..(TimerMod - 1)
  <2>1. \A n \in Int : n * Soft!ticks_per_bit \in Int
    BY Sizes
  <2>2. softOcr' = softOcr \/ softOcr' = Soft!Later(softTime,
           1) \/ \E n \in Int : softOcr' = Soft!Later(softOcr, n * Soft!ticks_per_bit)
    <3>1. CASE UNCHANGED softOcr
      BY <3>1
    <3>2. CASE Soft!CompareInterrupt /\ Soft!DataBit
      BY <3>2 DEF Soft!DataBit, Soft!Ask
    <3>3. CASE Soft!CompareInterrupt /\ Soft!LastBit
      <4>1. DataBits + 2 - softState \in Int
        BY Sizes DEF Soft!TypeOK, Soft!TxTypes
      <4> QED BY <3>3, <4>1 DEF Soft!LastBit, Soft!Ask
    <3>4. CASE Soft!CompareInterrupt /\ Soft!FrameDone
      BY <3>4 DEF Soft!FrameDone, Soft!Finishes, Soft!TakesNext, Soft!Ask
    <3>5. CASE Soft!Stores
      BY <3>5 DEF Soft!Stores, Soft!StoresInRing, Soft!SendsAtOnce, Soft!timer
    <3> QED BY <3>1, <3>2, <3>3, <3>4, <3>5 DEF Soft!Next, Soft!Tick, Soft!CompareInterrupt,
               Soft!begin, Soft!writeByte,
               Soft!Writing, Soft!HasRoom, Soft!flushOutput, Soft!GoesOn, Soft!end,
                  Soft!vars, Soft!timer
  <2>3. Soft!Later(softTime, 1) \in 0..(TimerMod - 1)
    BY <1>0, <1>1
  <2>4. \A n \in Int : Soft!Later(softOcr, n * Soft!ticks_per_bit) \in 0..(TimerMod - 1)
    BY <1>0, <1>1, <2>1
  <2> QED BY <1>0, <2>2, <2>3, <2>4, Zenon
<1>4. softCom' \in {"normal", "clear", "set", softCom} /\ softOcie' \in {TRUE, FALSE, softOcie}
  BY DEF Soft!Next, Soft!Tick, Soft!CompareInterrupt, Soft!begin, Soft!writeByte,
     Soft!Writing, Soft!HasRoom, Soft!Stores,
         Soft!flushOutput, Soft!GoesOn, Soft!end, Soft!vars, Soft!timer, Soft!tx, Soft!ring,
            Soft!receiver, Soft!DataBit, Soft!LastBit, Soft!FrameDone,
         Soft!Finishes, Soft!TakesNext, Soft!Ask, Soft!StoresInRing, Soft!SendsAtOnce
<1>5. softOcf' \in BOOLEAN
  BY Zenon DEF Soft!TypeOK, Soft!TimerTypes, Soft!Next, Soft!Tick, Soft!CompareInterrupt,
     Soft!begin, Soft!writeByte, Soft!Writing, Soft!HasRoom, Soft!Stores,
         Soft!flushOutput, Soft!GoesOn, Soft!end, Soft!vars, Soft!timer, Soft!tx, Soft!ring,
            Soft!receiver, Soft!DataBit, Soft!LastBit, Soft!FrameDone,
         Soft!Finishes, Soft!TakesNext, Soft!Ask, Soft!StoresInRing, Soft!SendsAtOnce
<1>6. softCom \in {"normal", "clear", "set"} /\ softOcie \in BOOLEAN
  BY DEF Soft!TypeOK, Soft!TimerTypes
<1>7. softCom' \in {"normal", "clear", "set"}
  BY <1>4, <1>6
<1>8. softOcie' \in BOOLEAN
  BY <1>4, <1>6
<1> QED BY <1>2, <1>3, <1>5, <1>7, <1>8 DEF Soft!TimerTypes

\* The types of what the interrupt keeps: state, byte, bit and ring.
LEMMA TxTypesStep ==
  ASSUME Soft!SenderAssumption, Soft!TypeOK, [Soft!Next]_(Soft!vars)
  PROVE  Soft!TxTypes'
<1>0. /\ DataBits \in Nat /\ softState \in 0..(DataBits + 2) /\ softByte \in Soft!Bits
      /\ softBit \in {0, 1}
      /\ RX_BUFFER_SIZE \in Nat \ {0} /\ softTail \in Soft!Slot
      /\ softBuffer \in [Soft!Slot -> Soft!Bits]
      /\ softArgument \in Soft!Bits
  BY Sizes DEF Soft!TypeOK, Soft!TxTypes, Soft!SketchTypes
<1>1. softTail \in Nat /\ softTail + 1 \in Nat
  BY <1>0 DEF Soft!Slot
<1>2. (softTail + 1) % RX_BUFFER_SIZE \in Soft!Slot /\ 0 \in Soft!Slot
  BY <1>0, <1>1, ModRange DEF Soft!Slot
<1>3. CASE Soft!DataBit /\ UNCHANGED Soft!ring
  <2>1. PICK n \in 1..DataBits :
          Soft!NextChange(n) /\ softState' = softState + n /\ softByte' = Soft!ShiftOut(softByte, n)
    BY <1>3 DEF Soft!DataBit
  <2>2. softState' \in 0..(DataBits + 2)
    BY <1>0, <2>1 DEF Soft!NextChange, Soft!BitsLeft
  <2>3. Soft!ShiftOut(softByte, n) \in Soft!Bits
    BY <1>0 DEF Soft!ShiftOut, Soft!Bits
  <2>4. softBit' \in {0, 1}
    BY <1>0, <1>3 DEF Soft!DataBit
  <2> QED BY <1>0, <1>3, <2>1, <2>2, <2>3, <2>4 DEF Soft!TxTypes, Soft!ring
<1>4. CASE Soft!LastBit
  BY <1>0, <1>4 DEF Soft!LastBit, Soft!TxTypes, Soft!ring
<1>5. CASE Soft!FrameDone
  <2>1. softBuffer[(softTail + 1) % RX_BUFFER_SIZE] \in Soft!Bits
    BY <1>0, <1>2
  <2> QED BY <1>0, <1>2, <1>5, <2>1 DEF Soft!FrameDone, Soft!Finishes, Soft!TakesNext,
             Soft!TxTypes, Soft!ring
<1>6. CASE Soft!Stores
  <2>1. CASE Soft!StoresInRing
    <3>1. [softBuffer EXCEPT ![Soft!AfterHead] = softArgument] \in [Soft!Slot -> Soft!Bits]
      BY <1>0
    <3> QED BY <1>0, <2>1, <3>1 DEF Soft!StoresInRing, Soft!TxTypes, Soft!tx
  <2>2. CASE Soft!SendsAtOnce
    BY <1>0, <2>2 DEF Soft!SendsAtOnce, Soft!TxTypes, Soft!ring
  <2> QED BY <1>6, <2>1, <2>2 DEF Soft!Stores
<1>7. CASE Soft!begin
  BY <1>0, <1>2, <1>7 DEF Soft!begin, Soft!TxTypes
<1>8. CASE UNCHANGED <<Soft!tx, Soft!ring>>
  BY <1>0, <1>8 DEF Soft!TxTypes, Soft!tx, Soft!ring
<1>9. Soft!CompareInterrupt => (Soft!DataBit /\ UNCHANGED Soft!ring) \/ Soft!LastBit \/ Soft!FrameDone
  BY DEF Soft!CompareInterrupt, Soft!DataBit
<1> QED BY <1>3, <1>4, <1>5, <1>6, <1>7, <1>8, <1>9 DEF Soft!Next, Soft!Tick, Soft!writeByte,
           Soft!Writing, Soft!HasRoom,
           Soft!flushOutput, Soft!GoesOn, Soft!end, Soft!vars

\* The types of what the sketch keeps, and of what it has written.
LEMMA SketchTypesStep ==
  ASSUME Soft!SenderAssumption, Soft!TypeOK, [Soft!Next]_(Soft!vars)
  PROVE  Soft!SketchTypes'
<1>0. Soft!SketchTypes /\ Soft!Zero \in Soft!Bits /\ softPhase \in Int
  BY Sizes DEF Soft!TypeOK, Soft!ReceiverTypes
<1>1. CASE Soft!writeByte
  <2>1. PICK byte \in Byte : softArgument' = byte /\ softWritten' = Append(softWritten, byte)
    BY <1>1 DEF Soft!writeByte
  <2>2. byte \in Soft!Bits
    BY DEF Soft!SenderAssumption
  <2>3. Append(softWritten, byte) \in Seq(Soft!Bits)
    BY <1>0, <2>2 DEF Soft!SketchTypes
  <2> QED BY <1>0, <1>1, <2>1, <2>2, <2>3 DEF Soft!writeByte, Soft!SketchTypes
<1>2. CASE Soft!Stores
  <2>1. softRushed' \in BOOLEAN
    BY <1>0, <1>2, Zenon DEF Soft!Stores, Soft!StoresInRing, Soft!SendsAtOnce, Soft!SketchTypes
  <2> QED BY <1>0, <1>2, <2>1 DEF Soft!Stores, Soft!SketchTypes
<1>3. CASE UNCHANGED <<softArgument, softWritten,
                       softRushed>> /\ softSketch' \in {softSketch, "open", "store",
                          "flushed", "closed"}
  BY <1>0, <1>3 DEF Soft!SketchTypes
<1> QED BY <1>1, <1>2, <1>3 DEF Soft!Next, Soft!Tick, Soft!CompareInterrupt, Soft!begin,
           Soft!Writing, Soft!HasRoom,
           Soft!flushOutput, Soft!GoesOn, Soft!end, Soft!vars

\* The types of the receiver at the other end.
LEMMA ReceiverTypesStep ==
  ASSUME Soft!SenderAssumption, Soft!TypeOK, [Soft!Next]_(Soft!vars)
  PROVE  Soft!ReceiverTypes'
<1>0. /\ softLevel \in {0, 1} /\ softPhase \in {Soft!Idle} \cup 0..(Soft!StopBit + 1)
      /\ softSampled \in Soft!Bits /\ softReceived \in Seq(Soft!Bits \cup {Soft!Broken})
  BY DEF Soft!TypeOK, Soft!ReceiverTypes
<1>1. Soft!StopBit \in Nat /\ Soft!Idle = -1 /\ Soft!Zero \in Soft!Bits
  BY Sizes
<1>2. CASE Soft!Tick
  <2>1. softLevel' \in {0, 1}
    BY <1>0, <1>2 DEF Soft!Tick
  <2>2. CASE Soft!Waits
    BY <1>0, <2>1, <2>2 DEF Soft!Waits, Soft!receiver, Soft!ReceiverTypes
  <2>3. CASE Soft!Samples
    <3>1. softPhase' \in {Soft!Idle} \cup 0..(Soft!StopBit + 1)
      BY <1>0, <1>1, <2>3 DEF Soft!Samples
    <3>2. softSampled' \in Soft!Bits
      BY <1>0, <2>1, <2>3 DEF Soft!Samples, Soft!Bits
    <3> QED BY <1>0, <2>1, <2>3, <3>1, <3>2 DEF Soft!Samples, Soft!ReceiverTypes
  <2>4. CASE Soft!SamplesStopBit
    <3>1. (IF softLevel' = 1 THEN softSampled ELSE Soft!Broken) \in Soft!Bits \cup {Soft!Broken}
      BY <1>0
    <3>2. softReceived' \in Seq(Soft!Bits \cup {Soft!Broken})
      BY <1>0, <2>4, <3>1 DEF Soft!SamplesStopBit
    <3> QED BY <1>1, <2>1, <2>4, <3>2 DEF Soft!SamplesStopBit, Soft!ReceiverTypes
  <2> QED BY <1>2, <2>2, <2>3, <2>4 DEF Soft!Tick, Soft!Receive
<1>3. CASE UNCHANGED Soft!receiver /\ softLevel' \in {softLevel, 1}
  BY <1>0, <1>3 DEF Soft!receiver, Soft!ReceiverTypes
<1> QED BY <1>2, <1>3 DEF Soft!Next, Soft!CompareInterrupt, Soft!begin, Soft!writeByte,
           Soft!Writing, Soft!HasRoom, Soft!Stores,
           Soft!flushOutput, Soft!GoesOn, Soft!end, Soft!vars

\* Every step keeps the types.
LEMMA SoftTypesStep ==
  ASSUME Soft!SenderAssumption, Soft!TypeOK, [Soft!Next]_(Soft!vars)
  PROVE  Soft!TypeOK'
BY TimerTypesStep, TxTypesStep, SketchTypesStep, ReceiverTypesStep DEF Soft!TypeOK

-----------------------------------------------------------------------------
(***************************************************************************)
(* The ring.                                                               *)
(***************************************************************************)
LEMMA RingSizes ==
  ASSUME Soft!SenderAssumption, Soft!TypeOK
  PROVE  /\ RX_BUFFER_SIZE \in Nat \ {0} /\ RX_BUFFER_SIZE >= 2
         /\ softTail \in Nat /\ softTail < RX_BUFFER_SIZE
         /\ softBuffer \in [Soft!Slot -> Soft!Bits]
         /\ \A w \in Soft!Slot : w \in Nat /\ w < RX_BUFFER_SIZE
         /\ Len(softWritten) \in Nat /\ softWritten \in Seq(Soft!Bits) /\ Soft!Stored \in Int
         /\ Soft!Stored <= Len(softWritten) /\ (softSketch \notin {"full",
            "store"} => Soft!Stored = Len(softWritten))
         /\ \A n \in Nat : n % RX_BUFFER_SIZE \in Soft!Slot
         /\ 0 \in Soft!Slot /\ softState \in Nat /\ softArgument \in Soft!Bits
<1>1. RX_BUFFER_SIZE \in Nat \ {0} /\ RX_BUFFER_SIZE >= 2
  BY Sizes
<1>2. /\ softTail \in Nat /\ softTail < RX_BUFFER_SIZE
      /\ \A w \in Soft!Slot : w \in Nat /\ w < RX_BUFFER_SIZE
  BY <1>1 DEF Soft!TypeOK, Soft!TxTypes, Soft!Slot
<1>3. /\ softWritten \in Seq(Soft!Bits) /\ softArgument \in Soft!Bits
      /\ softBuffer \in [Soft!Slot -> Soft!Bits]
  BY DEF Soft!TypeOK, Soft!SketchTypes, Soft!TxTypes
<1>4. Len(softWritten) \in Nat
  BY <1>3
<1>5. \A n \in Nat : n % RX_BUFFER_SIZE \in Soft!Slot
  BY <1>1, ModRange DEF Soft!Slot
<1>6. softState \in Nat
  BY Sizes DEF Soft!TypeOK, Soft!TxTypes
<1>7. /\ Soft!Stored \in Int /\ Soft!Stored <= Len(softWritten)
      /\ softSketch \notin {"full", "store"} => Soft!Stored = Len(softWritten)
  BY <1>4 DEF Soft!Stored
<1>8. 0 \in Soft!Slot
  BY <1>1 DEF Soft!Slot
<1> QED BY <1>1, <1>2, <1>3, <1>4, <1>5, <1>6, <1>7, <1>8

\* Nothing happens to the ring.
LEMMA RingStays ==
  ASSUME Soft!SenderAssumption, Soft!TypeOK, NEW w \in Soft!Slot, Soft!RingHolds(w),
         UNCHANGED <<Soft!ring, softArgument, softWritten, softOcie>>,
         softSketch' \in {"full", "store"} <=> softSketch \in {"full", "store"},
         softSketch' = "store" => w < RX_BUFFER_SIZE - 1,
         (softState = 0) <=> (softState' = 0),
         softState = 0 => ~softOcf',
         softSketch' \in {"closed", "flushed"} => softState = 0
  PROVE  Soft!RingHolds(w)' /\ Soft!Stored' = Soft!Stored
<1>1. Soft!Stored' = Soft!Stored
  BY DEF Soft!Stored
<1> QED BY <1>1 DEF Soft!RingHolds, Soft!ring

\* The two indices are equal exactly when no byte waits: a ring is never full.
LEMMA RingEmpty ==
  ASSUME Soft!SenderAssumption, Soft!TypeOK, NEW w \in Soft!Slot, Soft!RingHolds(w)
  PROVE  softHead = softTail <=> w = 0
<1>0. /\ RX_BUFFER_SIZE \in Nat \ {0} /\ RX_BUFFER_SIZE >= 2
      /\ softTail \in Nat /\ softTail < RX_BUFFER_SIZE
      /\ w \in Nat /\ w < RX_BUFFER_SIZE
      /\ Len(softWritten) \in Nat /\ Soft!Stored \in Int /\ Soft!Stored <= Len(softWritten)
  BY RingSizes
<1>1. softHead = (softTail + w) % RX_BUFFER_SIZE
  BY DEF Soft!RingHolds
<1>2. softTail % RX_BUFFER_SIZE = softTail
  BY <1>0
<1>3. CASE w = 0
  BY <1>1, <1>2, <1>3, <1>0
<1>4. CASE softHead = softTail
  <2>1. /\ softTail + w \in Nat /\ softTail \in Nat /\ RX_BUFFER_SIZE \in Nat \ {0}
        /\ softTail <= softTail + w
        /\ softTail + w < softTail + RX_BUFFER_SIZE
    BY <1>0
  <2>2. softTail % RX_BUFFER_SIZE = (softTail + w) % RX_BUFFER_SIZE
    BY <1>1, <1>2, <1>4
  <2>3. softTail = softTail + w
    BY <2>1, <2>2, ModInj
  <2> QED BY <1>0, <1>4, <2>3
<1> QED BY <1>3, <1>4

\* There is room for one more.
LEMMA RingHasRoom ==
  ASSUME Soft!SenderAssumption, Soft!TypeOK, NEW w \in Soft!Slot, Soft!RingHolds(w),
     Soft!HasRoom
  PROVE  Soft!RingHolds(w)' /\ Soft!Stored' = Soft!Stored
<1>0. /\ RX_BUFFER_SIZE \in Nat \ {0} /\ RX_BUFFER_SIZE >= 2
      /\ softTail \in Nat /\ softTail < RX_BUFFER_SIZE
      /\ w \in Nat /\ w < RX_BUFFER_SIZE
      /\ Len(softWritten) \in Nat /\ Soft!Stored \in Int /\ Soft!Stored <= Len(softWritten)
  BY RingSizes
<1>1. Soft!AfterHead = (softTail + w + 1) % RX_BUFFER_SIZE
  <2>1. (((softTail + w) % RX_BUFFER_SIZE) + 1) % RX_BUFFER_SIZE
          = ((softTail + w) + 1) % RX_BUFFER_SIZE
    <3>1. softTail + w \in Nat /\ RX_BUFFER_SIZE \in Nat \ {0}
      BY <1>0
    <3> QED BY <3>1, ModSucc
  <2> QED BY <2>1, <1>0 DEF Soft!RingHolds, Soft!AfterHead
<1>2. softTail % RX_BUFFER_SIZE = softTail
  BY <1>0
<1>3. w # RX_BUFFER_SIZE - 1
  <2> SUFFICES ASSUME w = RX_BUFFER_SIZE - 1 PROVE FALSE
    OBVIOUS
  <2>1. softTail + w + 1 = softTail + RX_BUFFER_SIZE
    BY <1>0
  <2>2. Soft!AfterHead = softTail
    BY <1>1, <1>2, <2>1, <1>0, ModRound
  <2> QED BY <2>2 DEF Soft!HasRoom
<1>4. w < RX_BUFFER_SIZE - 1
  BY <1>3, <1>0
<1>5. softState = 0 => ~softOcf
  BY DEF Soft!RingHolds
<1> QED BY <1>4, <1>5, RingStays DEF Soft!HasRoom, Soft!timer, Soft!tx

\* A byte more waits in the ring.
LEMMA RingGrows ==
  ASSUME Soft!SenderAssumption, Soft!TypeOK, NEW w \in Soft!Slot, Soft!RingHolds(w),
     Soft!Stores, Soft!StoresInRing
  PROVE  w + 1 \in Soft!Slot /\ Soft!RingHolds(w + 1)' /\ Soft!Stored' = Soft!Stored + 1
<1>0. /\ RX_BUFFER_SIZE \in Nat \ {0} /\ RX_BUFFER_SIZE >= 2
      /\ softTail \in Nat /\ softTail < RX_BUFFER_SIZE
      /\ w \in Nat /\ w < RX_BUFFER_SIZE
      /\ Len(softWritten) \in Nat /\ Soft!Stored \in Int /\ Soft!Stored <= Len(softWritten)
  BY RingSizes
<1>1. softSketch = "store" /\ softSketch' = "open" /\ UNCHANGED softWritten
  BY DEF Soft!Stores
<1>2. /\ Soft!Stored' = Soft!Stored + 1 /\ Len(softWritten) = Soft!Stored + 1
      /\ Len(softWritten) > 0
      /\ softArgument = softWritten[Soft!Stored + 1] /\ w < RX_BUFFER_SIZE - 1 /\ w <= Soft!Stored
  BY <1>1, <1>0 DEF Soft!Stored, Soft!RingHolds
<1>3. w + 1 \in Soft!Slot
  BY <1>2, <1>0 DEF Soft!Slot
<1>4. Soft!AfterHead = (softTail + (w + 1)) % RX_BUFFER_SIZE
  <2>1. (((softTail + w) % RX_BUFFER_SIZE) + 1) % RX_BUFFER_SIZE
          = ((softTail + w) + 1) % RX_BUFFER_SIZE
    <3>1. softTail + w \in Nat /\ RX_BUFFER_SIZE \in Nat \ {0}
      BY <1>0
    <3> QED BY <3>1, ModSucc
  <2>2. (softTail + w) + 1 = softTail + (w + 1)
    BY <1>0
  <2> QED BY <2>1, <2>2 DEF Soft!RingHolds, Soft!AfterHead
<1>5. /\ softBuffer' = [softBuffer EXCEPT ![Soft!AfterHead] = softArgument]
      /\ Soft!AfterHead \in Soft!Slot
  BY <1>0, <1>4, ModRange DEF Soft!StoresInRing, Soft!Slot
<1>6. ASSUME NEW k \in 1..(w + 1)
      PROVE  softBuffer'[(softTail + k) % RX_BUFFER_SIZE] = softWritten[(Soft!Stored + 1) - (w + 1) + k]
  <2>0. k \in Nat /\ (softTail + k) % RX_BUFFER_SIZE \in Soft!Slot
    BY RingSizes
  <2>1. CASE k = w + 1
    <3>1. (Soft!Stored + 1) - (w + 1) + k = Soft!Stored + 1
      BY <2>1, <1>0
    <3>2. softBuffer'[Soft!AfterHead] = softArgument
      BY <1>5, RingSizes
    <3> QED BY <1>2, <1>4, <2>1, <3>1, <3>2
  <2>2. CASE k \in 1..w
    <3>1. (Soft!Stored + 1) - (w + 1) + k = Soft!Stored - w + k
      BY <2>2, <1>0
    <3>2. (softTail + k) % RX_BUFFER_SIZE # Soft!AfterHead
      <4> SUFFICES ASSUME (softTail + k) % RX_BUFFER_SIZE
                            = (softTail + (w + 1)) % RX_BUFFER_SIZE
                   PROVE  FALSE
        BY <1>4
      <4>1. /\ softTail + k \in Nat /\ softTail + (w + 1) \in Nat
            /\ RX_BUFFER_SIZE \in Nat \ {0}
            /\ softTail + k <= softTail + (w + 1)
            /\ softTail + (w + 1) < (softTail + k) + RX_BUFFER_SIZE
        BY <2>2, <1>0
      <4>2. softTail + k = softTail + (w + 1)
        BY <4>1, ModInj
      <4> QED BY <2>2, <4>2, <1>0
    <3>3. softBuffer'[(softTail + k) % RX_BUFFER_SIZE]
            = softBuffer[(softTail + k) % RX_BUFFER_SIZE]
      BY <1>5, <2>0, <3>2, RingSizes
    <3> QED BY <2>2, <3>1, <3>3 DEF Soft!RingHolds
  <2> QED BY <2>1, <2>2, <1>0
<1>7. w + 1 <= Soft!Stored + 1 /\ w + 1 < Soft!Stored + 1
  <2>1. w < Soft!Stored
    BY <1>0 DEF Soft!RingHolds, Soft!StoresInRing
  <2> QED BY <2>1, <1>0
<1>8. /\ softTail' = softTail /\ softHead' = Soft!AfterHead /\ softOcie' = softOcie
      /\ softOcie /\ softState' # 0
  BY DEF Soft!StoresInRing, Soft!tx, Soft!timer, Soft!RingHolds
<1> QED BY <1>1, <1>2, <1>3, <1>4, <1>6, <1>7, <1>8 DEF Soft!RingHolds

\* The interrupt takes the next byte from the ring.
LEMMA RingShrinks ==
  ASSUME Soft!SenderAssumption, Soft!TypeOK, NEW w \in Soft!Slot, Soft!RingHolds(w),
     softState # 0, Soft!TakesNext,
         UNCHANGED <<softSketch, softArgument, softWritten>>
  PROVE  /\ w - 1 \in Soft!Slot /\ Soft!RingHolds(w - 1)' /\ Soft!Stored' = Soft!Stored
         /\ Soft!Stored - w + 1 \in 1..Len(softWritten)
         /\ softByte' = softWritten[Soft!Stored - w + 1]
<1>0. /\ RX_BUFFER_SIZE \in Nat \ {0} /\ RX_BUFFER_SIZE >= 2
      /\ softTail \in Nat /\ softTail < RX_BUFFER_SIZE
      /\ w \in Nat /\ w < RX_BUFFER_SIZE
      /\ Len(softWritten) \in Nat /\ Soft!Stored \in Int /\ Soft!Stored <= Len(softWritten)
  BY RingSizes
<1>1. w \in 1..w /\ w - 1 \in Soft!Slot
  <2>1. w # 0
    BY RingEmpty DEF Soft!TakesNext
  <2> QED BY <2>1, <1>0 DEF Soft!Slot
<1>2. w <= Soft!Stored /\ Soft!Stored' = Soft!Stored
  BY DEF Soft!RingHolds, Soft!Stored
<1>3. Soft!Stored - w + 1 \in 1..Len(softWritten)
  BY <1>1, <1>2, <1>0
<1> DEFINE tail == (softTail + 1) % RX_BUFFER_SIZE
<1>4. \A k \in Nat : (tail + k) % RX_BUFFER_SIZE = (softTail + (k + 1)) % RX_BUFFER_SIZE
  <2> SUFFICES ASSUME NEW k \in Nat
               PROVE  (tail + k) % RX_BUFFER_SIZE = (softTail + (k + 1)) % RX_BUFFER_SIZE
    OBVIOUS
  <2>1. (tail + k) % RX_BUFFER_SIZE = ((softTail + 1) + k) % RX_BUFFER_SIZE
    <3>1. softTail + 1 \in Int /\ k \in Int /\ RX_BUFFER_SIZE \in Nat \ {0}
      BY <1>0
    <3> QED BY <3>1, ClockAdd
  <2>2. (softTail + 1) + k = softTail + (k + 1)
    BY <1>0
  <2> QED BY <2>1, <2>2
<1>5. /\ softTail' = tail /\ softByte' = softBuffer[tail] /\ softState' = 1
      /\ UNCHANGED <<softOcie, softHead, softBuffer, softSketch, softArgument, softWritten>>
  BY DEF Soft!TakesNext
<1> HIDE DEF tail
<1>6. softHead = (tail + (w - 1)) % RX_BUFFER_SIZE
  <2>1. w - 1 \in Nat /\ (w - 1) + 1 = w
    BY <1>1, <1>0
  <2>2. (tail + (w - 1)) % RX_BUFFER_SIZE = (softTail + ((w - 1) + 1)) % RX_BUFFER_SIZE
    BY <1>4, <2>1
  <2> QED BY <2>1, <2>2 DEF Soft!RingHolds
<1>7. ASSUME NEW k \in 1..(w - 1)
      PROVE  softBuffer[(tail + k) % RX_BUFFER_SIZE] = softWritten[Soft!Stored - (w - 1) + k]
  <2>1. k \in Nat /\ k + 1 \in 1..w /\ Soft!Stored - (w - 1) + k = Soft!Stored - w + (k + 1)
    BY <1>0
  <2>2. softBuffer[(softTail + (k + 1)) % RX_BUFFER_SIZE] = softWritten[Soft!Stored - w + (k + 1)]
    BY <2>1 DEF Soft!RingHolds
  <2> QED BY <1>4, <2>1, <2>2
<1>8. softByte' = softWritten[Soft!Stored - w + 1]
  <2>1. 1 \in 1..w
    BY <1>1, <1>0
  <2>2. softBuffer[tail] = softWritten[Soft!Stored - w + 1]
    BY <2>1 DEF Soft!RingHolds, tail
  <2> QED BY <1>5, <2>2
<1>9. w - 1 <= Soft!Stored /\ w - 1 < Soft!Stored
  BY <1>1, <1>2, <1>0
<1>10. softSketch = "store" => w - 1 < RX_BUFFER_SIZE - 1
  BY <1>0 DEF Soft!RingHolds
<1> QED BY <1>1, <1>2, <1>3, <1>5, <1>6, <1>7, <1>8, <1>9, <1>10 DEF Soft!RingHolds

\* The ring is empty and a byte is sent at once.
LEMMA RingPassed ==
  ASSUME Soft!SenderAssumption, Soft!TypeOK, NEW w \in Soft!Slot, Soft!RingHolds(w),
     Soft!Stores, Soft!SendsAtOnce
  PROVE  /\ w = 0 /\ Soft!RingHolds(w)' /\ Soft!Stored' = Soft!Stored + 1
         /\ Soft!Stored + 1 \in 1..Len(softWritten) /\ softByte' = softWritten[Soft!Stored + 1]
<1>0. /\ RX_BUFFER_SIZE \in Nat \ {0} /\ RX_BUFFER_SIZE >= 2
      /\ softTail \in Nat /\ softTail < RX_BUFFER_SIZE
      /\ w \in Nat /\ w < RX_BUFFER_SIZE
      /\ Len(softWritten) \in Nat /\ Soft!Stored \in Int /\ Soft!Stored <= Len(softWritten)
  BY RingSizes
<1>1. softSketch = "store" /\ softSketch' = "open" /\ UNCHANGED <<softWritten,
                                                                  Soft!ring>> /\ softState = 0 /\ softState' = 1 /\ softOcie'
      /\ softByte' = softArgument
  BY DEF Soft!Stores, Soft!SendsAtOnce
<1>2. /\ w = 0 /\ Len(softWritten) > 0 /\ softArgument = softWritten[Len(softWritten)]
      /\ softHead = (softTail + w) % RX_BUFFER_SIZE
  BY <1>1 DEF Soft!RingHolds
<1>3. Soft!Stored = Len(softWritten) - 1 /\ Soft!Stored' = Len(softWritten)
  BY <1>1 DEF Soft!Stored
<1>4. /\ Soft!Stored + 1 = Len(softWritten) /\ Soft!Stored + 1 \in 1..Len(softWritten)
      /\ 0 < Len(softWritten) /\ 0 <= Len(softWritten)
  BY <1>2, <1>3, <1>0
<1>5. \A k \in 1..0 : FALSE
  OBVIOUS
<1> QED BY <1>1, <1>2, <1>3, <1>4, <1>5, <1>0 DEF Soft!RingHolds, Soft!ring

\* The frame was the last.
LEMMA RingDone ==
  ASSUME Soft!SenderAssumption, Soft!TypeOK, NEW w \in Soft!Slot, Soft!RingHolds(w),
     Soft!Finishes, UNCHANGED <<softSketch, softArgument, softWritten>>
  PROVE  w = 0 /\ Soft!RingHolds(w)' /\ Soft!Stored' = Soft!Stored
<1>1. w = 0 /\ Soft!Stored' = Soft!Stored
  BY RingEmpty DEF Soft!Finishes, Soft!Stored
<1> QED BY <1>1 DEF Soft!RingHolds, Soft!Finishes, Soft!ring

\* begin() empties the ring, in which nothing waits.
LEMMA RingReset ==
  ASSUME Soft!SenderAssumption, Soft!TypeOK, NEW w \in Soft!Slot, Soft!RingHolds(w), Soft!begin
  PROVE  w = 0 /\ Soft!RingHolds(w)' /\ Soft!Stored' = Soft!Stored /\ softState = 0
<1>0. /\ RX_BUFFER_SIZE \in Nat \ {0} /\ RX_BUFFER_SIZE >= 2
      /\ softTail \in Nat /\ softTail < RX_BUFFER_SIZE
      /\ w \in Nat /\ w < RX_BUFFER_SIZE
      /\ Len(softWritten) \in Nat /\ Soft!Stored \in Int /\ Soft!Stored <= Len(softWritten)
  BY RingSizes
<1>1. /\ w = 0 /\ softState = 0 /\ softState' = 0 /\ Soft!Stored' = Soft!Stored
      /\ UNCHANGED <<Soft!timer, softArgument,
                     softWritten>> /\ softSketch' = "open" /\ softHead' = 0 /\ softTail' = 0
  BY DEF Soft!RingHolds, Soft!begin, Soft!Stored
<1>2. 0 = (0 + 0) % RX_BUFFER_SIZE
  BY <1>0
<1>3. \A k \in 1..0 : FALSE
  OBVIOUS
<1> QED BY <1>1, <1>2, <1>3 DEF Soft!RingHolds, Soft!timer

\* A byte is to be written.
LEMMA RingWaits ==
  ASSUME Soft!SenderAssumption, Soft!TypeOK, NEW w \in Soft!Slot, Soft!RingHolds(w),
     Soft!writeByte
  PROVE  /\ Soft!RingHolds(w)' /\ Soft!Stored' = Soft!Stored
         /\ \A i \in 1..Len(softWritten) : softWritten'[i] = softWritten[i]
<1>0. /\ RX_BUFFER_SIZE \in Nat \ {0} /\ RX_BUFFER_SIZE >= 2
      /\ softTail \in Nat /\ softTail < RX_BUFFER_SIZE
      /\ w \in Nat /\ w < RX_BUFFER_SIZE
      /\ Len(softWritten) \in Nat /\ Soft!Stored \in Int /\ Soft!Stored <= Len(softWritten)
  BY RingSizes
<1>1. PICK byte \in Byte : softArgument' = byte /\ softWritten' = Append(softWritten, byte)
  BY DEF Soft!writeByte
<1>2. byte \in Soft!Bits
  BY DEF Soft!SenderAssumption
<1>3. /\ Len(softWritten') = Len(softWritten) + 1 /\ softWritten'[Len(softWritten) + 1] = byte
      /\ \A i \in 1..Len(softWritten) : softWritten'[i] = softWritten[i]
  BY <1>1, <1>2, RingSizes, Appended
<1>4. /\ softSketch = "open" /\ softSketch' = "full" /\ UNCHANGED <<Soft!timer, Soft!tx,
                                                                    Soft!ring>>
  BY DEF Soft!writeByte
<1>5. Soft!Stored' = Soft!Stored /\ Soft!Stored = Len(softWritten)
  BY <1>0, <1>3, <1>4 DEF Soft!Stored
<1>6. \A k \in 1..w : Soft!Stored - w + k \in 1..Len(softWritten)
  <2>1. w <= Soft!Stored
    BY DEF Soft!RingHolds
  <2> QED BY <1>5, <2>1, <1>0
<1>7. \A k \in 1..w : softWritten'[Soft!Stored - w + k] = softWritten[Soft!Stored - w + k]
  BY <1>3, <1>6
<1>8. Len(softWritten') > 0
  BY <1>3, <1>0
<1> QED BY <1>1, <1>3, <1>4, <1>5, <1>7, <1>8 DEF Soft!RingHolds, Soft!timer, Soft!tx, Soft!ring

-----------------------------------------------------------------------------
(***************************************************************************)
(* The receiver at the other end.                                          *)
(***************************************************************************)
LEMMA ReceiverSizes ==
  ASSUME Soft!SenderAssumption, Soft!TypeOK
  PROVE  /\ DataBits \in Nat \ {0} /\ Soft!StopBit = 4 * DataBits + 4 /\ Soft!StopBit \in Nat
         /\ Soft!ticks_per_bit = 4 /\ Soft!Idle = -1 /\ MaxLatency \in 0..3
         /\ softPhase \in Int /\ softPhase >= -1 /\ softPhase <= Soft!StopBit + 1
         /\ softLevel \in {0, 1} /\ softSampled \in Soft!Bits
         /\ softReceived \in Seq(Soft!Bits \cup {Soft!Broken}) /\ Len(softReceived) \in Nat
         /\ softWritten \in Seq(Soft!Bits) /\ Len(softWritten) \in Nat
<1>1. /\ DataBits \in Nat \ {0} /\ Soft!StopBit = 4 * DataBits + 4 /\ Soft!StopBit \in Nat
      /\ Soft!ticks_per_bit = 4 /\ Soft!Idle = -1 /\ MaxLatency \in 0..3
  BY Sizes
<1>2. softPhase \in Int /\ softPhase >= -1 /\ softPhase <= Soft!StopBit + 1
  BY <1>1 DEF Soft!TypeOK, Soft!ReceiverTypes
<1>3. /\ softLevel \in {0, 1} /\ softSampled \in Soft!Bits
      /\ softReceived \in Seq(Soft!Bits \cup {Soft!Broken}) /\ softWritten \in Seq(Soft!Bits)
  BY DEF Soft!TypeOK, Soft!ReceiverTypes, Soft!SketchTypes
<1>4. Len(softReceived) \in Nat /\ Len(softWritten) \in Nat
  BY <1>3
<1> QED BY <1>1, <1>2, <1>3, <1>4

\* The line is quiet and the receiver waits.
LEMMA LineQuiet ==
  ASSUME Soft!SenderAssumption, Soft!TypeOK, Soft!HeardRight, UNCHANGED softWritten,
         softPhase = Soft!Idle, softLevel' = 1, Soft!Receive
  PROVE  Soft!HeardRight' /\ UNCHANGED Soft!receiver
<1>1. Soft!Waits
  BY ReceiverSizes DEF Soft!Receive, Soft!Samples, Soft!SamplesStopBit
<1> QED BY <1>1 DEF Soft!Waits, Soft!receiver, Soft!HeardRight

\* A quarter before the middle of the stop bit.
LEMMA Sampled ==
  ASSUME Soft!SenderAssumption, Soft!TypeOK, Soft!HeardRight, UNCHANGED softWritten,
     Soft!Receive,
         ~(softPhase = Soft!Idle /\ softLevel' = 1), softPhase + 1 < Soft!StopBit + 2,
         \A k \in 1..DataBits :
           softPhase + 1 = Soft!ticks_per_bit * k + 2 => softLevel' = softWritten[Len(softReceived) + 1][k]
  PROVE  Soft!HeardRight' /\ softPhase' = softPhase + 1 /\ UNCHANGED softReceived
<1>1. Soft!Samples
  BY ReceiverSizes DEF Soft!Receive, Soft!Waits, Soft!SamplesStopBit
<1>2. softPhase' = softPhase + 1 /\ softReceived' = softReceived
  BY <1>1 DEF Soft!Samples
<1>3. ASSUME NEW k \in 1..DataBits, Soft!ticks_per_bit * k + 2 <= softPhase'
      PROVE  softSampled'[k] = softWritten[Len(softReceived) + 1][k]
  <2>1. softSampled'[k] = IF softPhase + 1 = Soft!ticks_per_bit * k + 2 THEN softLevel' ELSE softSampled[k]
    BY <1>1 DEF Soft!Samples
  <2>2. CASE softPhase + 1 = Soft!ticks_per_bit * k + 2
    BY <2>1, <2>2
  <2>3. CASE softPhase + 1 # Soft!ticks_per_bit * k + 2
    <3>1. Soft!ticks_per_bit * k + 2 <= softPhase
      <4>1. k \in Nat /\ Soft!ticks_per_bit = 4 /\ softPhase \in Int
        BY ReceiverSizes
      <4> QED BY <1>2, <1>3, <2>3, <4>1
    <3>2. softSampled[k] = softWritten[Len(softReceived) + 1][k]
      BY <3>1 DEF Soft!HeardRight
    <3> QED BY <2>1, <2>3, <3>2
  <2> QED BY <2>2, <2>3
<1> QED BY <1>2, <1>3 DEF Soft!HeardRight

\* The middle of the stop bit: the frame is complete.
LEMMA SampledLast ==
  ASSUME Soft!SenderAssumption, Soft!TypeOK, Soft!HeardRight, UNCHANGED softWritten,
     Soft!Receive,
         softPhase + 1 = Soft!StopBit + 2, softLevel' = 1, Len(softReceived) < Len(softWritten)
  PROVE  Soft!HeardRight' /\ softPhase' = Soft!Idle /\ Len(softReceived') = Len(softReceived) + 1
<1>0. /\ DataBits \in Nat \ {0} /\ Soft!StopBit = 4 * DataBits + 4 /\ Soft!ticks_per_bit = 4
      /\ Soft!Idle = -1
      /\ softPhase \in Int /\ Len(softReceived) \in Nat /\ Len(softWritten) \in Nat
  BY ReceiverSizes
<1>1. Soft!SamplesStopBit
  BY <1>0 DEF Soft!Receive, Soft!Waits, Soft!Samples
<1>2. softPhase' = Soft!Idle /\ softReceived' = Append(softReceived, softSampled)
  BY <1>1 DEF Soft!SamplesStopBit
<1>3. /\ Len(softReceived) + 1 \in 1..Len(softWritten)
      /\ softWritten[Len(softReceived) + 1] \in Soft!Bits
  BY ReceiverSizes
<1>4. softSampled = softWritten[Len(softReceived) + 1]
  <2>1. \A k \in 1..DataBits : Soft!ticks_per_bit * k + 2 <= softPhase
    BY <1>0
  <2>2. \A k \in 1..DataBits : softSampled[k] = softWritten[Len(softReceived) + 1][k]
    BY <2>1 DEF Soft!HeardRight
  <2>3. softSampled \in Soft!Bits
    BY ReceiverSizes
  <2>4. \A f, g \in Soft!Bits : (\A k \in 1..DataBits : f[k] = g[k]) => f = g
    <3> SUFFICES ASSUME NEW f \in Soft!Bits, NEW g \in Soft!Bits,
           \A k \in 1..DataBits : f[k] = g[k]
                 PROVE  f = g
      OBVIOUS
    <3>1. f = [k \in 1..DataBits |-> f[k]] /\ g = [k \in 1..DataBits |-> g[k]]
      BY DEF Soft!Bits
    <3> QED BY <3>1
  <2> QED BY <1>3, <2>2, <2>3, <2>4
<1>5. /\ Len(softReceived') = Len(softReceived) + 1
      /\ softReceived'[Len(softReceived) + 1] = softSampled
      /\ \A i \in 1..Len(softReceived) : softReceived'[i] = softReceived[i]
  <2>1. /\ softSampled \in Soft!Bits \cup {Soft!Broken}
        /\ softReceived \in Seq(Soft!Bits \cup {Soft!Broken})
    BY ReceiverSizes
  <2> QED BY <1>2, <2>1, Appended
<1>6. ASSUME NEW i \in 1..Len(softReceived') PROVE softReceived'[i] = softWritten[i]
  <2>1. CASE i = Len(softReceived) + 1
    BY <1>4, <1>5, <2>1
  <2>2. CASE i # Len(softReceived) + 1
    <3>1. i \in 1..Len(softReceived)
      BY <1>0, <1>5, <2>2
    <3> QED BY <1>5, <3>1 DEF Soft!HeardRight
  <2> QED BY <2>1, <2>2
<1>7. \A k \in 1..DataBits : ~(Soft!ticks_per_bit * k + 2 <= softPhase')
  BY <1>0, <1>2
<1> QED BY <1>2, <1>5, <1>6, <1>7 DEF Soft!HeardRight

\* The receiver stays with the frame for a quarter.
LEMMA HearsOn ==
  ASSUME Soft!SenderAssumption, Soft!TypeOK, NEW t \in Nat, NEW q \in Int, NEW byte,
         q >= -Soft!ticks_per_bit, t <= Len(softWritten) + 1,
         Soft!HeardRight, Soft!Hears(t, q), Soft!Receive, softLevel' = Soft!LineAt(byte,
            q + 1), UNCHANGED softWritten,
         q >= -1 => t \in 1..Len(softWritten) /\ byte = softWritten[t]
  PROVE  Soft!HeardRight' /\ Soft!Hears(t, q + 1)'
<1>0. /\ DataBits \in Nat \ {0} /\ Soft!StopBit = 4 * DataBits + 4 /\ Soft!ticks_per_bit = 4
      /\ Soft!Idle = -1
      /\ Soft!StopBit \in Nat
      /\ softPhase \in Int /\ softPhase <= Soft!StopBit + 1 /\ Len(softReceived) \in Nat
      /\ Len(softWritten) \in Nat
      /\ q >= -4
  BY ReceiverSizes
<1>1. CASE q < -1 /\ softPhase = Soft!Idle
  <2>1. softLevel' = 1
    BY <1>0, <1>1 DEF Soft!LineAt
  <2>2. Soft!HeardRight' /\ UNCHANGED Soft!receiver
    BY <1>1, <2>1, LineQuiet
  <2>3. Len(softReceived) = t - 1
    BY <1>0, <1>1 DEF Soft!Hears
  <2>4. softPhase' = Soft!Idle /\ Len(softReceived') = t - 1
    BY <1>1, <2>2, <2>3 DEF Soft!receiver
  <2>5. q + 1 < 0
    BY <1>1
  <2>6. ~(q + 1 \in 0..(Soft!StopBit + 1)) /\ ~(q + 1 > Soft!StopBit + 1)
    BY <1>0, <2>5
  <2> QED BY <2>2, <2>4, <2>5, <2>6 DEF Soft!Hears
<1>2. CASE q < -1 /\ softPhase # Soft!Idle
  <2>1. softLevel' = 1
    BY <1>0, <1>2 DEF Soft!LineAt
  <2>2. /\ softPhase >= Soft!StopBit /\ softPhase = Soft!StopBit + 4 + q
        /\ Len(softReceived) = t - 2
    BY <1>0, <1>2 DEF Soft!Hears
  <2>3. q + 1 < 0 /\ ~(q + 1 \in 0..(Soft!StopBit + 1)) /\ ~(q + 1 > Soft!StopBit + 1)
    BY <1>0, <1>2
  <2>4. CASE q = -4
    <3>1. \A k \in 1..DataBits : softPhase + 1 # Soft!ticks_per_bit * k + 2
      BY <1>0, <2>2, <2>4
    <3>2. softPhase + 1 < Soft!StopBit + 2
      BY <1>0, <2>2, <2>4
    <3>3. Soft!HeardRight' /\ softPhase' = softPhase + 1 /\ UNCHANGED softReceived
      BY <1>2, <3>1, <3>2, Sampled
    <3>4. /\ softPhase' >= Soft!StopBit /\ softPhase' = Soft!StopBit + Soft!ticks_per_bit + (q + 1)
          /\ Len(softReceived') = t - 2
      BY <1>0, <2>2, <3>3
    <3> QED BY <2>3, <3>3, <3>4 DEF Soft!Hears
  <2>5. CASE q = -3
    <3>1. softPhase + 1 = Soft!StopBit + 2 /\ Len(softReceived) < Len(softWritten)
      BY <1>0, <2>2, <2>5
    <3>2. Soft!HeardRight' /\ softPhase' = Soft!Idle /\ Len(softReceived') = Len(softReceived) + 1
      BY <2>1, <3>1, SampledLast
    <3>3. Len(softReceived') = t - 1
      BY <1>0, <2>2, <3>2
    <3> QED BY <2>3, <3>2, <3>3 DEF Soft!Hears
  <2> QED BY <1>0, <1>2, <2>2, <2>4, <2>5
<1>3. CASE q = -1
  <2>1. softLevel' = 0
    BY <1>0, <1>3 DEF Soft!LineAt
  <2>2. softPhase = Soft!Idle /\ Len(softReceived) = t - 1
    BY <1>0, <1>3 DEF Soft!Hears
  <2>3. \A k \in 1..DataBits : softPhase + 1 # Soft!ticks_per_bit * k + 2
    BY <1>0, <2>2
  <2>4. softPhase + 1 < Soft!StopBit + 2
    BY <1>0, <2>2
  <2>5. Soft!HeardRight' /\ softPhase' = softPhase + 1 /\ UNCHANGED softReceived
    BY <2>1, <2>3, <2>4, Sampled
  <2>6. softPhase' = q + 1 /\ Len(softReceived') = t - 1
    BY <1>0, <1>3, <2>2, <2>5
  <2>7. q + 1 \in 0..(Soft!StopBit + 1) /\ ~(q + 1 < 0) /\ ~(q + 1 > Soft!StopBit + 1)
    BY <1>0, <1>3
  <2> QED BY <2>5, <2>6, <2>7 DEF Soft!Hears
<1>4. CASE q \in 0..Soft!StopBit
  <2>1. softPhase = q /\ Len(softReceived) = t - 1
    <3>1. q \in 0..(Soft!StopBit + 1)
      BY <1>0, <1>4
    <3> QED BY <3>1 DEF Soft!Hears
  <2>2. softWritten[Len(softReceived) + 1] = byte
    BY <1>0, <1>4, <2>1
  <2>3. ASSUME NEW k \in 1..DataBits, softPhase + 1 = Soft!ticks_per_bit * k + 2
        PROVE  softLevel' = softWritten[Len(softReceived) + 1][k]
    <3>1. /\ q + 1 = 4 * k + 2 /\ k \in Nat /\ q + 1 \in Nat /\ ~(q + 1 < 0) /\ ~(q + 1 < 4)
          /\ q + 1 < Soft!StopBit
      BY <1>0, <1>4, <2>1, <2>3
    <3>2. (q + 1) \div 4 = k
      BY <3>1
    <3>3. Soft!LineAt(byte, q + 1) = byte[k]
      BY <1>0, <3>1, <3>2 DEF Soft!LineAt
    <3> QED BY <2>2, <3>3
  <2>4. softPhase + 1 < Soft!StopBit + 2 /\ softPhase # Soft!Idle
    BY <1>0, <1>4, <2>1
  <2>5. Soft!HeardRight' /\ softPhase' = softPhase + 1 /\ UNCHANGED softReceived
    BY <2>3, <2>4, Sampled
  <2>6. softPhase' = q + 1 /\ Len(softReceived') = t - 1
    BY <2>1, <2>5
  <2>7. q + 1 \in 0..(Soft!StopBit + 1) /\ ~(q + 1 < 0) /\ ~(q + 1 > Soft!StopBit + 1)
    BY <1>0, <1>4
  <2> QED BY <2>5, <2>6, <2>7 DEF Soft!Hears
<1>5. CASE q = Soft!StopBit + 1
  <2>1. softPhase = q /\ Len(softReceived) = t - 1
    <3>1. q \in 0..(Soft!StopBit + 1)
      BY <1>0, <1>5
    <3> QED BY <3>1 DEF Soft!Hears
  <2>2. softLevel' = 1
    BY <1>0, <1>5 DEF Soft!LineAt
  <2>3. softPhase + 1 = Soft!StopBit + 2 /\ Len(softReceived) < Len(softWritten)
    BY <1>0, <1>5, <2>1
  <2>4. Soft!HeardRight' /\ softPhase' = Soft!Idle /\ Len(softReceived') = Len(softReceived) + 1
    BY <2>2, <2>3, SampledLast
  <2>5. Len(softReceived') = t
    BY <1>0, <2>1, <2>4
  <2>6. ~(q + 1 \in 0..(Soft!StopBit + 1)) /\ ~(q + 1 < 0) /\ q + 1 > Soft!StopBit + 1
    BY <1>0, <1>5
  <2> QED BY <2>4, <2>5, <2>6 DEF Soft!Hears
<1>6. CASE q > Soft!StopBit + 1
  <2>1. softPhase = Soft!Idle /\ Len(softReceived) = t
    BY <1>6 DEF Soft!Hears
  <2>2. softLevel' = 1
    BY <1>0, <1>6 DEF Soft!LineAt
  <2>3. Soft!HeardRight' /\ UNCHANGED Soft!receiver
    BY <2>1, <2>2, LineQuiet
  <2>4. softPhase' = Soft!Idle /\ Len(softReceived') = t
    BY <2>1, <2>3 DEF Soft!receiver
  <2>5. ~(q + 1 \in 0..(Soft!StopBit + 1)) /\ ~(q + 1 < 0) /\ q + 1 > Soft!StopBit + 1
    BY <1>0, <1>6
  <2> QED BY <2>3, <2>4, <2>5 DEF Soft!Hears
<1> QED BY <1>0, <1>1, <1>2, <1>3, <1>4, <1>5, <1>6

-----------------------------------------------------------------------------
(***************************************************************************)
(* The frames: which quarter the frame is in, and what the compare unit is *)
(* to do next.                                                             *)
(***************************************************************************)

\* A step that leaves the frame and the receiver alone.
LEMMA FrameStays ==
  ASSUME Soft!SenderAssumption, Soft!TypeOK, NEW t \in Nat, t <= Len(softWritten),
     Soft!Follows(t),
         UNCHANGED <<softTime, softCom, softOcf, softOcr, softLevel, Soft!tx, Soft!receiver>>,
         Len(softWritten) <= Len(softWritten'),
         \A i \in 1..Len(softWritten) : softWritten'[i] = softWritten[i],
         softState # 0 => t > 0
  PROVE  Soft!Follows(t)'
<1>0. /\ DataBits \in Nat \ {0} /\ Soft!StopBit = 4 * DataBits + 4 /\ Soft!ticks_per_bit = 4
      /\ Soft!Idle = -1
      /\ Soft!StopBit \in Nat /\ softState \in Nat
      /\ softPhase \in Int /\ softPhase <= Soft!StopBit + 1 /\ Len(softReceived) \in Nat
      /\ Len(softWritten) \in Nat
  BY ReceiverSizes, RingSizes
<1>1. Len(softReceived) <= t /\ (softPhase # Soft!Idle => Len(softReceived) < t)
  <2>1. CASE softState = 0
    BY <1>0, <2>1 DEF Soft!Follows, Soft!HearsEnd
  <2>2. CASE softState # 0
    <3>1. PICK q \in (-Soft!ticks_per_bit)..(Soft!StopBit + MaxLatency) : Soft!Hears(t, q)
      BY <2>2 DEF Soft!Follows
    <3>2. q \in Int
      BY <1>0, ReceiverSizes
    <3> QED BY SMTT(30), <1>0, <3>1, <3>2 DEF Soft!Hears
  <2> QED BY <2>1, <2>2
<1>2. \A i \in 1..Len(softReceived) : i \in 1..Len(softWritten)
  BY <1>0, <1>1
<1>3. softPhase # Soft!Idle => Len(softReceived) + 1 \in 1..Len(softWritten)
  BY <1>0, <1>1
<1>4. \A k \in 1..DataBits : Soft!ticks_per_bit * k + 2 <= softPhase => softPhase # Soft!Idle
  BY <1>0
<1>5. Soft!HeardRight'
  BY <1>2, <1>3, <1>4 DEF Soft!Follows, Soft!HeardRight, Soft!receiver
<1>6. CASE softState = 0
  BY <1>5, <1>6 DEF Soft!Follows, Soft!HearsEnd, Soft!receiver, Soft!tx
<1>7. CASE softState # 0
  <2>1. softWritten'[t] = softWritten[t]
    BY <1>0, <1>7
  <2>2. PICK q \in (-Soft!ticks_per_bit)..(Soft!StopBit + MaxLatency) : Soft!AskedFor(softWritten[t], q) /\ Soft!Hears(t, q)
    BY <1>7 DEF Soft!Follows
  <2>3. PICK byte : byte = softWritten[t]
    OBVIOUS
  <2>4. Soft!AskedFor(byte, q)' /\ Soft!Hears(t, q)' /\ Soft!BitsKept(byte)'
    BY <1>7, <2>2, <2>3 DEF Soft!Follows, Soft!AskedFor, Soft!Hears, Soft!BitsKept,
       Soft!BitsLeft, Soft!Edge, Soft!tx, Soft!receiver
  <2> QED BY <1>5, <1>7, <2>1, <2>3, <2>4 DEF Soft!Follows, Soft!tx
<1> QED BY <1>6, <1>7

\* The interrupt leaves the receiver alone.
LEMMA HeardStays ==
  ASSUME Soft!HeardRight, UNCHANGED <<Soft!receiver, softWritten>>
  PROVE  Soft!HeardRight'
BY DEF Soft!HeardRight, Soft!receiver

\* The level that was asked for is that of the cell.
LEMMA EdgeLevel ==
  ASSUME Soft!SenderAssumption, Soft!TypeOK, softState # 0, NEW byte \in Soft!Bits,
     Soft!BitsKept(byte), NEW d \in 0..3
  PROVE  /\ Soft!LineAt(byte, Soft!Edge + d) = IF softCom = "clear" THEN 0 ELSE 1
         /\ softState <= DataBits + 1 => Soft!LineAt(byte, Soft!Edge + d) = softBit
<1>1. DataBits \in Nat \ {0} /\ softState \in 1..(DataBits + 2) /\ softBit \in {0, 1}
  BY Sizes DEF Soft!TypeOK, Soft!TxTypes
<1>2. Soft!LineAt(byte,
         Soft!Edge + d) = IF softState = 1 THEN 0 ELSE IF softState = DataBits + 2 THEN 1
                               ELSE byte[softState - 1]
  BY <1>1, LineCell DEF Soft!Edge
<1>3. softState = 1 => softBit = 0 /\ softState # DataBits + 2
  BY <1>1 DEF Soft!BitsKept
<1>4. softState \notin {1, DataBits + 2} => softBit = byte[softState - 1]
  BY <1>1 DEF Soft!BitsKept
<1>5. softCom = IF softState = DataBits + 2 \/ softBit = 1 THEN "set" ELSE "clear"
  BY DEF Soft!BitsKept
<1> QED BY <1>1, <1>2, <1>3, <1>4, <1>5

\* A quarter passes while a frame is sent.
LEMMA FrameGoesOn ==
  ASSUME Soft!SenderAssumption, Soft!TypeOK, NEW t \in Nat, t \in 1..Len(softWritten),
     Soft!Follows(t),
         softState # 0, softOcie, Soft!Tick
  PROVE  Soft!Follows(t)'
<1>0. /\ DataBits \in Nat \ {0} /\ Soft!StopBit = 4 * DataBits + 4 /\ Soft!ticks_per_bit = 4
      /\ Soft!StopBit \in Nat /\ softState \in 1..(DataBits + 2) /\ MaxLatency \in 0..3
      /\ Len(softWritten) \in Nat /\ TimerMod \in Nat /\ TimerMod > Soft!StopBit + MaxLatency
  BY Sizes, ReceiverSizes DEF Soft!TypeOK, Soft!TxTypes
<1>1. PICK byte : byte = softWritten[t] /\ byte \in Soft!Bits
  BY ReceiverSizes
<1>2. PICK q \in (-Soft!ticks_per_bit)..(Soft!StopBit + MaxLatency) : Soft!AskedFor(byte,
         q) /\ Soft!Hears(t, q)
  BY <1>1 DEF Soft!Follows
<1>3. q \in Int /\ q >= -4 /\ q <= Soft!StopBit + MaxLatency
  BY <1>0
<1>4. Soft!BitsKept(byte) /\ Soft!HeardRight
  BY <1>1 DEF Soft!Follows
<1>5. PICK e \in Nat : e = Soft!Edge /\ e <= Soft!StopBit /\ (softState = 1 => e = 0)
  <2>1. Soft!Edge \in Nat /\ Soft!Edge <= Soft!StopBit /\ (softState = 1 => Soft!Edge = 0)
    BY <1>0 DEF Soft!Edge
  <2> QED BY <2>1
<1>6. /\ softTime' = Soft!Later(softTime, 1) /\ UNCHANGED <<softCom, softOcie, softOcr,
                                                            Soft!tx,
                                                               softWritten>> /\ Soft!Receive
      /\ softOcf' = (softOcf \/ softTime' = softOcr)
      /\ softLevel' = IF softTime' # softOcr THEN softLevel ELSE IF softCom = "clear" THEN 0 ELSE 1
      /\ softOcf => softTime # Soft!Later(softOcr, MaxLatency)
  BY DEF Soft!Tick
<1>7. /\ softTime \in 0..(TimerMod - 1) /\ softOcr \in 0..(TimerMod - 1) /\ softTime \in Int
      /\ softOcr \in Int
  BY <1>0 DEF Soft!TypeOK, Soft!TimerTypes
<1>8. Soft!Edge' = e /\ Soft!BitsKept(byte)'
  BY <1>4, <1>5, <1>6 DEF Soft!Edge, Soft!BitsKept, Soft!BitsLeft, Soft!tx
<1>9. q + 1 \in (-Soft!ticks_per_bit)..(Soft!StopBit + MaxLatency) /\ Soft!AskedFor(byte,
         q + 1)'
  <2>1. CASE softOcf
    <3>1. q >= e /\ q <= e + MaxLatency /\ softTime = Soft!Later(softOcr,
             q - e) /\ softLevel = Soft!LineAt(byte, q)
      BY <1>2, <1>5, <2>1 DEF Soft!AskedFor
    <3>2. q - e # MaxLatency
      BY <1>6, <2>1, <3>1
    <3>3. q - e \in 0..2 /\ q - e + 1 \in 1..3 /\ q + 1 <= e + MaxLatency /\ q + 1 >= e
      BY <1>0, <1>3, <3>1, <3>2
    <3>4. softTime' = Soft!Later(softOcr, q - e + 1)
      BY <1>3, <1>6, <1>7, <3>1, LaterAdd
    <3>5. softTime' # softOcr
      <4> SUFFICES ASSUME Soft!Later(softOcr, q - e + 1) = Soft!Later(softOcr, 0) PROVE FALSE
        BY <1>7, <3>4, LaterNow
      <4>1. q - e + 1 \in Int /\ (q - e + 1) - 0 < TimerMod /\ 0 - (q - e + 1) < TimerMod
        BY <1>0, <3>3
      <4>2. q - e + 1 = 0
        BY <1>7, <4>1, LaterInj
      <4> QED BY <3>3, <4>2
    <3>6. softLevel' = Soft!LineAt(byte, q + 1)
      <4>1. /\ q = e + (q - e) /\ q + 1 = e + (q - e + 1)
            /\ q - e \in 0..3 /\ q - e + 1 \in 0..3
        BY <1>3, <3>3
      <4>2. \A d \in 0..3 : Soft!LineAt(byte, e + d) = IF softCom = "clear" THEN 0 ELSE 1
        BY <1>1, <1>4, <1>5, EdgeLevel
      <4>3. Soft!LineAt(byte, q + 1) = Soft!LineAt(byte, q)
        BY <4>1, <4>2
      <4> QED BY <1>6, <3>1, <3>5, <4>3
    <3>7. softTime' = Soft!Later(softOcr', q + 1 - e)
      <4>1. q + 1 - e = q - e + 1
        BY <1>3
      <4> QED BY <1>6, <3>4, <4>1
    <3>8. ~(q + 1 < 0) /\ q + 1 >= -4 /\ q + 1 <= Soft!StopBit + MaxLatency
      BY <1>0, <1>3, <1>5, <3>3
    <3>9. softOcf' = TRUE
      BY <1>6, <2>1
    <3> QED BY <1>0, <1>3, <1>8, <3>3, <3>6, <3>7, <3>8, <3>9 DEF Soft!AskedFor
  <2>2. CASE ~softOcf
    <3>1. /\ q < e /\ e - q <= Soft!StopBit /\ softOcr = Soft!Later(softTime,
             e - q) /\ softLevel = Soft!LineAt(byte, q)
          /\ \A i \in q..(e - 1) : Soft!LineAt(byte, i) = softLevel
          /\ q < 0 => softState = 1
      BY <1>2, <1>5, <2>2 DEF Soft!AskedFor
    <3>2. q + 1 >= -4 /\ q + 1 <= Soft!StopBit + MaxLatency /\ q + 1 <= e
      BY <1>0, <1>3, <1>5, <3>1
    <3>3. CASE q + 1 = e
      <4>1. e - q = 1
        BY <1>3, <3>3
      <4>2. softTime' = softOcr
        BY <1>6, <3>1, <4>1
      <4>3. softOcf' /\ softLevel' = IF softCom = "clear" THEN 0 ELSE 1
        BY <1>6, <4>2
      <4>4. Soft!LineAt(byte, e + 0) = IF softCom = "clear" THEN 0 ELSE 1
        BY <1>1, <1>4, <1>5, EdgeLevel
      <4>5. softLevel' = Soft!LineAt(byte, q + 1)
        BY <3>3, <4>3, <4>4
      <4>6. softTime' = Soft!Later(softOcr', (q + 1) - e)
        <5>1. (q + 1) - e = 0
          BY <3>3
        <5> QED BY <1>6, <1>7, <4>2, <5>1, LaterNow
      <4>7. q + 1 >= e /\ q + 1 <= e + MaxLatency /\ ~(q + 1 < 0)
        BY <1>0, <3>3
      <4> QED BY <1>0, <1>3, <1>8, <3>2, <4>3, <4>5, <4>6, <4>7 DEF Soft!AskedFor
    <3>4. CASE q + 1 < e
      <4>1. softTime' # softOcr
        <5> SUFFICES ASSUME Soft!Later(softTime, 1) = Soft!Later(softTime, e - q) PROVE FALSE
          BY <1>6, <3>1
        <5>1. e - q \in Int /\ 1 - (e - q) < TimerMod /\ (e - q) - 1 < TimerMod
          BY <1>0, <1>3, <3>1, <3>4
        <5>2. 1 = e - q
          BY <1>7, <5>1, LaterInj
        <5> QED BY <1>3, <3>4, <5>2
      <4>2. ~softOcf' /\ softLevel' = softLevel
        BY <1>6, <2>2, <4>1
      <4>3. q + 1 \in q..(e - 1) /\ \A i \in (q + 1)..(e - 1) : i \in q..(e - 1)
        BY <1>3, <3>4
      <4>4. softLevel' = Soft!LineAt(byte,
               q + 1) /\ \A i \in (q + 1)..(e - 1) : Soft!LineAt(byte, i) = softLevel'
        BY <3>1, <4>2, <4>3
      <4>5. softOcr' = Soft!Later(softTime', e - (q + 1))
        <5>1. Soft!Later(Soft!Later(softTime, 1), e - (q + 1)) = Soft!Later(softTime,
                 1 + (e - (q + 1)))
          BY <1>3, <1>7, LaterAdd
        <5>2. 1 + (e - (q + 1)) = e - q
          BY <1>3
        <5> QED BY <1>6, <3>1, <5>1, <5>2
      <4>6. e - (q + 1) <= Soft!StopBit /\ (q + 1 < 0 => q < 0)
        BY <1>0, <1>3, <3>1
      <4>7. q + 1 < 0 => softState' = 1
        BY <1>6, <3>1, <4>6 DEF Soft!tx
      <4> QED BY <1>0, <1>3, <1>8, <3>2, <3>4, <4>2, <4>4, <4>5, <4>6, <4>7 DEF Soft!AskedFor
    <3> QED BY <1>3, <3>2, <3>3, <3>4
  <2> QED BY <2>1, <2>2
<1>10. softLevel' = Soft!LineAt(byte, q + 1)
  BY <1>9 DEF Soft!AskedFor
<1>11. Soft!HeardRight' /\ Soft!Hears(t, q + 1)'
  <2>1. q >= -Soft!ticks_per_bit /\ t <= Len(softWritten) + 1 /\ UNCHANGED softWritten
    BY <1>0, <1>3, <1>6
  <2> QED BY <1>1, <1>2, <1>3, <1>4, <1>6, <1>10, <2>1, HearsOn
<1>12. softState' # 0 /\ softWritten' = softWritten
  BY <1>6 DEF Soft!tx
<1> QED BY <1>1, <1>8, <1>9, <1>11, <1>12 DEF Soft!Follows

\* The interrupt steps over equal bits: the cells between have the level that
\* the line has, and the change is asked for in time.
LEMMA ChangeIsAsked ==
  ASSUME Soft!SenderAssumption, Soft!TypeOK, NEW byte \in Soft!Bits, Soft!BitsKept(byte),
     NEW q \in Int,
         softState # 0, softOcf, Soft!AskedFor(byte, q),
         NEW n \in Nat, n >= 1, softState + n <= DataBits + 2,
         \A m \in 1..(n - 1) : softByte[m] = softBit,
         softState' = softState + n, softOcf' = FALSE, softOcr' = Soft!Later(softOcr,
            n * Soft!ticks_per_bit),
         UNCHANGED <<softTime, softLevel>>
  PROVE  Soft!AskedFor(byte, q)'
<1>0. /\ DataBits \in Nat \ {0} /\ Soft!StopBit = 4 * DataBits + 4 /\ Soft!ticks_per_bit = 4
      /\ Soft!StopBit \in Nat /\ softState \in 1..(DataBits + 2) /\ MaxLatency \in 0..3
      /\ softTime \in Int /\ softOcr \in Int /\ n \in Nat
  BY Sizes DEF Soft!TypeOK, Soft!TxTypes, Soft!TimerTypes
<1>1. PICK e \in Nat : e = Soft!Edge /\ e = 4 * (softState - 1)
  <2>1. 4 * (softState - 1) \in Nat /\ Soft!Edge = 4 * (softState - 1)
    BY <1>0 DEF Soft!Edge
  <2> QED BY <2>1
<1>2. PICK f \in Nat : f = Soft!Edge' /\ f = e + 4 * n /\ f <= Soft!StopBit
  <2>1. Soft!Edge' = e + 4 * n
    BY <1>0, <1>1 DEF Soft!Edge
  <2>2. e + 4 * n \in Nat /\ e + 4 * n <= Soft!StopBit
    BY <1>0, <1>1
  <2> QED BY <2>1, <2>2
<1>3. q >= e /\ q <= e + MaxLatency /\ softTime = Soft!Later(softOcr,
         q - e) /\ softLevel = Soft!LineAt(byte, q)
  BY <1>1 DEF Soft!AskedFor
<1>4. q - e \in 0..3 /\ q < f /\ f - q <= Soft!StopBit /\ ~(q < 0) /\ q \in Nat
  BY <1>0, <1>2, <1>3
<1>5. softOcr' = Soft!Later(softTime, f - q)
  <2>1. Soft!Later(Soft!Later(softOcr, q - e), f - q) = Soft!Later(softOcr, (q - e) + (f - q))
    BY <1>0, <1>4, LaterAdd
  <2>2. (q - e) + (f - q) = n * Soft!ticks_per_bit
    BY <1>0, <1>2, <1>4
  <2> QED BY <1>3, <2>1, <2>2
<1>6. /\ \A d \in 0..3 : Soft!LineAt(byte, e + d) = softBit
      /\ softLevel = softBit
  <2>1. softState <= DataBits + 1
    BY <1>0
  <2>2. \A d \in 0..3 : Soft!LineAt(byte, e + d) = softBit
    BY <1>1, <2>1, EdgeLevel
  <2>3. q = e + (q - e)
    BY <1>4
  <2> QED BY <1>3, <1>4, <2>2, <2>3
<1>7. ASSUME NEW i \in q..(f - 1) PROVE Soft!LineAt(byte, i) = softLevel
  <2>0. i \in Nat /\ i >= e /\ i < f
    BY <1>3, <1>4
  <2>1. PICK s \in Nat : \E d \in 0..3 : i = 4 * (s - 1) + d /\ s >= 1
    BY <1>0, <2>0, CellOf
  <2>2. PICK d \in 0..3 : i = 4 * (s - 1) + d /\ s >= 1
    BY <2>1
  <2>3. s >= softState /\ s < softState + n /\ s \in 1..(DataBits + 2) /\ s # DataBits + 2
    BY <1>0, <1>1, <1>2, <2>0, <2>2
  <2>4. CASE s = softState
    <3>1. i = e + d
      BY <1>1, <2>2, <2>4
    <3> QED BY <1>6, <3>1
  <2>5. CASE s # softState
    <3>1. s - softState \in 1..(n - 1) /\ s - softState \in 1..Soft!BitsLeft /\ s # 1
      BY <1>0, <2>3, <2>5 DEF Soft!BitsLeft
    <3>2. softState - 1 + (s - softState) = s - 1
      BY <1>0
    <3>3. byte[s - 1] = softBit
      BY <3>1, <3>2 DEF Soft!BitsKept
    <3>4. Soft!LineAt(byte, Soft!ticks_per_bit * (s - 1) + d) = byte[s - 1]
      BY <2>2, <2>3, <3>1, LineCell
    <3> QED BY <1>0, <1>6, <2>2, <3>3, <3>4
  <2> QED BY <2>4, <2>5
<1> QED BY <1>2, <1>3, <1>4, <1>5, <1>7 DEF Soft!AskedFor

\* The interrupt asks for the next data bit that differs.
LEMMA FrameChanges ==
  ASSUME Soft!SenderAssumption, Soft!TypeOK, NEW t \in 1..Len(softWritten), Soft!Follows(t),
         softState # 0, Soft!CompareInterrupt, Soft!DataBit \/ Soft!LastBit
  PROVE  Soft!Follows(t)' /\ softState' # 0
<1>0. /\ DataBits \in Nat \ {0} /\ softState \in 1..(DataBits + 2) /\ softBit \in {0, 1}
  BY Sizes DEF Soft!TypeOK, Soft!TxTypes
<1>1. PICK byte : byte = softWritten[t] /\ byte \in Soft!Bits
  BY ReceiverSizes
<1>2. PICK q \in (-Soft!ticks_per_bit)..(Soft!StopBit + MaxLatency) : Soft!AskedFor(byte,
         q) /\ Soft!Hears(t, q)
  BY <1>1 DEF Soft!Follows
<1>3. Soft!BitsKept(byte) /\ Soft!HeardRight /\ q \in Int
  BY <1>1, ReceiverSizes DEF Soft!Follows
<1>4. UNCHANGED <<softTime, softLevel, Soft!receiver, softWritten>> /\ softOcf
  BY DEF Soft!CompareInterrupt
<1>5. Soft!HeardRight' /\ Soft!Hears(t, q)'
  BY <1>2, <1>3, <1>4, HeardStays DEF Soft!Hears, Soft!receiver
<1>6. CASE Soft!DataBit
  <2>1. PICK n \in 1..DataBits :
          /\ Soft!NextChange(n)
          /\ softState' = softState + n /\ softByte' = Soft!ShiftOut(softByte,
             n) /\ softBit' = 1 - softBit
          /\ Soft!Ask(IF softBit = 0 THEN "set" ELSE "clear", n)
    BY <1>6 DEF Soft!DataBit
  <2>2. /\ n \in Nat /\ n >= 1 /\ n \in 1..Soft!BitsLeft /\ softState + n <= DataBits + 1
        /\ softState + n <= DataBits + 2
        /\ softByte[n] # softBit /\ \A m \in 1..(n - 1) : softByte[m] = softBit
    BY <1>0, <2>1 DEF Soft!NextChange, Soft!BitsLeft
  <2>3. Soft!AskedFor(byte, q)'
    <3>1. /\ softState' = softState + n /\ softOcf' = FALSE /\ softOcr' = Soft!Later(softOcr,
             n * Soft!ticks_per_bit)
          /\ UNCHANGED <<softTime, softLevel>> /\ softOcf
      BY <1>4, <2>1 DEF Soft!Ask
    <3> QED BY <1>1, <1>2, <1>3, <2>2, <3>1, ChangeIsAsked
  <2>4. softState' \in 2..(DataBits + 1) /\ softState' # 1 /\ softState' # DataBits + 2
    BY <1>0, <2>1, <2>2
  <2>5. softBit' = byte[softState' - 1]
    <3>1. softByte[n] = byte[softState - 1 + n]
      BY <1>3, <2>2 DEF Soft!BitsKept
    <3>2. byte[softState - 1 + n] \in {0, 1}
      <4>1. softState - 1 + n \in 1..DataBits
        BY <1>0, <2>2
      <4> QED BY <1>1, <4>1 DEF Soft!Bits
    <3>3. softState' - 1 = softState - 1 + n
      BY <1>0, <2>1
    <3>4. byte[softState - 1 + n] = 1 - softBit
      BY <1>0, <2>2, <3>1, <3>2
    <3> QED BY <2>1, <3>3, <3>4
  <2>6. ASSUME NEW k \in 1..(DataBits + 1 - softState')
        PROVE  softByte'[k] = byte[softState' - 1 + k]
    <3>1. /\ k + n \in 1..Soft!BitsLeft /\ k + n <= DataBits /\ k \in 1..DataBits
          /\ softState' - 1 + k = softState - 1 + (k + n)
      BY <1>0, <2>1, <2>2 DEF Soft!BitsLeft
    <3>2. softByte'[k] = softByte[k + n]
      BY <2>1, <3>1 DEF Soft!ShiftOut
    <3> QED BY <1>3, <3>1, <3>2 DEF Soft!BitsKept
  <2>7. softCom' = IF softState' = DataBits + 2 \/ softBit' = 1 THEN "set" ELSE "clear"
    BY <1>0, <2>1, <2>4 DEF Soft!Ask
  <2>8. Soft!BitsKept(byte)'
    BY <2>4, <2>5, <2>6, <2>7 DEF Soft!BitsKept, Soft!BitsLeft
  <2>9. softState' # 0
    BY <1>0, <2>4
  <2> QED BY <1>1, <1>2, <1>4, <1>5, <2>3, <2>8, <2>9 DEF Soft!Follows
<1>7. CASE Soft!LastBit
  <2>1. /\ softState <= DataBits + 1 /\ \A n \in 1..DataBits : ~Soft!NextChange(n)
        /\ softState' = DataBits + 2
        /\ softCom' = "set" /\ softOcf' = FALSE /\ softOcr' = Soft!Later(softOcr,
           (DataBits + 2 - softState) * Soft!ticks_per_bit)
        /\ UNCHANGED <<softByte, softBit>>
    BY <1>7 DEF Soft!LastBit, Soft!Ask
  <2>2. \A m \in 1..Soft!BitsLeft : softByte[m] = softBit
    <3> DEFINE Differ == {m \in 1..Soft!BitsLeft : softByte[m] # softBit}
    <3>1. Soft!BitsLeft \in 0..DataBits
      BY <1>0, <2>1 DEF Soft!BitsLeft
    <3>2. SUFFICES ASSUME Differ # {} PROVE FALSE
      OBVIOUS
    <3>3. Differ \subseteq Nat /\ Differ \subseteq 1..Soft!BitsLeft
      BY <3>1
    <3>4. PICK n \in Differ : \A m \in Differ : n <= m
      <4> HIDE DEF Differ
      <4> QED BY <3>2, <3>3, Least
    <3>5. n \in 1..Soft!BitsLeft /\ softByte[n] # softBit /\ n \in 1..DataBits
      <4>1. n \in 1..Soft!BitsLeft /\ softByte[n] # softBit
        BY <3>4
      <4> HIDE DEF Differ
      <4> QED BY <1>0, <3>1, <4>1
    <3>6. ASSUME NEW m \in 1..(n - 1), softByte[m] # softBit PROVE FALSE
      <4>1. m \in Differ /\ m < n
        BY <3>1, <3>5, <3>6
      <4>2. n <= m
        BY <3>4, <4>1
      <4> QED BY <3>1, <3>5, <4>1, <4>2
    <3>7. Soft!NextChange(n)
      BY <3>5, <3>6 DEF Soft!NextChange
    <3> QED BY <2>1, <3>5, <3>7
  <2>n. PICK n \in Int : n = DataBits + 2 - softState
    BY <1>0
  <2>3. /\ n \in Nat /\ n = DataBits + 2 - softState /\ n >= 1 /\ softState' = softState + n
        /\ softState + n <= DataBits + 2 /\ n - 1 = Soft!BitsLeft
    BY <1>0, <2>1, <2>n DEF Soft!BitsLeft
  <2>4. \A m \in 1..(n - 1) : softByte[m] = softBit
    BY <2>2, <2>3
  <2>5. softOcr' = Soft!Later(softOcr, n * Soft!ticks_per_bit)
    BY <2>1, <2>3
  <2>6. Soft!AskedFor(byte, q)'
    <3>1. UNCHANGED <<softTime, softLevel>> /\ softOcf /\ softOcf' = FALSE
      BY <1>4, <2>1
    <3> QED BY <1>1, <1>2, <1>3, <2>3, <2>4, <2>5, <3>1, ChangeIsAsked
  <2>7. softState' # 1 /\ softState' # 0 /\ softState' \notin 2..(DataBits + 1)
    BY <1>0, <2>1
  <2>8. \A k \in 1..(DataBits + 1 - softState') : FALSE
    BY <1>0, <2>1
  <2>9. Soft!BitsKept(byte)'
    BY <2>1, <2>7, <2>8 DEF Soft!BitsKept, Soft!BitsLeft
  <2> QED BY <1>1, <1>2, <1>4, <1>5, <2>6, <2>7, <2>9 DEF Soft!Follows
<1> QED BY <1>6, <1>7

\* The last change was that to the stop bit.
LEMMA InStopBit ==
  ASSUME Soft!SenderAssumption, Soft!TypeOK, NEW t \in 1..Len(softWritten), Soft!Follows(t),
         softState = DataBits + 2, softOcf
  PROVE  \E q \in Nat : /\ q >= Soft!StopBit /\ q <= Soft!StopBit + MaxLatency /\ softLevel = 1
                        /\ softTime = Soft!Later(softOcr, q - Soft!StopBit) /\ Soft!Hears(t, q)
<1>0. /\ DataBits \in Nat \ {0} /\ Soft!StopBit = 4 * DataBits + 4 /\ Soft!ticks_per_bit = 4
      /\ Soft!StopBit \in Nat /\ MaxLatency \in 0..3 /\ softState # 0
  BY Sizes
<1>1. Soft!Edge = Soft!StopBit
  BY <1>0 DEF Soft!Edge
<1>2. PICK q \in (-Soft!ticks_per_bit)..(Soft!StopBit + MaxLatency) : Soft!AskedFor(softWritten[t], q) /\ Soft!Hears(t, q)
  BY <1>0 DEF Soft!Follows
<1>3. q >= Soft!StopBit /\ q <= Soft!StopBit + MaxLatency /\ softTime = Soft!Later(softOcr,
         q - Soft!StopBit)
      /\ softLevel = Soft!LineAt(softWritten[t], q)
  BY <1>1, <1>2 DEF Soft!AskedFor
<1>4. q \in Nat /\ ~(q < 0) /\ ~(q < 4) /\ ~(q < Soft!StopBit)
  BY <1>0, <1>3
<1>5. softLevel = 1
  BY <1>0, <1>3, <1>4 DEF Soft!LineAt
<1> QED BY <1>2, <1>3, <1>4, <1>5

\* No byte waits: the line stays in the stop bit.
LEMMA FrameIsLast ==
  ASSUME Soft!SenderAssumption, Soft!TypeOK, NEW t \in 1..Len(softWritten), Soft!Follows(t),
         softState = DataBits + 2, Soft!CompareInterrupt, Soft!Finishes
  PROVE  Soft!Follows(t)'
<1>1. /\ UNCHANGED <<softTime, softLevel, Soft!receiver,
                     softWritten>> /\ softOcf /\ softState' = 0
  BY DEF Soft!CompareInterrupt, Soft!Finishes
<1>2. PICK q \in Nat : q >= Soft!StopBit /\ softLevel = 1 /\ Soft!Hears(t, q)
  BY <1>1, InStopBit
<1>3. Soft!HearsEnd(t)
  <2>1. CASE q <= Soft!StopBit + 1
    <3>1. q \in 0..(Soft!StopBit + 1)
      BY <1>2, <2>1, ReceiverSizes
    <3> QED BY <1>2, <3>1 DEF Soft!Hears, Soft!HearsEnd
  <2>2. CASE q > Soft!StopBit + 1
    BY <1>2, <2>2 DEF Soft!Hears, Soft!HearsEnd
  <2>3. q \in Nat /\ Soft!StopBit \in Nat
    BY ReceiverSizes
  <2>4. q <= Soft!StopBit + 1 \/ q > Soft!StopBit + 1
    BY ONLY <2>3
  <2> QED BY <2>1, <2>2, <2>4
<1>4. Soft!HearsEnd(t)' /\ Soft!HeardRight'
  BY <1>1, <1>3, HeardStays DEF Soft!HearsEnd, Soft!receiver, Soft!Follows
<1> QED BY <1>1, <1>4 DEF Soft!Follows

\* A frame begins: nothing of it has been heard.
LEMMA FrameBegins ==
  ASSUME Soft!SenderAssumption, Soft!TypeOK, NEW t \in Nat, NEW q \in Int, q < 0,
     q >= -Soft!ticks_per_bit,
         Soft!HeardRight', Soft!Hears(t, q)', softLevel' = 1, softOcf' = FALSE,
         softState' = 1, softBit' = 0, softCom' = "clear", softByte' = softWritten'[t],
         softOcr' = Soft!Later(softTime', -q)
  PROVE  Soft!Follows(t)'
<1>0. /\ DataBits \in Nat \ {0} /\ Soft!StopBit = 4 * DataBits + 4 /\ Soft!ticks_per_bit = 4
      /\ Soft!StopBit \in Nat /\ MaxLatency \in 0..3
  BY Sizes
<1>1. PICK byte : byte = softWritten'[t]
  OBVIOUS
<1>2. Soft!BitsKept(byte)'
  <2>1. softState' \notin 2..(DataBits + 1) /\ softState' # DataBits + 2
    BY <1>0
  <2>2. \A k \in 1..DataBits : softState' - 1 + k = k
    OBVIOUS
  <2>3. DataBits + 1 - softState' = DataBits
    BY <1>0
  <2> QED BY <1>1, <2>1, <2>2, <2>3 DEF Soft!BitsKept, Soft!BitsLeft
<1>3. Soft!AskedFor(byte, q)'
  <2>1. Soft!Edge' = 0
    BY <1>0 DEF Soft!Edge
  <2>2. /\ softLevel' = Soft!LineAt(byte, q) /\ \A i \in q..(0 - 1) : Soft!LineAt(byte,
           i) = softLevel'
        /\ 0 - q <= Soft!StopBit /\ 0 - q = -q /\ q < 0
    BY <1>0 DEF Soft!LineAt
  <2> QED BY <2>1, <2>2 DEF Soft!AskedFor
<1>4. q \in (-Soft!ticks_per_bit)..(Soft!StopBit + MaxLatency) /\ softState' # 0
  BY <1>0
<1> QED BY <1>1, <1>2, <1>3, <1>4 DEF Soft!Follows

\* The next byte of the ring follows the stop bit.
LEMMA FrameIsFollowed ==
  ASSUME Soft!SenderAssumption, Soft!TypeOK, NEW t \in 1..Len(softWritten), Soft!Follows(t),
         softState = DataBits + 2, Soft!CompareInterrupt, Soft!TakesNext,
            softByte' = softWritten[t + 1]
  PROVE  Soft!Follows(t + 1)'
<1>0. /\ DataBits \in Nat \ {0} /\ Soft!StopBit = 4 * DataBits + 4 /\ Soft!ticks_per_bit = 4
      /\ Soft!Idle = -1
      /\ Soft!StopBit \in Nat /\ MaxLatency \in 0..3 /\ t \in Nat /\ t + 1 \in Nat
      /\ softTime \in Int /\ softOcr \in Int
      /\ softPhase \in Int /\ softPhase <= Soft!StopBit + 1 /\ Len(softReceived) \in Nat
  BY ReceiverSizes, Sizes DEF Soft!TypeOK, Soft!TimerTypes
<1>1. /\ UNCHANGED <<softTime, softLevel, Soft!receiver, softWritten>> /\ softOcf
      /\ softState' = 1 /\ softBit' = 0 /\ softCom' = "clear" /\ softOcf' = FALSE
      /\ softOcr' = Soft!Later(softOcr, 1 * Soft!ticks_per_bit)
  BY DEF Soft!CompareInterrupt, Soft!TakesNext, Soft!Ask
<1>2. PICK q \in Nat : /\ q >= Soft!StopBit /\ q <= Soft!StopBit + MaxLatency /\ softLevel = 1
                       /\ softTime = Soft!Later(softOcr, q - Soft!StopBit) /\ Soft!Hears(t, q)
  BY <1>1, InStopBit
<1>3. PICK p \in Int : p = q - Soft!StopBit - 4 /\ p < 0 /\ p >= -Soft!ticks_per_bit
  <2>1. /\ q - Soft!StopBit - 4 \in Int /\ q - Soft!StopBit - 4 < 0
        /\ q - Soft!StopBit - 4 >= -Soft!ticks_per_bit
    BY <1>0, <1>2
  <2> QED BY <2>1
<1>4. softOcr' = Soft!Later(softTime, -p)
  <2>1. Soft!Later(Soft!Later(softOcr, q - Soft!StopBit), -p) = Soft!Later(softOcr,
           (q - Soft!StopBit) + (-p))
    BY <1>0, <1>2, <1>3, LaterAdd
  <2>2. (q - Soft!StopBit) + (-p) = 1 * Soft!ticks_per_bit
    BY <1>0, <1>2, <1>3
  <2> QED BY <1>1, <1>2, <2>1, <2>2
<1>5. Soft!Hears(t + 1, p)
  <2>0. ~(p \in 0..(Soft!StopBit + 1)) /\ ~(p > Soft!StopBit + 1)
    BY <1>0, <1>3
  <2>1. CASE q <= Soft!StopBit + 1
    <3>1. q \in 0..(Soft!StopBit + 1)
      BY <1>2, <2>1
    <3>2. softPhase = q /\ Len(softReceived) = t - 1
      BY <1>2, <3>1 DEF Soft!Hears
    <3>3. /\ softPhase >= Soft!StopBit /\ softPhase = Soft!StopBit + Soft!ticks_per_bit + p
          /\ Len(softReceived) = (t + 1) - 2
      BY <1>0, <1>2, <1>3, <3>2
    <3> QED BY <2>0, <3>3 DEF Soft!Hears
  <2>2. CASE q > Soft!StopBit + 1
    <3>1. softPhase = Soft!Idle /\ Len(softReceived) = t
      BY <1>2, <2>2 DEF Soft!Hears
    <3>2. Len(softReceived) = (t + 1) - 1
      BY <1>0, <3>1
    <3> QED BY <2>0, <3>1, <3>2 DEF Soft!Hears
  <2> QED BY <1>0, <1>2, <2>1, <2>2
<1>6. Soft!Hears(t + 1, p)' /\ Soft!HeardRight'
  BY <1>1, <1>5, HeardStays DEF Soft!Hears, Soft!receiver, Soft!Follows
<1>7. /\ softLevel' = 1 /\ softByte' = softWritten'[t + 1] /\ softOcr' = Soft!Later(softTime', -p)
  BY <1>1, <1>2, <1>4
<1> QED BY <1>0, <1>1, <1>3, <1>6, <1>7, FrameBegins

\* A byte is sent at once when the line is quiet.
LEMMA FrameIsFirst ==
  ASSUME Soft!SenderAssumption, Soft!TypeOK, NEW t \in Nat, Soft!Follows(t), Soft!Stores,
     Soft!SendsAtOnce, softPhase = Soft!Idle,
         softByte' = softWritten[t + 1]
  PROVE  Soft!Follows(t + 1)'
<1>0. /\ Soft!StopBit \in Nat /\ Soft!Idle = -1 /\ Soft!ticks_per_bit = 4
      /\ Len(softReceived) \in Nat
      /\ -1 \in Int /\ -1 < 0 /\ -1 >= -Soft!ticks_per_bit /\ t + 1 \in Nat
  BY ReceiverSizes
<1>1. /\ UNCHANGED <<softTime, softLevel, Soft!receiver, softWritten>> /\ softState = 0
      /\ softState' = 1 /\ softBit' = 0 /\ softCom' = "clear" /\ softOcf' = FALSE
      /\ softOcr' = Soft!Later(softTime, 1)
  BY DEF Soft!Stores, Soft!SendsAtOnce
<1>2. softLevel = 1 /\ Len(softReceived) = t /\ Soft!HeardRight
  BY <1>0, <1>1 DEF Soft!Follows, Soft!HearsEnd
<1>3. Soft!Hears(t + 1, -1)
  <2>1. /\ ~(-1 \in 0..(Soft!StopBit + 1)) /\ ~(-1 > Soft!StopBit + 1)
        /\ Len(softReceived) = (t + 1) - 1
    BY <1>0, <1>2
  <2> QED BY <2>1 DEF Soft!Hears
<1>4. Soft!Hears(t + 1, -1)' /\ Soft!HeardRight'
  BY <1>1, <1>2, <1>3, HeardStays DEF Soft!Hears, Soft!receiver
<1>5. softLevel' = 1 /\ softByte' = softWritten'[t + 1] /\ softOcr' = Soft!Later(softTime',
         -(-1))
  BY <1>1, <1>2
<1> QED BY <1>0, <1>1, <1>4, <1>5, FrameBegins

\* Nothing is sent; the receiver may be in the stop bit of the last frame.
LEMMA EndGoesOn ==
  ASSUME Soft!SenderAssumption, Soft!TypeOK, NEW t \in Nat, t <= Len(softWritten),
     Soft!Follows(t),
         softState = 0, ~softOcie, Soft!Tick
  PROVE  Soft!Follows(t)'
<1>0. /\ DataBits \in Nat \ {0} /\ Soft!StopBit = 4 * DataBits + 4 /\ Soft!ticks_per_bit = 4
      /\ Soft!Idle = -1
      /\ Soft!StopBit \in Nat /\ softPhase \in Int /\ softPhase <= Soft!StopBit + 1
      /\ Len(softReceived) \in Nat /\ Len(softWritten) \in Nat /\ t + 1 \in Nat
  BY ReceiverSizes
<1>1. UNCHANGED <<Soft!tx, softWritten>> /\ softLevel' = softLevel /\ Soft!Receive
  BY DEF Soft!Tick
<1>2. Soft!HearsEnd(t) /\ Soft!HeardRight /\ softLevel' = 1
  BY <1>1 DEF Soft!Follows, Soft!HearsEnd
<1>3. PICK q \in Int : q >= -Soft!ticks_per_bit /\ q < -1 /\ Soft!Hears(t + 1, q)
  <2>1. CASE softPhase = Soft!Idle
    <3>1. Len(softReceived) = (t + 1) - 1
      BY <1>0, <1>2, <2>1 DEF Soft!HearsEnd
    <3>2. /\ ~(-2 \in 0..(Soft!StopBit + 1)) /\ ~(-2 > Soft!StopBit + 1)
          /\ -2 >= -Soft!ticks_per_bit /\ -2 < -1
      BY <1>0
    <3>3. Soft!Hears(t + 1, -2)
      BY <2>1, <3>1, <3>2 DEF Soft!Hears
    <3> QED BY <3>2, <3>3
  <2>2. CASE softPhase # Soft!Idle
    <3>1. softPhase >= Soft!StopBit /\ Len(softReceived) = t - 1
      BY <1>2, <2>2 DEF Soft!HearsEnd
    <3>2. PICK p \in Int : p = softPhase - Soft!StopBit - 4
      BY <1>0
    <3>3. /\ ~(p \in 0..(Soft!StopBit + 1)) /\ ~(p > Soft!StopBit + 1)
          /\ p >= -Soft!ticks_per_bit /\ p < -1
          /\ softPhase = Soft!StopBit + Soft!ticks_per_bit + p /\ Len(softReceived) = (t + 1) - 2
      BY <1>0, <3>1, <3>2
    <3>4. Soft!Hears(t + 1, p)
      BY <3>1, <3>3 DEF Soft!Hears
    <3> QED BY <3>3, <3>4
  <2> QED BY <2>1, <2>2
<1>4. softLevel' = Soft!LineAt(Soft!Zero, q + 1)
  BY <1>2, <1>3 DEF Soft!LineAt
<1>5. Soft!HeardRight' /\ Soft!Hears(t + 1, q + 1)'
  <2>1. t + 1 <= Len(softWritten) + 1 /\ ~(q >= -1)
    BY <1>0, <1>3
  <2> QED BY <1>0, <1>1, <1>2, <1>3, <1>4, <2>1, HearsOn
<1>6. Soft!HearsEnd(t)'
  <2>1. q + 1 < 0
    BY <1>3
  <2>2. \/ softPhase' = Soft!Idle /\ Len(softReceived') = (t + 1) - 1
        \/ softPhase' >= Soft!StopBit /\ Len(softReceived') = (t + 1) - 2
    BY <1>5, <2>1 DEF Soft!Hears
  <2>3. (t + 1) - 1 = t /\ (t + 1) - 2 = t - 1
    BY <1>0
  <2> QED BY <1>2, <2>2, <2>3 DEF Soft!HearsEnd
<1>7. softState' = 0
  BY <1>1 DEF Soft!tx
<1> QED BY <1>5, <1>6, <1>7 DEF Soft!Follows

-----------------------------------------------------------------------------
(***************************************************************************)
(* The invariant.                                                          *)
(***************************************************************************)
LEMMA SoftBegins ==
  ASSUME Soft!SenderAssumption, Soft!Init
  PROVE  Soft!SenderInv
<1>0. /\ DataBits \in Nat \ {0} /\ RX_BUFFER_SIZE \in Nat \ {0} /\ Soft!StopBit \in Nat
      /\ Soft!Idle = -1 /\ Soft!Zero \in Soft!Bits /\ 0 \in 0..(TimerMod - 1) /\ 0 \in Soft!Slot
      /\ Soft!ticks_per_bit = 4
  BY Sizes DEF Soft!Slot
<1>1. Soft!TypeOK
  <2>1. Soft!TimerTypes
    BY <1>0 DEF Soft!Init, Soft!TimerTypes
  <2>2. Soft!TxTypes
    BY <1>0 DEF Soft!Init, Soft!TxTypes
  <2>3. Soft!SketchTypes
    BY <1>0 DEF Soft!Init, Soft!SketchTypes
  <2>4. Soft!ReceiverTypes
    BY <1>0 DEF Soft!Init, Soft!ReceiverTypes
  <2> QED BY <2>1, <2>2, <2>3, <2>4 DEF Soft!TypeOK
<1>2. Soft!Stored = 0 /\ Len(softWritten) = 0 /\ Len(softReceived) = 0 /\ Soft!Stored - 0 = 0
  BY DEF Soft!Init, Soft!Stored
<1>3. Soft!RingHolds(0)
  <2>1. 0 = (0 + 0) % RX_BUFFER_SIZE /\ \A k \in 1..0 : FALSE
    BY <1>0
  <2> QED BY <1>2, <2>1 DEF Soft!Init, Soft!RingHolds
<1>4. Soft!Follows(0)
  <2>1. Soft!HeardRight
    <3>1. \A i \in 1..0 : FALSE
      OBVIOUS
    <3>2. \A k \in 1..DataBits : ~(Soft!ticks_per_bit * k + 2 <= Soft!Idle)
      BY <1>0
    <3> QED BY <1>2, <3>1, <3>2 DEF Soft!Init, Soft!HeardRight
  <2>2. Soft!HearsEnd(0)
    BY <1>2 DEF Soft!Init, Soft!HearsEnd
  <2> QED BY <2>1, <2>2 DEF Soft!Init, Soft!Follows
<1> QED BY <1>0, <1>1, <1>2, <1>3, <1>4 DEF Soft!SenderInv

\* One step for a number of bytes in the ring.
LEMMA SoftMoves ==
  ASSUME Soft!SenderAssumption, Soft!TypeOK, NEW w \in Soft!Slot, Soft!RingHolds(w),
     ~softRushed => Soft!Follows(Soft!Stored - w),
         [Soft!Next]_(Soft!vars)
  PROVE  \E v \in Soft!Slot : Soft!RingHolds(v)' /\ (~softRushed => Soft!Follows(Soft!Stored - v))'
<1>0. /\ w \in Nat /\ Len(softWritten) \in Nat /\ Soft!Stored \in Int
      /\ Soft!Stored <= Len(softWritten)
      /\ w <= Soft!Stored /\ softState \in Nat /\ (softState # 0 => w < Soft!Stored)
  BY RingSizes DEF Soft!RingHolds
<1>1. PICK t \in Nat : t = Soft!Stored - w
  BY <1>0
<1>2. t <= Len(softWritten) /\ (softState # 0 => t > 0 /\ t \in 1..Len(softWritten)) /\ t + 1 = Soft!Stored - w + 1
  BY <1>0, <1>1
<1>3. ~softRushed => Soft!Follows(t)
  BY <1>1
<1>4. /\ softState = 0 => w = 0 /\ ~softOcie /\ ~softOcf
      /\ softState # 0 => softOcie /\ softSketch \notin {"closed", "flushed"}
  BY DEF Soft!RingHolds
<1>5. CASE Soft!Tick
  <2>1. /\ UNCHANGED <<Soft!ring, softArgument, softWritten, softOcie, softSketch, Soft!tx,
                       softRushed>>
        /\ softOcf' = (softOcf \/ (softOcie /\ softTime' = softOcr))
    BY <1>5 DEF Soft!Tick
  <2>2. Soft!RingHolds(w)' /\ Soft!Stored' = Soft!Stored
    <3>1. softState = 0 => ~softOcf'
      BY <1>4, <2>1
    <3>2. /\ softSketch' = "store" => w < RX_BUFFER_SIZE - 1
          /\ softSketch' \in {"closed", "flushed"} => softState = 0
      BY <1>4, <2>1 DEF Soft!RingHolds
    <3> QED BY <2>1, <3>1, <3>2, RingStays DEF Soft!tx
  <2>3. ASSUME ~softRushed' PROVE Soft!Follows(t)'
    <3>1. Soft!Follows(t)
      BY <1>3, <2>1, <2>3
    <3>2. CASE softState = 0
      BY <1>2, <1>4, <1>5, <3>1, <3>2, EndGoesOn
    <3>3. CASE softState # 0
      BY <1>2, <1>4, <1>5, <3>1, <3>3, FrameGoesOn
    <3> QED BY <3>2, <3>3
  <2> QED BY <1>1, <2>2, <2>3
<1>6. CASE Soft!CompareInterrupt
  <2>1. UNCHANGED <<softTime, softLevel, Soft!receiver, softSketch, softArgument,
                    softWritten, softRushed>> /\ softOcf /\ softState # 0
    BY <1>4, <1>6 DEF Soft!CompareInterrupt
  <2>2. CASE Soft!DataBit \/ Soft!LastBit
    <3>1. UNCHANGED <<Soft!ring, softOcie>> /\ softOcf' = FALSE
      BY <2>2 DEF Soft!DataBit, Soft!LastBit, Soft!Ask
    <3>2. softState' # 0
      BY <1>0, <2>1, <2>2, Sizes DEF Soft!DataBit, Soft!LastBit
    <3>3. Soft!RingHolds(w)' /\ Soft!Stored' = Soft!Stored
      <4>1. /\ softSketch' = "store" => w < RX_BUFFER_SIZE - 1
            /\ softSketch' \in {"closed", "flushed"} => softState = 0
        BY <1>4, <2>1 DEF Soft!RingHolds
      <4> QED BY <2>1, <3>1, <3>2, <4>1, RingStays
    <3>4. ASSUME ~softRushed' PROVE Soft!Follows(t)'
      <4>1. Soft!Follows(t)
        BY <1>3, <2>1, <3>4
      <4> QED BY <1>2, <1>6, <2>1, <2>2, <4>1, FrameChanges
    <3> QED BY <1>1, <3>3, <3>4
  <2>3. CASE Soft!FrameDone /\ Soft!Finishes
    <3>1. w = 0 /\ Soft!RingHolds(w)' /\ Soft!Stored' = Soft!Stored
      BY <2>1, <2>3, RingDone
    <3>2. ASSUME ~softRushed' PROVE Soft!Follows(t)'
      <4>1. Soft!Follows(t)
        BY <1>3, <2>1, <3>2
      <4> QED BY <1>2, <1>6, <2>1, <2>3, <4>1, FrameIsLast DEF Soft!FrameDone
    <3> QED BY <1>1, <3>1, <3>2
  <2>4. CASE Soft!FrameDone /\ Soft!TakesNext
    <3>1. /\ w - 1 \in Soft!Slot /\ Soft!RingHolds(w - 1)' /\ Soft!Stored' = Soft!Stored
          /\ softByte' = softWritten[Soft!Stored - w + 1]
      BY <2>1, <2>4, RingShrinks
    <3>2. ASSUME ~softRushed' PROVE Soft!Follows(t + 1)'
      <4>1. Soft!Follows(t) /\ softByte' = softWritten[t + 1]
        BY <1>2, <1>3, <2>1, <3>1, <3>2
      <4> QED BY <1>2, <1>6, <2>1, <2>4, <4>1, FrameIsFollowed DEF Soft!FrameDone
    <3>3. t + 1 = Soft!Stored' - (w - 1)
      BY <1>0, <1>1, <3>1
    <3> QED BY <3>1, <3>2, <3>3
  <2> QED BY <1>6, <2>2, <2>3, <2>4 DEF Soft!CompareInterrupt, Soft!FrameDone
<1>7. CASE Soft!begin
  <2>1. w = 0 /\ Soft!RingHolds(w)' /\ Soft!Stored' = Soft!Stored /\ softState = 0
    BY <1>7, RingReset
  <2>2. UNCHANGED <<Soft!timer, Soft!tx, softTime, Soft!receiver, softWritten,
                    softRushed>> /\ softLevel' = 1
    BY <1>7, <2>1 DEF Soft!begin, Soft!tx
  <2>3. ASSUME ~softRushed' PROVE Soft!Follows(t)'
    <3>1. Soft!Follows(t)
      BY <1>3, <2>2, <2>3
    <3>2. softLevel' = softLevel
      BY <2>1, <2>2, <3>1 DEF Soft!Follows, Soft!HearsEnd
    <3>3. /\ UNCHANGED <<softTime, softCom, softOcf, softOcr, softLevel, Soft!tx,
                         Soft!receiver>>
          /\ Len(softWritten) <= Len(softWritten')
          /\ \A i \in 1..Len(softWritten) : softWritten'[i] = softWritten[i]
      BY <1>0, <2>2, <3>2 DEF Soft!timer
    <3> QED BY <1>2, <3>1, <3>3, FrameStays
  <2> QED BY <1>1, <2>1, <2>3
<1>8. CASE Soft!writeByte
  <2>1. /\ Soft!RingHolds(w)' /\ Soft!Stored' = Soft!Stored
        /\ \A i \in 1..Len(softWritten) : softWritten'[i] = softWritten[i]
    BY <1>8, RingWaits
  <2>2. UNCHANGED <<Soft!timer, Soft!tx, softTime, softLevel, Soft!receiver, softRushed>>
    BY <1>8 DEF Soft!writeByte
  <2>3. Len(softWritten) <= Len(softWritten')
    <3>1. PICK byte \in Byte : softWritten' = Append(softWritten, byte)
      BY <1>8 DEF Soft!writeByte
    <3>2. byte \in Soft!Bits /\ softWritten \in Seq(Soft!Bits)
      BY RingSizes DEF Soft!SenderAssumption
    <3>3. Len(softWritten') = Len(softWritten) + 1
      BY <3>1, <3>2, Appended
    <3> QED BY <1>0, <3>3
  <2>4. ASSUME ~softRushed' PROVE Soft!Follows(t)'
    <3>1. Soft!Follows(t)
      BY <1>3, <2>2, <2>4
    <3>2. UNCHANGED <<softTime, softCom, softOcf, softOcr, softLevel, Soft!tx, Soft!receiver>>
      BY <2>2 DEF Soft!timer
    <3> QED BY <1>2, <2>1, <2>3, <3>1, <3>2, FrameStays
  <2> QED BY <1>1, <2>1, <2>4
<1>9. CASE Soft!Stores /\ Soft!StoresInRing
  <2>1. w + 1 \in Soft!Slot /\ Soft!RingHolds(w + 1)' /\ Soft!Stored' = Soft!Stored + 1
    BY <1>9, RingGrows
  <2>2. UNCHANGED <<Soft!timer, Soft!tx, softTime, softLevel, Soft!receiver, softRushed,
                    softWritten>>
    BY <1>9 DEF Soft!Stores, Soft!StoresInRing
  <2>3. ASSUME ~softRushed' PROVE Soft!Follows(t)'
    <3>1. Soft!Follows(t)
      BY <1>3, <2>2, <2>3
    <3>2. /\ UNCHANGED <<softTime, softCom, softOcf, softOcr, softLevel, Soft!tx,
                         Soft!receiver>>
          /\ Len(softWritten) <= Len(softWritten')
          /\ \A i \in 1..Len(softWritten) : softWritten'[i] = softWritten[i]
      BY <1>0, <2>2 DEF Soft!timer
    <3> QED BY <1>2, <3>1, <3>2, FrameStays
  <2>4. t = Soft!Stored' - (w + 1)
    BY <1>0, <1>1, <2>1
  <2> QED BY <2>1, <2>3, <2>4
<1>10. CASE Soft!Stores /\ Soft!SendsAtOnce
  <2>1. /\ w = 0 /\ Soft!RingHolds(w)' /\ Soft!Stored' = Soft!Stored + 1
        /\ softByte' = softWritten[Soft!Stored + 1]
    BY <1>10, RingPassed
  <2>2. softRushed' = (softRushed \/ softPhase # Soft!Idle)
    BY <1>10 DEF Soft!SendsAtOnce
  <2>3. t + 1 = Soft!Stored' - w /\ t + 1 = Soft!Stored + 1
    BY <1>0, <1>1, <2>1
  <2>4. ASSUME ~softRushed' PROVE Soft!Follows(t + 1)'
    <3>1. Soft!Follows(t) /\ softPhase = Soft!Idle /\ softByte' = softWritten[t + 1]
      BY <1>3, <2>1, <2>2, <2>3, <2>4
    <3> QED BY <1>10, <3>1, FrameIsFirst
  <2> QED BY <2>1, <2>3, <2>4
<1>11. CASE Soft!HasRoom
  <2>1. Soft!RingHolds(w)' /\ Soft!Stored' = Soft!Stored
    BY <1>11, RingHasRoom
  <2>2. UNCHANGED <<Soft!timer, Soft!tx, softTime, softLevel, Soft!receiver, softRushed,
                    softWritten>>
    BY <1>11 DEF Soft!HasRoom
  <2>3. ASSUME ~softRushed' PROVE Soft!Follows(t)'
    <3>1. Soft!Follows(t)
      BY <1>3, <2>2, <2>3
    <3>2. /\ UNCHANGED <<softTime, softCom, softOcf, softOcr, softLevel, Soft!tx,
                         Soft!receiver>>
          /\ Len(softWritten) <= Len(softWritten')
          /\ \A i \in 1..Len(softWritten) : softWritten'[i] = softWritten[i]
      BY <1>0, <2>2 DEF Soft!timer
    <3> QED BY <1>2, <3>1, <3>2, FrameStays
  <2> QED BY <1>1, <2>1, <2>3
<1>12. CASE Soft!flushOutput \/ Soft!GoesOn \/ Soft!end \/ UNCHANGED Soft!vars
  <2>1. UNCHANGED <<softTime, softCom, softOcf, softOcr, softLevel, Soft!tx, Soft!receiver,
                    softRushed, softWritten, Soft!ring, softArgument>>
    BY <1>12 DEF Soft!flushOutput, Soft!GoesOn, Soft!end, Soft!vars, Soft!timer
  <2>2. Soft!RingHolds(w)' /\ Soft!Stored' = Soft!Stored
    <3>1. CASE Soft!end
      <4>1. /\ softSketch = "flushed" /\ softSketch' = "closed" /\ softState = 0
            /\ softState' = 0 /\ softOcf' = softOcf
            /\ softOcie' = FALSE
        BY <2>1, <3>1 DEF Soft!end, Soft!tx
      <4>2. Soft!Stored' = Soft!Stored
        BY <2>1, <4>1 DEF Soft!Stored
      <4> QED BY <2>1, <4>1, <4>2 DEF Soft!RingHolds, Soft!ring
    <3>2. CASE ~Soft!end
      <4>1. /\ softOcie' = softOcie /\ (softSketch' \in {"full",
               "store"} <=> softSketch \in {"full", "store"})
            /\ softSketch' = "store" => softSketch = "store"
            /\ softSketch' \in {"closed", "flushed"} => softState = 0
            /\ softState' = softState /\ softOcf' = softOcf
        BY <1>4, <1>12, <2>1, <3>2 DEF Soft!flushOutput, Soft!GoesOn, Soft!vars, Soft!timer,
           Soft!tx
      <4>2. softSketch' = "store" => w < RX_BUFFER_SIZE - 1
        BY <4>1 DEF Soft!RingHolds
      <4>3. softState = 0 => ~softOcf'
        BY <1>4, <4>1
      <4>4. UNCHANGED <<Soft!ring, softArgument, softWritten, softOcie>>
        BY <2>1, <4>1
      <4>5. softState = 0 <=> softState' = 0
        BY <4>1
      <4> QED BY <4>1, <4>2, <4>3, <4>4, <4>5, RingStays
    <3> QED BY <3>1, <3>2
  <2>3. ASSUME ~softRushed' PROVE Soft!Follows(t)'
    <3>1. Soft!Follows(t)
      BY <1>3, <2>1, <2>3
    <3>2. /\ UNCHANGED <<softTime, softCom, softOcf, softOcr, softLevel, Soft!tx,
                         Soft!receiver>>
          /\ Len(softWritten) <= Len(softWritten')
          /\ \A i \in 1..Len(softWritten) : softWritten'[i] = softWritten[i]
      BY <1>0, <2>1
    <3> QED BY <1>2, <3>1, <3>2, FrameStays
  <2> QED BY <1>1, <2>2, <2>3
<1> QED BY <1>5, <1>6, <1>7, <1>8, <1>9, <1>10, <1>11, <1>12 DEF Soft!Next, Soft!Writing,
           Soft!Stores

\* Every step keeps the invariant of port B, with the number w of the bytes that wait.
LEMMA SoftKeeps ==
  ASSUME Soft!SenderAssumption, Soft!SenderInv, [Soft!Next]_(Soft!vars)
  PROVE  Soft!SenderInv'
<1>1. Soft!TypeOK'
  BY SoftTypesStep DEF Soft!SenderInv
<1>2. PICK w \in Soft!Slot : Soft!RingHolds(w) /\ (~softRushed => Soft!Follows(Soft!Stored - w))
  BY DEF Soft!SenderInv
<1>3. \E v \in Soft!Slot : Soft!RingHolds(v)' /\ (~softRushed => Soft!Follows(Soft!Stored - v))'
  BY <1>2, SoftMoves DEF Soft!SenderInv
<1> QED BY <1>1, <1>3 DEF Soft!SenderInv

\* What is heard is the beginning of what was written; after a flush all of it.
LEMMA SoftInOrder ==
  ASSUME Soft!SenderAssumption, Soft!SenderInv
  PROVE  Soft!SentInOrder
<1> SUFFICES ASSUME ~softRushed
             PROVE  /\ Soft!IsPrefix(softReceived, softWritten)
                    /\ softSketch = "flushed" => \/ softReceived = softWritten
                                         \/ /\ softPhase >= Soft!StopBit
                                            /\ softReceived = Soft!Front(softWritten)
  BY DEF Soft!SentInOrder
<1>1. PICK w \in Soft!Slot : Soft!RingHolds(w) /\ Soft!Follows(Soft!Stored - w)
  BY DEF Soft!SenderInv
<1>2. Soft!TypeOK
  BY DEF Soft!SenderInv
<1>3. /\ w \in Nat /\ w <= Soft!Stored /\ Soft!Stored \in Int /\ Soft!Stored <= Len(softWritten)
      /\ Len(softWritten) \in Nat /\ Len(softReceived) \in Nat /\ Soft!StopBit \in Nat
      /\ softPhase \in Int
      /\ Soft!ticks_per_bit = 4
      /\ softWritten \in Seq(Soft!Bits) /\ softReceived \in Seq(Soft!Bits \cup {Soft!Broken})
      /\ softState # 0 => w < Soft!Stored
  BY <1>1, <1>2, RingSizes, ReceiverSizes DEF Soft!RingHolds
<1>4. PICK t \in Nat : t = Soft!Stored - w
  BY <1>3
<1>5. Len(softReceived) <= t
  <2>1. CASE softState = 0
    BY <1>1, <1>3, <1>4, <2>1 DEF Soft!Follows, Soft!HearsEnd
  <2>2. CASE softState # 0
    <3>1. PICK q \in (-Soft!ticks_per_bit)..(Soft!StopBit + MaxLatency) : Soft!Hears(t, q)
      BY <1>1, <1>4, <2>2 DEF Soft!Follows
    <3>2. q \in Int
      BY <1>2, <1>3, ReceiverSizes
    <3> QED BY <1>3, <1>4, <3>1, <3>2 DEF Soft!Hears
  <2> QED BY <2>1, <2>2
<1>6. \A i \in 1..Len(softReceived) : softReceived[i] = softWritten[i]
  BY <1>1 DEF Soft!Follows, Soft!HeardRight
<1>7. Soft!IsPrefix(softReceived, softWritten)
  <2>1. Len(softReceived) <= Len(softWritten)
    BY <1>3, <1>4, <1>5
  <2> QED BY <1>3, <1>6, <2>1 DEF Soft!IsPrefix
<1>8. ASSUME softSketch = "flushed"
      PROVE  softReceived = softWritten \/ (softPhase >= Soft!StopBit /\ softReceived = Soft!Front(softWritten))
  <2>1. softState = 0 /\ w = 0 /\ Soft!Stored = Len(softWritten)
    BY <1>1, <1>8 DEF Soft!RingHolds, Soft!Stored
  <2>2. t = Len(softWritten)
    BY <1>3, <1>4, <2>1
  <2>3. Soft!HearsEnd(t)
    BY <1>1, <1>4, <2>1 DEF Soft!Follows
  <2>4. CASE Len(softReceived) = t
    BY <1>3, <1>6, <2>2, <2>4
  <2>5. CASE softPhase >= Soft!StopBit /\ Len(softReceived) = t - 1
    <3>1. softReceived = Soft!Front(softWritten)
      BY <1>3, <1>6, <2>2, <2>5 DEF Soft!Front
    <3> QED BY <2>5, <3>1
  <2> QED BY <2>3, <2>4, <2>5 DEF Soft!HearsEnd
<1> QED BY <1>7, <1>8

-----------------------------------------------------------------------------
(***************************************************************************)
(* Port A.                                                                 *)
(***************************************************************************)


\* The size of the ring, its positions, and that no character is Empty.
LEMMA Positions ==
  ASSUME Usart!UsartAssumption
  PROVE  /\ SERIAL_TX_BUFFER_SIZE \in Nat \ {0} /\ SERIAL_TX_BUFFER_SIZE >= 2
         /\ \A n \in Nat : n % SERIAL_TX_BUFFER_SIZE \in Usart!Position
         /\ Usart!Empty \notin 0..511
<1>1. SERIAL_TX_BUFFER_SIZE \in Nat \ {0} /\ SERIAL_TX_BUFFER_SIZE >= 2
  BY DEF Usart!UsartAssumption
<1>2. \A n \in Nat : n % SERIAL_TX_BUFFER_SIZE \in Usart!Position
  BY <1>1, ModRange DEF Usart!Position
<1>3. Usart!Empty \notin 0..511
  BY DEF Usart!Empty
<1> QED BY <1>1, <1>2, <1>3

\* A character is its low byte and its ninth bit.
LEMMA NinthBit ==
  ASSUME NEW n \in 0..511
  PROVE  n % 256 \in 0..255 /\ n \div 256 \in {0, 1} /\ (n % 256) + 256 * (n \div 256) = n
OBVIOUS

\* The character at a position has nine bits.
LEMMA CharType ==
  ASSUME Usart!RingTypes, NEW p \in Usart!Position
  PROVE  Usart!CharAt(p) \in 0..511
<1>1. usartBuffer[p] \in 0..255 /\ usartNinth[p] \in {0, 1}
  BY DEF Usart!RingTypes
<1> QED BY <1>1 DEF Usart!CharAt

\* The counts are numbers.
LEMMA Counts ==
  ASSUME Usart!HistoryTypes, usartSketch \in {"full", "head"} => Len(usartWritten) > 0
  PROVE  /\ Len(usartWritten) \in Nat /\ Len(usartLine) \in Nat
         /\ Usart!Stored \in Nat /\ Usart!Loaded \in Nat
<1> DEFINE w == Len(usartWritten)
           l == Len(usartLine)
<1>1. w \in Nat /\ l \in Nat
  BY DEF Usart!HistoryTypes
<1> HIDE DEF w, l
<1>2. usartSketch \in {"full", "head"} => w > 0
  BY DEF w
<1>3. Usart!Stored = IF usartSketch \in {"full", "head"} THEN w - 1 ELSE w
  BY DEF Usart!Stored, w
<1>4. Usart!Loaded = l + (IF usartShift = Usart!Empty THEN 0 ELSE 1) + (IF usartUdr = Usart!Empty THEN 0 ELSE 1)
  BY DEF Usart!Loaded, l
<1>5. Usart!Stored \in Nat
  BY <1>1, <1>2, <1>3
<1>6. Usart!Loaded \in Nat
  BY <1>1, <1>4
<1> QED BY <1>1, <1>5, <1>6 DEF w, l

-----------------------------------------------------------------------------
(***************************************************************************)
(* The types.                                                              *)
(***************************************************************************)
LEMMA UsartTypesStep ==
  Usart!UsartAssumption /\ Usart!TypeOK /\ [Usart!Next]_(Usart!vars) => Usart!TypeOK'
<1> SUFFICES ASSUME Usart!UsartAssumption, Usart!TypeOK,
       [Usart!Next]_(Usart!vars) PROVE Usart!TypeOK'
  OBVIOUS
<1> USE DEF Usart!TypeOK
<1>0. /\ Usart!AfterHead \in Usart!Position
      /\ (usartTail + 1) % SERIAL_TX_BUFFER_SIZE \in Usart!Position
  <2>1. usartHead \in Nat /\ usartTail \in Nat
    BY DEF Usart!RingTypes, Usart!Position
  <2>2. usartHead + 1 \in Nat /\ usartTail + 1 \in Nat
    BY <2>1
  <2> QED BY <2>2, Positions DEF Usart!AfterHead
<1>1. ASSUME Usart!UdreInterrupt PROVE Usart!TypeOK'
  <2>1. CASE usartHead = usartTail
    <3>1. UNCHANGED <<Usart!usart, Usart!ring, usartMarked, usartNine, usartSketch,
                      usartArgument, Usart!history>> /\ usartUdrie' = FALSE
      BY <1>1, <2>1 DEF Usart!UdreInterrupt
    <3>2. Usart!RingTypes' /\ Usart!HistoryTypes'
      BY <3>1 DEF Usart!ring, Usart!history, Usart!RingTypes, Usart!HistoryTypes
    <3>3. Usart!RegisterTypes'
      BY <3>1 DEF Usart!usart, Usart!RegisterTypes
    <3>5. Usart!FlagTypes'
      BY <3>1 DEF Usart!usart, Usart!FlagTypes
    <3>4. Usart!SketchTypes'
      BY <3>1 DEF Usart!SketchTypes
    <3> QED BY <3>2, <3>3, <3>4, <3>5
  <2>2. CASE usartHead # usartTail
    <3>2. /\ usartTxb8' = usartNinth[usartTail] /\ usartBuffer[usartTail] \in 0..255
          /\ usartNinth[usartTail] \in {0, 1}
      BY <1>1, <2>2 DEF Usart!UdreInterrupt, Usart!RingTypes
    <3> DEFINE char == usartBuffer[usartTail] + IF usartNine THEN 256 * usartTxb8' ELSE 0
    <3>3. char \in 0..511
      BY <3>2
    <3>4. Usart!Load(char)
      BY <1>1, <2>2 DEF Usart!UdreInterrupt
    <3> HIDE DEF char
    <3>0. Usart!Clearing \in BOOLEAN
      BY DEF Usart!Clearing
    <3>5. /\ usartUdr' \in {Usart!Empty} \cup 0..511
          /\ usartShift' \in {Usart!Empty} \cup 0..511 /\ usartYoung' \in BOOLEAN
      <4>1. CASE usartShift = Usart!Empty
        BY <4>1, <3>0, <3>3, <3>4 DEF Usart!Load
      <4>2. CASE usartShift # Usart!Empty
        BY <4>2, <3>3, <3>4 DEF Usart!Load, Usart!RegisterTypes, Usart!FlagTypes
      <4> QED BY <4>1, <4>2
    <3>6. Usart!RegisterTypes'
      BY <3>2, <3>5 DEF Usart!RegisterTypes
    <3>7. Usart!FlagTypes'
      BY <1>1, <2>2, <3>5 DEF Usart!FlagTypes, Usart!UdreInterrupt
    <3>8. Usart!RingTypes'
      BY <1>1, <2>2, <1>0 DEF Usart!RingTypes, Usart!UdreInterrupt
    <3>9. Usart!SketchTypes' /\ Usart!HistoryTypes'
      BY <1>1 DEF Usart!SketchTypes, Usart!HistoryTypes, Usart!UdreInterrupt, Usart!history
    <3> QED BY <3>6, <3>7, <3>8, <3>9
  <2> QED BY <2>1, <2>2
<1>2. ASSUME Usart!FrameEnds PROVE Usart!TypeOK'
  <2>1. usartShift \in 0..511
    BY <1>2 DEF Usart!FrameEnds, Usart!RegisterTypes
  <2>2. Usart!HistoryTypes'
    BY <1>2, <2>1 DEF Usart!FrameEnds, Usart!HistoryTypes
  <2>3. Usart!RegisterTypes' /\ Usart!FlagTypes'
    BY <1>2 DEF Usart!FrameEnds, Usart!RegisterTypes, Usart!FlagTypes
  <2>4. Usart!RingTypes' /\ Usart!SketchTypes'
    BY <1>2 DEF Usart!FrameEnds, Usart!RingTypes, Usart!SketchTypes, Usart!ring
  <2> QED BY <2>2, <2>3, <2>4
<1>3. ASSUME Usart!begin PROVE Usart!TypeOK'
  <2>1. Usart!RingTypes' /\ Usart!HistoryTypes' /\ Usart!RegisterTypes'
    BY <1>3 DEF Usart!begin, Usart!RingTypes, Usart!HistoryTypes, Usart!RegisterTypes,
       Usart!ring, Usart!history
  <2>2. Usart!FlagTypes' /\ Usart!SketchTypes'
    BY <1>3 DEF Usart!begin, Usart!FlagTypes, Usart!SketchTypes
  <2> QED BY <2>1, <2>2
<1>4. ASSUME Usart!write PROVE Usart!TypeOK'
  <2>1. PICK char \in Char : usartArgument' = char /\ usartWritten' = Append(usartWritten,
           IF usartNine THEN char ELSE char % 256)
    BY <1>4 DEF Usart!write
  <2>2. char \in 0..511
    BY DEF Usart!UsartAssumption
  <2>3. (IF usartNine THEN char ELSE char % 256) \in 0..511
    BY <2>2, NinthBit
  <2>4. Usart!HistoryTypes'
    BY <1>4, <2>1, <2>3 DEF Usart!HistoryTypes, Usart!write
  <2>5. Usart!SketchTypes'
    BY <1>4, <2>1, <2>2 DEF Usart!SketchTypes, Usart!write
  <2>6. Usart!RingTypes' /\ Usart!FlagTypes' /\ Usart!RegisterTypes'
    BY <1>4 DEF Usart!write, Usart!RingTypes, Usart!FlagTypes, Usart!RegisterTypes,
       Usart!ring, Usart!usart
  <2> QED BY <2>4, <2>5, <2>6
<1>5. ASSUME Usart!WriteStores PROVE Usart!TypeOK'
  <2>1. usartArgument % 256 \in 0..255 /\ usartArgument \div 256 \in {0, 1}
    BY NinthBit DEF Usart!SketchTypes
  <2>2. Usart!RingTypes'
    BY <1>5, <2>1 DEF Usart!WriteStores, Usart!RingTypes
  <2>3. Usart!FlagTypes' /\ Usart!RegisterTypes' /\ Usart!SketchTypes' /\ Usart!HistoryTypes'
    BY <1>5 DEF Usart!WriteStores, Usart!FlagTypes, Usart!RegisterTypes, Usart!SketchTypes,
       Usart!HistoryTypes, Usart!usart, Usart!history
  <2> QED BY <2>2, <2>3
<1>6. ASSUME Usart!WriteMovesHead PROVE Usart!TypeOK'
  <2>1. Usart!RingTypes'
    BY <1>6, <1>0 DEF Usart!WriteMovesHead, Usart!RingTypes
  <2>2. Usart!FlagTypes' /\ Usart!RegisterTypes' /\ Usart!SketchTypes' /\ Usart!HistoryTypes'
    BY <1>6 DEF Usart!WriteMovesHead, Usart!FlagTypes, Usart!RegisterTypes,
       Usart!SketchTypes, Usart!HistoryTypes, Usart!usart, Usart!history
  <2> QED BY <2>1, <2>2
<1>7. ASSUME Usart!WriteEnables \/ Usart!WriteMarks \/ Usart!WriteClears \/ Usart!FlushReturns \/ Usart!GoesOn \/ Usart!end PROVE Usart!TypeOK'
  <2>1. UNCHANGED <<Usart!ring, usartNine, Usart!history, usartUdr, usartShift, usartTxb8>>
    BY <1>7 DEF Usart!WriteEnables, Usart!WriteMarks, Usart!WriteClears, Usart!FlushReturns,
       Usart!GoesOn, Usart!end, Usart!usart
  <2>2. Usart!RingTypes' /\ Usart!HistoryTypes' /\ Usart!RegisterTypes'
    BY <2>1 DEF Usart!RingTypes, Usart!HistoryTypes, Usart!RegisterTypes, Usart!ring,
       Usart!history
  <2>3. Usart!SketchTypes'
    BY <1>7 DEF Usart!WriteEnables, Usart!WriteMarks, Usart!WriteClears, Usart!FlushReturns,
       Usart!GoesOn, Usart!end, Usart!SketchTypes
  <2>4. usartUdrie' \in BOOLEAN /\ usartTxen' \in BOOLEAN /\ usartTxc' \in BOOLEAN
    BY <1>7 DEF Usart!WriteEnables, Usart!WriteMarks, Usart!WriteClears, Usart!FlushReturns,
       Usart!GoesOn, Usart!end, Usart!FlagTypes, Usart!usart
  <2>5. usartYoung' \in BOOLEAN /\ usartMarked' \in BOOLEAN
    BY <1>7 DEF Usart!WriteEnables, Usart!WriteMarks, Usart!WriteClears, Usart!FlushReturns,
       Usart!GoesOn, Usart!end, Usart!FlagTypes, Usart!usart
  <2>6. Usart!FlagTypes'
    BY <2>1, <2>4, <2>5 DEF Usart!FlagTypes
  <2> QED BY <2>2, <2>3, <2>6
<1>8. ASSUME UNCHANGED Usart!vars PROVE Usart!TypeOK'
  BY <1>8 DEF Usart!vars, Usart!usart, Usart!history, Usart!ring, Usart!RingTypes,
     Usart!FlagTypes, Usart!RegisterTypes, Usart!SketchTypes, Usart!HistoryTypes
<1> QED
  BY <1>1, <1>2, <1>3, <1>4, <1>5, <1>6, <1>7, <1>8 DEF Usart!Next, Usart!Writing

-----------------------------------------------------------------------------
(***************************************************************************)
(* The interrupt.                                                          *)
(***************************************************************************)
\* What the invariant says of the counts.
LEMMA Between ==
  ASSUME Usart!UsartAssumption, Usart!SenderInv
  PROVE  /\ Len(usartWritten) \in Nat /\ Len(usartLine) \in Nat
         /\ Usart!Stored \in Nat /\ Usart!Loaded \in Nat
         /\ Usart!Loaded <= Usart!Stored /\ Usart!Stored < Usart!Loaded + SERIAL_TX_BUFFER_SIZE
         /\ Usart!Stored <= Len(usartWritten)
         /\ SERIAL_TX_BUFFER_SIZE \in Nat \ {0}
<1>1. /\ Usart!HistoryTypes /\ (usartSketch \in {"full", "head"} => Len(usartWritten) > 0)
      /\ Usart!Loaded <= Usart!Stored /\ Usart!Stored < Usart!Loaded + SERIAL_TX_BUFFER_SIZE
  BY DEF Usart!SenderInv, Usart!TypeOK, Usart!RingHolds
<1>2. /\ Len(usartWritten) \in Nat /\ Len(usartLine) \in Nat
      /\ Usart!Stored \in Nat /\ Usart!Loaded \in Nat
  BY <1>1, Counts
<1>3. Usart!Stored <= Len(usartWritten)
  BY <1>2 DEF Usart!Stored
<1> QED BY <1>1, <1>2, <1>3, Positions

\* The ring is empty when the indices meet.
LEMMA EmptyRing ==
  ASSUME Usart!UsartAssumption, Usart!SenderInv
  PROVE  usartHead = usartTail <=> Usart!Loaded = Usart!Stored
<1>1. /\ usartHead = Usart!Stored % SERIAL_TX_BUFFER_SIZE
      /\ usartTail = Usart!Loaded % SERIAL_TX_BUFFER_SIZE
  BY DEF Usart!SenderInv, Usart!RingHolds
<1>2. Usart!Stored % SERIAL_TX_BUFFER_SIZE = Usart!Loaded % SERIAL_TX_BUFFER_SIZE => Usart!Loaded = Usart!Stored
  BY Between, ModInj
<1> QED BY <1>1, <1>2

\* The count of what has left the ring, in each state of the registers.
LEMMA Registers ==
  ASSUME Usart!UsartAssumption, Usart!SenderInv
  PROVE  /\ usartShift = Usart!Empty => usartUdr = Usart!Empty /\ Usart!Loaded = Len(usartLine)
         /\ usartShift # Usart!Empty /\ usartUdr = Usart!Empty => Usart!Loaded = Len(usartLine) + 1
         /\ usartUdr # Usart!Empty => usartShift # Usart!Empty /\ Usart!Loaded = Len(usartLine) + 2
<1>1. usartUdr # Usart!Empty => usartShift # Usart!Empty
  BY DEF Usart!SenderInv, Usart!LineHolds
<1>2. Usart!Loaded = Len(usartLine) + (IF usartShift = Usart!Empty THEN 0 ELSE 1) + (IF usartUdr = Usart!Empty THEN 0 ELSE 1)
  BY DEF Usart!Loaded
<1> DEFINE l == Len(usartLine)
<1>3. l \in Nat /\ Usart!Loaded = l + (IF usartShift = Usart!Empty THEN 0 ELSE 1) + (IF usartUdr = Usart!Empty THEN 0 ELSE 1)
  BY <1>2, Between
<1> HIDE DEF l
<1>4. CASE usartShift = Usart!Empty
  BY <1>1, <1>3, <1>4 DEF l
<1>5. CASE usartShift # Usart!Empty /\ usartUdr = Usart!Empty
  BY <1>3, <1>5 DEF l
<1>6. CASE usartShift # Usart!Empty /\ usartUdr # Usart!Empty
  BY <1>3, <1>6 DEF l
<1> QED BY <1>4, <1>5, <1>6

\* The next character leaves the ring.
LEMMA InterruptLoads ==
  ASSUME Usart!UsartAssumption, Usart!SenderInv, Usart!UdreInterrupt, usartHead # usartTail
  PROVE  Usart!RingHolds' /\ Usart!LineHolds' /\ Usart!FlagsTell'
<1> DEFINE N == SERIAL_TX_BUFFER_SIZE
           char == usartBuffer[usartTail] + IF usartNine THEN 256 * usartTxb8' ELSE 0
<1>1. /\ Usart!Pending /\ usartTail' = (usartTail + 1) % N /\ usartTxb8' = usartNinth[usartTail]
      /\ Usart!Load(char)
      /\ UNCHANGED <<usartUdrie, usartTxen, usartTxc, usartHead, usartBuffer, usartNinth>>
      /\ UNCHANGED <<usartMarked, usartNine, usartSketch, usartArgument, usartWritten,
                     usartLine>>
  BY DEF Usart!UdreInterrupt, Usart!history
<1>2. Usart!Loaded < Usart!Stored
  BY EmptyRing, Between
<1>3. char = Usart!CharAt(usartTail)
  BY <1>1 DEF Usart!CharAt
<1> HIDE DEF char, N
<1>4. usartTail = Usart!Loaded % N /\ usartHead = Usart!Stored % N
  BY DEF Usart!SenderInv, Usart!RingHolds, N
<1>5. char = usartWritten[Usart!Loaded + 1]
  <2>1. Usart!Loaded \in Usart!Loaded..(Usart!Stored - 1)
    BY <1>2, Between
  <2>2. \A k \in Usart!Loaded..(Usart!Stored - 1) : Usart!CharAt(k % N) = usartWritten[k + 1]
    BY DEF Usart!SenderInv, Usart!RingHolds, N
  <2> QED BY <1>3, <1>4, <2>1, <2>2
<1>6. char # Usart!Empty
  <2>1. usartTail \in Usart!Position
    BY DEF Usart!SenderInv, Usart!TypeOK, Usart!RingTypes
  <2>2. char \in 0..511
    BY <1>3, <2>1, CharType DEF Usart!SenderInv, Usart!TypeOK
  <2> QED BY <2>2, Positions
<1>7. usartUdr = Usart!Empty /\ usartUdrie /\ usartTxen
  BY <1>1 DEF Usart!Pending
<1>8. /\ Usart!Stored' = Usart!Stored /\ Len(usartLine)' = Len(usartLine)
      /\ Len(usartWritten)' = Len(usartWritten)
  BY <1>1 DEF Usart!Stored
<1>9. /\ usartShift = Usart!Empty => usartShift' = char /\ usartUdr' = Usart!Empty /\ usartYoung' = Usart!Clearing
      /\ usartShift # Usart!Empty => usartUdr' = char /\ usartShift' = usartShift /\ usartYoung' = usartYoung
  BY <1>1 DEF Usart!Load
<1>10. Usart!Loaded' = Usart!Loaded + 1
  <2>1. Usart!Loaded' = Len(usartLine)' + (IF usartShift' = Usart!Empty THEN 0 ELSE 1) + (IF usartUdr' = Usart!Empty THEN 0 ELSE 1)
    BY DEF Usart!Loaded
  <2>2. CASE usartShift = Usart!Empty
    BY <2>1, <2>2, <1>6, <1>8, <1>9, Between, Registers
  <2>3. CASE usartShift # Usart!Empty
    BY <2>1, <2>3, <1>6, <1>7, <1>8, <1>9, Between, Registers
  <2> QED BY <2>2, <2>3
<1>11. \A p : Usart!CharAt(p)' = Usart!CharAt(p)
  BY <1>1 DEF Usart!CharAt
<1>12. usartTail' = Usart!Loaded' % N
  BY <1>1, <1>4, <1>10, Between, ModSucc DEF N
<1>13. Usart!RingHolds'
  <2>1. Usart!Loaded' <= Usart!Stored' /\ Usart!Stored' < Usart!Loaded' + N
    BY <1>2, <1>8, <1>10, Between DEF N
  <2>2. \A k \in Usart!Loaded'..(Usart!Stored' - 1) : Usart!CharAt(k % N)' = usartWritten'[k + 1]
    <3>1. \A k \in (Usart!Loaded + 1)..(Usart!Stored - 1) : k \in Usart!Loaded..(Usart!Stored - 1)
      BY Between
    <3>2. \A k \in Usart!Loaded..(Usart!Stored - 1) : Usart!CharAt(k % N) = usartWritten[k + 1]
      BY DEF Usart!SenderInv, Usart!RingHolds, N
    <3>3. \A k : Usart!CharAt(k % N)' = Usart!CharAt(k % N)
      BY <1>1 DEF Usart!CharAt
    <3> QED BY <3>1, <3>2, <3>3, <1>1, <1>8, <1>10
  <2>3. usartSketch # "closed"
    BY <1>7 DEF Usart!SenderInv, Usart!FlagsTell
  <2>4. usartSketch = "full" => usartWritten'[Usart!Stored' + 1] = IF usartNine THEN usartArgument ELSE usartArgument % 256
    BY <1>1, <1>8 DEF Usart!SenderInv, Usart!RingHolds
  <2>5. usartSketch = "head" => Usart!CharAt(usartHead)' = usartWritten'[Usart!Stored' + 1]
    <3>1. Usart!CharAt(usartHead)' = Usart!CharAt(usartHead)
      BY <1>1 DEF Usart!CharAt
    <3> QED BY <3>1, <1>1, <1>8 DEF Usart!SenderInv, Usart!RingHolds
  <2>6. usartSketch = "head" => Usart!Stored' + 1 < Usart!Loaded' + N
    BY <1>8, <1>10, Between DEF Usart!SenderInv, Usart!RingHolds, N
  <2>7. (usartSketch \in {"full",
           "head"} => Len(usartWritten)' > 0) /\ usartHead' = Usart!Stored' % N
    BY <1>1, <1>4, <1>8 DEF Usart!SenderInv, Usart!RingHolds
  <2> QED BY <2>1, <2>2, <2>3, <2>4, <2>5, <2>6, <2>7, <1>1, <1>12 DEF Usart!RingHolds, N
<1>14. Usart!LineHolds'
  <2>1. /\ \A i \in 1..Len(usartLine) : usartLine[i] = usartWritten[i]
        /\ usartShift # Usart!Empty => usartShift = usartWritten[Len(usartLine) + 1]
    BY DEF Usart!SenderInv, Usart!LineHolds
  <2>2. CASE usartShift = Usart!Empty
    <3>1. usartShift' = usartWritten'[Len(usartLine') + 1]
      BY <2>2, <1>1, <1>5, <1>9, Registers
    <3> QED BY <3>1, <2>1, <2>2, <1>1, <1>9 DEF Usart!LineHolds
  <2>3. CASE usartShift # Usart!Empty
    <3>1. Usart!Loaded + 1 = Len(usartLine) + 2
      BY <2>3, <1>7, Registers, Between
    <3>2. usartUdr' = usartWritten'[Len(usartLine') + 2]
      BY <2>3, <3>1, <1>1, <1>5, <1>9
    <3> QED BY <3>2, <2>1, <2>3, <1>1, <1>9 DEF Usart!LineHolds
  <2> QED BY <2>2, <2>3
<1>15. Usart!FlagsTell'
  <2>1. Usart!Clearing' = Usart!Clearing
    BY <1>1 DEF Usart!Clearing
  <2>2. Usart!Clearing /\ usartShift' # Usart!Empty /\ Len(usartLine) + 1 = Len(usartWritten) => usartYoung'
    <3>1. CASE usartShift = Usart!Empty
      BY <3>1, <1>9
    <3>2. CASE usartShift # Usart!Empty
      BY <3>2, <1>9 DEF Usart!SenderInv, Usart!FlagsTell
    <3> QED BY <3>1, <3>2
  <2> QED BY <2>1, <2>2, <1>1, <1>7, <1>8 DEF Usart!SenderInv, Usart!FlagsTell
<1> QED BY <1>13, <1>14, <1>15

\* The ring, the line and the counts stay when nothing of them is touched.
LEMMA NothingMoves ==
  ASSUME Usart!UsartAssumption, Usart!SenderInv,
         UNCHANGED <<Usart!ring, usartNine, usartUdr, usartShift, Usart!history>>,
            Usart!Stored' = Usart!Stored
  PROVE  /\ Usart!LineHolds' /\ Usart!Loaded' = Usart!Loaded
         /\ Len(usartLine)' = Len(usartLine) /\ Len(usartWritten)' = Len(usartWritten)
         /\ usartSketch' \notin {"closed", "full", "head"} => Usart!RingHolds'
<1>1. UNCHANGED <<usartHead, usartTail, usartBuffer, usartNinth, usartNine, usartUdr,
                  usartShift, usartLine, usartWritten>>
  BY DEF Usart!ring, Usart!history
<1>2. Usart!LineHolds'
  BY <1>1 DEF Usart!SenderInv, Usart!LineHolds
<1>3. /\ Usart!Loaded' = Usart!Loaded /\ Len(usartLine)' = Len(usartLine)
      /\ Len(usartWritten)' = Len(usartWritten)
  BY <1>1 DEF Usart!Loaded
<1>4. ASSUME usartSketch' \notin {"closed", "full", "head"} PROVE Usart!RingHolds'
  <2>1. \A p : Usart!CharAt(p)' = Usart!CharAt(p)
    BY <1>1 DEF Usart!CharAt
  <2>2. \A k \in Usart!Loaded..(Usart!Stored - 1) : Usart!CharAt(k % SERIAL_TX_BUFFER_SIZE) = usartWritten[k + 1]
    BY DEF Usart!SenderInv, Usart!RingHolds
  <2>3. \A k : Usart!CharAt(k % SERIAL_TX_BUFFER_SIZE)' = Usart!CharAt(k % SERIAL_TX_BUFFER_SIZE)
    BY <1>1 DEF Usart!CharAt
  <2>4. \A k \in Usart!Loaded'..(Usart!Stored' - 1) : Usart!CharAt(k % SERIAL_TX_BUFFER_SIZE)' = usartWritten'[k + 1]
    BY <2>2, <2>3, <1>1, <1>3
  <2>5. /\ usartHead' = Usart!Stored' % SERIAL_TX_BUFFER_SIZE
        /\ usartTail' = Usart!Loaded' % SERIAL_TX_BUFFER_SIZE
    BY <1>1, <1>3 DEF Usart!SenderInv, Usart!RingHolds
  <2>6. Usart!Loaded' <= Usart!Stored' /\ Usart!Stored' < Usart!Loaded' + SERIAL_TX_BUFFER_SIZE
    BY <1>3, Between
  <2> QED BY <2>4, <2>5, <2>6, <1>4 DEF Usart!RingHolds
<1> QED BY <1>2, <1>3, <1>4

\* The ring is empty: the interrupt turns itself off.
LEMMA InterruptStops ==
  ASSUME Usart!UsartAssumption, Usart!SenderInv, Usart!UdreInterrupt, usartHead = usartTail
  PROVE  Usart!RingHolds' /\ Usart!LineHolds' /\ Usart!FlagsTell'
<1>1. /\ usartUdrie' = FALSE /\ UNCHANGED <<Usart!ring, usartNine, usartUdr, usartShift,
                                            Usart!history>>
      /\ UNCHANGED <<usartTxen, usartTxc, usartYoung, usartMarked, usartSketch,
                     usartArgument, usartWritten, usartLine>>
  BY DEF Usart!UdreInterrupt, Usart!usart, Usart!history
<1>2. Usart!Stored' = Usart!Stored /\ Usart!Clearing' = Usart!Clearing
  BY <1>1 DEF Usart!Stored, Usart!Clearing
<1>3. /\ Usart!LineHolds' /\ Usart!Loaded' = Usart!Loaded
      /\ Len(usartLine)' = Len(usartLine) /\ Len(usartWritten)' = Len(usartWritten)
      /\ usartSketch' \notin {"closed", "full", "head"} => Usart!RingHolds'
  BY <1>1, <1>2, NothingMoves
<1>4. Usart!Loaded = Usart!Stored
  BY EmptyRing
<1>5. Usart!RingHolds'
  <2>1. \A p : Usart!CharAt(p)' = Usart!CharAt(p)
    BY <1>1 DEF Usart!CharAt, Usart!ring
  <2>2. \A k \in Usart!Loaded'..(Usart!Stored' - 1) : FALSE
    BY <1>2, <1>3, <1>4, Between
  <2>3. Usart!CharAt(usartHead)' = Usart!CharAt(usartHead)
    BY <1>1 DEF Usart!CharAt, Usart!ring
  <2> QED BY <1>1, <1>2, <1>3, <2>2, <2>3 DEF Usart!SenderInv, Usart!RingHolds, Usart!ring
<1>6. Usart!FlagsTell'
  BY <1>1, <1>2, <1>3, <1>4, Between DEF Usart!SenderInv, Usart!FlagsTell
<1> QED BY <1>3, <1>5, <1>6

-----------------------------------------------------------------------------
(***************************************************************************)
(* A frame ends.                                                           *)
(***************************************************************************)
LEMMA FrameMoves ==
  ASSUME Usart!UsartAssumption, Usart!SenderInv, Usart!FrameEnds
  PROVE  Usart!RingHolds' /\ Usart!LineHolds' /\ Usart!FlagsTell'
<1> DEFINE l == Len(usartLine)
           w == Len(usartWritten)
<1>1. /\ usartShift # Usart!Empty /\ (Usart!Clearing => ~usartYoung) /\ (Usart!Pending => usartSketch \in {"mark", "clear"})
      /\ usartLine' = Append(usartLine,
         usartShift) /\ usartShift' = usartUdr /\ usartUdr' = Usart!Empty
      /\ usartYoung' = (usartUdr # Usart!Empty /\ Usart!Clearing) /\ usartTxc' = (usartTxc \/ usartUdr = Usart!Empty)
      /\ UNCHANGED <<usartHead, usartTail, usartBuffer, usartNinth>>
      /\ UNCHANGED <<usartMarked, usartNine, usartUdrie, usartTxen, usartSketch,
                     usartArgument, usartWritten>>
  BY DEF Usart!FrameEnds, Usart!ring
<1>2. Len(usartLine)' = l + 1 /\ \A i \in 1..l : usartLine'[i] = usartLine[i]
  BY <1>1 DEF Usart!SenderInv, Usart!TypeOK, Usart!HistoryTypes
<1>3. usartLine'[l + 1] = usartShift
  BY <1>1 DEF Usart!SenderInv, Usart!TypeOK, Usart!HistoryTypes
<1>4. /\ l \in Nat /\ w \in Nat /\ Len(usartWritten)' = w /\ Usart!Stored' = Usart!Stored
      /\ Usart!Clearing' = Usart!Clearing
  BY <1>1, Between DEF Usart!Stored, Usart!Clearing
<1>5. Usart!Loaded = l + 1 + (IF usartUdr = Usart!Empty THEN 0 ELSE 1)
  BY <1>1, Registers, <1>4
<1>6. Usart!Loaded' = Usart!Loaded
  <2>1. Usart!Loaded' = Len(usartLine)' + (IF usartShift' = Usart!Empty THEN 0 ELSE 1) + (IF usartUdr' = Usart!Empty THEN 0 ELSE 1)
    BY DEF Usart!Loaded
  <2> HIDE DEF l, w
  <2>2. Usart!Loaded' = (l + 1) + (IF usartUdr = Usart!Empty THEN 0 ELSE 1) + 0
    BY <1>1, <1>2, <2>1
  <2> QED BY <1>4, <1>5, <2>2
<1>7. Usart!RingHolds'
  <2>1. \A k : Usart!CharAt(k % SERIAL_TX_BUFFER_SIZE)' = Usart!CharAt(k % SERIAL_TX_BUFFER_SIZE)
    BY <1>1 DEF Usart!CharAt
  <2>2. Usart!CharAt(usartHead)' = Usart!CharAt(usartHead)
    BY <1>1 DEF Usart!CharAt
  <2>3. \A k \in Usart!Loaded'..(Usart!Stored' - 1) : Usart!CharAt(k % SERIAL_TX_BUFFER_SIZE)' = usartWritten'[k + 1]
    BY <1>1, <1>4, <1>6, <2>1 DEF Usart!SenderInv, Usart!RingHolds
  <2>4. /\ usartHead' = Usart!Stored' % SERIAL_TX_BUFFER_SIZE
        /\ usartTail' = Usart!Loaded' % SERIAL_TX_BUFFER_SIZE
    BY <1>1, <1>4, <1>6 DEF Usart!SenderInv, Usart!RingHolds
  <2> HIDE DEF l, w
  <2> QED BY <2>2, <2>3, <2>4, <1>1, <1>4, <1>6 DEF Usart!SenderInv, Usart!RingHolds, w
<1>8. Usart!LineHolds'
  <2>1. /\ \A i \in 1..l : usartLine[i] = usartWritten[i]
        /\ usartShift = usartWritten[l + 1] /\ (usartUdr # Usart!Empty => usartUdr = usartWritten[l + 2])
    BY <1>1 DEF Usart!SenderInv, Usart!LineHolds
  <2> HIDE DEF l, w
  <2>2. \A i \in 1..(l + 1) : usartLine'[i] = usartWritten'[i]
    <3> TAKE i \in 1..(l + 1)
    <3>1. CASE i \in 1..l
      BY <3>1, <1>1, <1>2, <2>1
    <3>2. CASE i = l + 1
      BY <3>2, <1>1, <1>3, <2>1
    <3> QED BY <3>1, <3>2, <1>4
  <2>3. usartShift' # Usart!Empty => usartShift' = usartWritten'[(l + 1) + 1]
    <3>1. (l + 1) + 1 = l + 2
      BY <1>4
    <3> QED BY <3>1, <2>1, <1>1
  <2> QED BY <1>1, <1>2, <2>2, <2>3 DEF Usart!LineHolds
<1>9. Usart!FlagsTell'
  <2> HIDE DEF l, w
  <2>1. /\ Usart!Loaded <= Usart!Stored /\ Usart!Stored \in Nat /\ Usart!Loaded \in Nat
        /\ l < Usart!Loaded
    BY Between, <1>4, <1>5
  <2>2. ~Usart!Clearing => ~usartTxc /\ usartMarked /\ usartSketch # "flushed"
    <3>1. /\ usartTxc /\ ~Usart!Clearing => l = Usart!Stored
          /\ ~usartMarked /\ ~Usart!Clearing => l = Usart!Stored
          /\ usartSketch = "flushed" => l = Usart!Stored
      BY DEF Usart!SenderInv, Usart!FlagsTell, l
    <3>2. usartTxc \in BOOLEAN /\ usartMarked \in BOOLEAN
      BY DEF Usart!SenderInv, Usart!TypeOK, Usart!FlagTypes
    <3> QED BY <3>1, <3>2, <2>1, <1>4
  <2>3. /\ usartTxen <=> usartSketch # "closed"
        /\ Usart!Loaded < Usart!Stored /\ usartSketch # "enable" => usartUdrie
        /\ usartSketch = "closed" => Usart!Loaded = Usart!Stored
        /\ usartSketch = "clear" => usartMarked
    BY DEF Usart!SenderInv, Usart!FlagsTell, Usart!RingHolds
  <2>4. Usart!Clearing => l + 1 < w
    <3>1. Usart!Clearing => l < w /\ (l + 1 = w => usartYoung)
      BY <1>1 DEF Usart!SenderInv, Usart!FlagsTell, l, w
    <3> QED BY <3>1, <1>1, <1>4
  <2>5. ~Usart!Clearing /\ usartUdr = Usart!Empty => l + 1 = Usart!Stored
    <3> SUFFICES ASSUME ~Usart!Clearing, usartUdr = Usart!Empty PROVE l + 1 = Usart!Stored
      OBVIOUS
    <3>1. usartSketch \notin {"enable", "mark", "clear"}
      BY DEF Usart!Clearing
    <3>2. ~(usartUdrie /\ usartTxen)
      BY <3>1, <1>1 DEF Usart!Pending
    <3>3. ~(Usart!Loaded < Usart!Stored)
      BY <3>1, <3>2, <2>1, <2>3
    <3> QED BY <3>3, <2>1, <1>4, <1>5
  <2>6. ~Usart!Clearing /\ l + 1 = Usart!Stored => usartUdr = Usart!Empty
    BY <2>1, <1>4, <1>5
  <2>7. usartSketch = "flushed" => ~Usart!Clearing
    BY DEF Usart!Clearing
  <2> QED BY <1>1, <1>2, <1>4, <1>6, <2>2, <2>3, <2>4, <2>5, <2>6, <2>7 DEF Usart!FlagsTell, w
<1> QED BY <1>7, <1>8, <1>9

-----------------------------------------------------------------------------
(***************************************************************************)
(* The sketch.                                                             *)
(***************************************************************************)
LEMMA PortOpens ==
  ASSUME Usart!UsartAssumption, Usart!SenderInv, Usart!begin
  PROVE  Usart!RingHolds' /\ Usart!LineHolds' /\ Usart!FlagsTell'
<1>1. /\ usartSketch = "closed" /\ usartShift = Usart!Empty /\ usartTxen' = TRUE
      /\ usartSketch' = "open" /\ usartUdrie' = FALSE
      /\ UNCHANGED <<usartHead, usartTail, usartBuffer, usartNinth, usartUdr, usartShift,
                     usartLine, usartWritten>>
      /\ UNCHANGED <<usartMarked, usartTxc>>
  BY DEF Usart!begin, Usart!ring, Usart!history
<1>2. /\ Usart!Stored' = Usart!Stored /\ Usart!Loaded' = Usart!Loaded
      /\ Len(usartLine)' = Len(usartLine) /\ Len(usartWritten)' = Len(usartWritten)
  BY <1>1 DEF Usart!Stored, Usart!Loaded
<1>3. Usart!Loaded = Usart!Stored
  BY <1>1 DEF Usart!SenderInv, Usart!RingHolds
<1>4. \A k \in Usart!Loaded'..(Usart!Stored' - 1) : FALSE
  BY <1>2, <1>3, Between
<1>5. /\ usartHead' = Usart!Stored' % SERIAL_TX_BUFFER_SIZE
      /\ usartTail' = Usart!Loaded' % SERIAL_TX_BUFFER_SIZE
  BY <1>1, <1>2 DEF Usart!SenderInv, Usart!RingHolds
<1>6. Usart!RingHolds'
  BY <1>1, <1>2, <1>4, <1>5, Between DEF Usart!RingHolds
<1>7. Usart!LineHolds'
  BY <1>1 DEF Usart!SenderInv, Usart!LineHolds
<1>8. ~Usart!Clearing /\ ~Usart!Clearing'
  BY <1>1 DEF Usart!Clearing
<1>9. Usart!FlagsTell'
  BY <1>1, <1>2, <1>3, <1>8, Between DEF Usart!SenderInv, Usart!FlagsTell
<1> QED BY <1>6, <1>7, <1>9

\* write() adds a character to the history, the one it is about to store.
LEMMA WriteBegins ==
  ASSUME Usart!UsartAssumption, Usart!SenderInv, Usart!write
  PROVE  Usart!RingHolds' /\ Usart!LineHolds' /\ Usart!FlagsTell'
<1> DEFINE w == Len(usartWritten)
<1>1. PICK char \in Char : usartArgument' = char /\ usartWritten' = Append(usartWritten,
         IF usartNine THEN char ELSE char % 256)
  BY DEF Usart!write
<1>2. /\ usartSketch = "open" /\ usartSketch' = "full"
      /\ UNCHANGED <<usartHead, usartTail, usartBuffer, usartNinth, usartNine, usartUdr,
                     usartShift, usartLine>>
      /\ UNCHANGED <<usartMarked, usartTxc, usartTxen, usartUdrie, usartYoung>>
  BY DEF Usart!write, Usart!ring, Usart!usart
<1> DEFINE char9 == IF usartNine THEN char ELSE char % 256
<1>3. Len(usartWritten)' = w + 1 /\ (\A i \in 1..w : usartWritten'[i] = usartWritten[i]) /\ usartWritten'[w + 1] = char9
  <2>1. usartWritten \in Seq(0..511) /\ usartWritten' = Append(usartWritten, char9)
    BY <1>1 DEF Usart!SenderInv, Usart!TypeOK, Usart!HistoryTypes
  <2> HIDE DEF char9
  <2> QED BY <2>1
<1>4. w \in Nat /\ Usart!Stored = w /\ Usart!Stored' = w /\ Usart!Loaded' = Usart!Loaded
  <2>1. Usart!Stored = w /\ w \in Nat
    BY <1>2, Between DEF Usart!Stored
  <2>2. Usart!Stored' = Len(usartWritten)' - 1
    BY <1>2 DEF Usart!Stored
  <2> QED BY <1>2, <1>3, <2>1, <2>2 DEF Usart!Loaded
<1> HIDE DEF w, char9
<1>5. Usart!RingHolds'
  <2>1. \A k : Usart!CharAt(k % SERIAL_TX_BUFFER_SIZE)' = Usart!CharAt(k % SERIAL_TX_BUFFER_SIZE)
    BY <1>2 DEF Usart!CharAt
  <2>2. \A k \in Usart!Loaded'..(Usart!Stored' - 1) : Usart!CharAt(k % SERIAL_TX_BUFFER_SIZE)' = usartWritten'[k + 1]
    <3>1. \A k \in Usart!Loaded..(Usart!Stored - 1) : Usart!CharAt(k % SERIAL_TX_BUFFER_SIZE) = usartWritten[k + 1]
      BY DEF Usart!SenderInv, Usart!RingHolds
    <3>2. \A k \in Usart!Loaded..(Usart!Stored - 1) : k + 1 \in 1..w
      BY <1>4, Between
    <3> QED BY <2>1, <3>1, <3>2, <1>3, <1>4
  <2>3. /\ usartHead' = Usart!Stored' % SERIAL_TX_BUFFER_SIZE
        /\ usartTail' = Usart!Loaded' % SERIAL_TX_BUFFER_SIZE
    BY <1>2, <1>4 DEF Usart!SenderInv, Usart!RingHolds
  <2>4. /\ Usart!Loaded' <= Usart!Stored'
        /\ Usart!Stored' < Usart!Loaded' + SERIAL_TX_BUFFER_SIZE /\ Len(usartWritten)' > 0
    BY <1>3, <1>4, Between
  <2>5. usartWritten'[Usart!Stored' + 1] = (IF usartNine THEN usartArgument ELSE usartArgument % 256)'
    BY <1>1, <1>2, <1>3, <1>4 DEF char9
  <2> QED BY <1>2, <2>2, <2>3, <2>4, <2>5 DEF Usart!RingHolds
<1>6. Usart!LineHolds'
  <2>1. /\ \A i \in 1..Len(usartLine) : usartLine[i] = usartWritten[i] /\ i \in 1..w
        /\ usartShift # Usart!Empty => usartShift = usartWritten[Len(usartLine) + 1] /\ Len(usartLine) + 1 \in 1..w
        /\ usartUdr # Usart!Empty => usartUdr = usartWritten[Len(usartLine) + 2] /\ Len(usartLine) + 2 \in 1..w
    <3>1. /\ usartShift # Usart!Empty => Len(usartLine) + 1 \in 1..w
          /\ usartUdr # Usart!Empty => Len(usartLine) + 2 \in 1..w
      BY <1>4, Between, Registers
    <3>2. Len(usartLine) <= w
      <4>1. Len(usartLine) <= Usart!Loaded
        BY Registers, Between
      <4> QED BY <4>1, <1>4, Between
    <3>3. \A i \in 1..Len(usartLine) : i \in 1..w
      BY <3>2, <1>4, Between
    <3> QED BY <3>1, <3>3 DEF Usart!SenderInv, Usart!LineHolds
  <2> QED BY <2>1, <1>2, <1>3 DEF Usart!SenderInv, Usart!LineHolds
<1>7. Usart!FlagsTell'
  <2>1. ~Usart!Clearing /\ ~Usart!Clearing'
    BY <1>2 DEF Usart!Clearing
  <2> QED BY <1>2, <1>4, <2>1 DEF Usart!SenderInv, Usart!FlagsTell
<1> QED BY <1>5, <1>6, <1>7

\* There is a place, and the characters that wait keep theirs.
LEMMA CharStored ==
  ASSUME Usart!UsartAssumption, Usart!SenderInv, Usart!WriteStores
  PROVE  Usart!RingHolds' /\ Usart!LineHolds' /\ Usart!FlagsTell'
<1> DEFINE N == SERIAL_TX_BUFFER_SIZE
<1>1. /\ usartSketch = "full" /\ usartSketch' = "head" /\ Usart!AfterHead # usartTail
      /\ usartNinth' = (IF usartNine THEN [usartNinth EXCEPT ![usartHead] = usartArgument \div 256] ELSE usartNinth)
      /\ usartBuffer' = [usartBuffer EXCEPT ![usartHead] = usartArgument % 256]
      /\ UNCHANGED <<usartHead, usartTail, usartNine, usartUdr, usartShift, usartLine,
                     usartWritten, usartArgument>>
      /\ UNCHANGED <<usartMarked, usartTxc, usartTxen, usartUdrie, usartYoung>>
  BY DEF Usart!WriteStores, Usart!usart, Usart!history
<1>2. /\ Usart!Stored' = Usart!Stored /\ Usart!Loaded' = Usart!Loaded
      /\ Len(usartLine)' = Len(usartLine) /\ Len(usartWritten)' = Len(usartWritten)
  BY <1>1 DEF Usart!Stored, Usart!Loaded
<1>3. usartHead = Usart!Stored % N /\ usartTail = Usart!Loaded % N
  BY DEF Usart!SenderInv, Usart!RingHolds
<1> HIDE DEF N
<1>4. /\ N \in Nat \ {0} /\ Usart!Loaded \in Nat /\ Usart!Stored \in Nat
      /\ Usart!Loaded <= Usart!Stored /\ Usart!Stored < Usart!Loaded + N
  BY Between DEF N
<1>5. Usart!Stored + 1 < Usart!Loaded + N
  <2> SUFFICES ASSUME Usart!Stored + 1 = Usart!Loaded + N PROVE FALSE
    BY <1>4
  <2>1. Usart!AfterHead = (Usart!Stored + 1) % N
    BY <1>3, <1>4, ModSucc DEF Usart!AfterHead, N
  <2>2. (Usart!Loaded + N) % N = Usart!Loaded % N
    BY <1>4, ModRound
  <2> QED BY <2>1, <2>2, <1>1, <1>3
<1>6. /\ usartHead \in Usart!Position /\ usartBuffer \in [Usart!Position -> 0..255]
      /\ usartNinth \in [Usart!Position -> {0, 1}]
      /\ usartArgument \in 0..511
  BY DEF Usart!SenderInv, Usart!TypeOK, Usart!RingTypes, Usart!SketchTypes
<1>7. /\ usartBuffer'[usartHead] = usartArgument % 256 /\ (usartNine => usartNinth'[usartHead] = usartArgument \div 256)
      /\ \A p \in Usart!Position \ {usartHead} : usartBuffer'[p] = usartBuffer[p] /\ usartNinth'[p] = usartNinth[p]
  BY <1>1, <1>6
<1>8. \A k \in Usart!Loaded..(Usart!Stored - 1) : Usart!CharAt(k % N)' = usartWritten'[k + 1]
  <2> TAKE k \in Usart!Loaded..(Usart!Stored - 1)
  <2>1. k \in Nat /\ k < Usart!Stored /\ k <= Usart!Stored /\ Usart!Stored < k + N
    <3>1. k \in Usart!Loaded..(Usart!Stored - 1)
      BY <1>2
    <3> QED BY <3>1, <1>4
  <2>2. k % N \in Usart!Position
    BY <2>1, Positions DEF N
  <2>3. k % N # usartHead
    <3>1. (k % N = Usart!Stored % N) => k = Usart!Stored
      BY <2>1, <1>4, ModInj, Zenon
    <3> QED BY <3>1, <2>1, <1>3, <1>4
  <2>4. Usart!CharAt(k % N) = usartWritten[k + 1]
    BY DEF Usart!SenderInv, Usart!RingHolds, N
  <2>5. usartBuffer'[k % N] = usartBuffer[k % N] /\ usartNinth'[k % N] = usartNinth[k % N]
    BY <2>2, <2>3, <1>7
  <2> QED BY <2>4, <2>5, <1>1 DEF Usart!CharAt, N
<1>9. Usart!CharAt(usartHead)' = usartWritten'[Usart!Stored + 1]
  <2>1. usartWritten[Usart!Stored + 1] = IF usartNine THEN usartArgument ELSE usartArgument % 256
    BY <1>1 DEF Usart!SenderInv, Usart!RingHolds
  <2>2. /\ (usartArgument % 256) \in 0..255
        /\ (usartArgument % 256) + 256 * (usartArgument \div 256) = usartArgument
    BY <1>6, NinthBit
  <2>3. Usart!CharAt(usartHead)' = usartBuffer'[usartHead] + IF usartNine THEN 256 * usartNinth'[usartHead] ELSE 0
    BY <1>1 DEF Usart!CharAt
  <2> QED BY <2>1, <2>2, <2>3, <1>1, <1>7
<1>10. Usart!RingHolds'
  BY <1>1, <1>2, <1>3, <1>4, <1>5, <1>8, <1>9 DEF Usart!SenderInv, Usart!RingHolds, N
<1>11. Usart!LineHolds'
  BY <1>1 DEF Usart!SenderInv, Usart!LineHolds
<1>12. Usart!FlagsTell'
  <2>1. ~Usart!Clearing /\ ~Usart!Clearing'
    BY <1>1 DEF Usart!Clearing
  <2> QED BY <1>1, <1>2, <2>1 DEF Usart!SenderInv, Usart!FlagsTell
<1> QED BY <1>10, <1>11, <1>12

\* The character is in the ring, and its frame has not begun.
LEMMA HeadMoves ==
  ASSUME Usart!UsartAssumption, Usart!SenderInv, Usart!WriteMovesHead
  PROVE  Usart!RingHolds' /\ Usart!LineHolds' /\ Usart!FlagsTell'
<1> DEFINE N == SERIAL_TX_BUFFER_SIZE
<1>1. /\ usartSketch = "head" /\ usartSketch' = "enable" /\ usartHead' = Usart!AfterHead
      /\ UNCHANGED <<usartTail, usartBuffer, usartNinth, usartNine, usartUdr, usartShift,
                     usartLine, usartWritten, usartArgument>>
      /\ UNCHANGED <<usartMarked, usartTxc, usartTxen, usartUdrie, usartYoung>>
  BY DEF Usart!WriteMovesHead, Usart!usart, Usart!history
<1>2. /\ Usart!Loaded' = Usart!Loaded /\ Len(usartLine)' = Len(usartLine)
      /\ Len(usartWritten)' = Len(usartWritten)
  BY <1>1 DEF Usart!Loaded
<1>3. /\ usartHead = Usart!Stored % N /\ usartTail = Usart!Loaded % N
      /\ Usart!CharAt(usartHead) = usartWritten[Usart!Stored + 1]
      /\ Usart!Stored + 1 < Usart!Loaded + N
      /\ \A k \in Usart!Loaded..(Usart!Stored - 1) : Usart!CharAt(k % N) = usartWritten[k + 1]
  BY <1>1 DEF Usart!SenderInv, Usart!RingHolds
<1> HIDE DEF N
<1>4. /\ N \in Nat \ {0} /\ Usart!Loaded \in Nat /\ Usart!Stored \in Nat
      /\ Usart!Loaded <= Usart!Stored /\ Len(usartWritten) \in Nat
  BY Between DEF N
<1>5. Usart!Stored' = Usart!Stored + 1 /\ Usart!Stored + 1 = Len(usartWritten)
  BY <1>1, <1>4 DEF Usart!Stored
<1>6. usartHead' = Usart!Stored' % N
  BY <1>1, <1>3, <1>4, <1>5, ModSucc DEF Usart!AfterHead, N
<1>7. \A k \in Usart!Loaded'..(Usart!Stored' - 1) : Usart!CharAt(k % N)' = usartWritten'[k + 1]
  <2> TAKE k \in Usart!Loaded'..(Usart!Stored' - 1)
  <2>1. Usart!CharAt(k % N)' = Usart!CharAt(k % N)
    BY <1>1 DEF Usart!CharAt, N
  <2>2. k \in Usart!Loaded..(Usart!Stored - 1) \/ k = Usart!Stored
    BY <1>2, <1>4, <1>5
  <2> QED BY <2>1, <2>2, <1>1, <1>3
<1>8. Usart!RingHolds'
  BY <1>1, <1>2, <1>3, <1>4, <1>5, <1>6, <1>7 DEF Usart!RingHolds, N
<1>9. Usart!LineHolds'
  BY <1>1 DEF Usart!SenderInv, Usart!LineHolds
<1>10. Usart!FlagsTell'
  <2>1. Usart!Clearing'
    BY <1>1 DEF Usart!Clearing
  <2>2. Len(usartLine) < Len(usartWritten) /\ (usartShift # Usart!Empty => Len(usartLine) + 1 # Len(usartWritten))
    BY <1>4, <1>5, Between, Registers
  <2>3. usartTxen <=> usartSketch # "closed"
    BY DEF Usart!SenderInv, Usart!FlagsTell
  <2> QED BY <1>1, <1>2, <2>1, <2>2, <2>3 DEF Usart!FlagsTell
<1> QED BY <1>8, <1>9, <1>10

\* The steps of write() that set flags, flush() and end().
LEMMA FlagsMove ==
  ASSUME Usart!UsartAssumption, Usart!SenderInv,
         Usart!WriteEnables \/ Usart!WriteMarks \/ Usart!WriteClears \/ Usart!FlushReturns \/ Usart!GoesOn \/ Usart!end
  PROVE  Usart!RingHolds' /\ Usart!LineHolds' /\ Usart!FlagsTell'
<1>1. UNCHANGED <<Usart!ring, usartNine, usartUdr, usartShift, Usart!history>>
  BY DEF Usart!WriteEnables, Usart!WriteMarks, Usart!WriteClears, Usart!FlushReturns,
     Usart!GoesOn, Usart!end, Usart!usart
<1>2. usartSketch \notin {"full", "head"} /\ usartSketch' \notin {"full", "head"}
  BY DEF Usart!WriteEnables, Usart!WriteMarks, Usart!WriteClears, Usart!FlushReturns,
     Usart!GoesOn, Usart!end
<1>3. Usart!Stored' = Usart!Stored
  BY <1>1, <1>2 DEF Usart!Stored, Usart!history
<1>4. /\ Usart!LineHolds' /\ Usart!Loaded' = Usart!Loaded
      /\ Len(usartLine)' = Len(usartLine) /\ Len(usartWritten)' = Len(usartWritten)
      /\ usartSketch' \notin {"closed", "full", "head"} => Usart!RingHolds'
  BY <1>1, <1>3, NothingMoves
<1>5. Usart!Stored = Len(usartWritten) /\ Len(usartWritten) \in Nat /\ Len(usartLine) \in Nat
  BY <1>2, Between DEF Usart!Stored
<1>6. CASE Usart!WriteEnables
  <2>1. /\ usartSketch = "enable" /\ usartSketch' = "mark" /\ usartUdrie' = TRUE
        /\ UNCHANGED <<usartTxen, usartTxc, usartYoung, usartMarked, usartShift>>
    BY <1>6 DEF Usart!WriteEnables, Usart!usart
  <2>2. Usart!Clearing /\ Usart!Clearing'
    BY <2>1 DEF Usart!Clearing
  <2> QED BY <2>1, <2>2, <1>3, <1>4 DEF Usart!SenderInv, Usart!FlagsTell
<1>7. CASE Usart!WriteMarks
  <2>1. /\ usartSketch = "mark" /\ usartSketch' = "clear" /\ usartMarked' = TRUE
        /\ UNCHANGED <<usartTxen, usartTxc, usartYoung, usartUdrie, usartShift>>
    BY <1>7 DEF Usart!WriteMarks, Usart!usart
  <2>2. Usart!Clearing /\ Usart!Clearing'
    BY <2>1 DEF Usart!Clearing
  <2> QED BY <2>1, <2>2, <1>3, <1>4 DEF Usart!SenderInv, Usart!FlagsTell
<1>8. CASE Usart!WriteClears
  <2>1. /\ usartSketch = "clear" /\ usartSketch' = "open" /\ usartTxc' = FALSE
        /\ UNCHANGED <<usartTxen, usartMarked, usartUdrie, usartShift>>
    BY <1>8 DEF Usart!WriteClears
  <2>2. Usart!Clearing /\ ~Usart!Clearing'
    BY <2>1 DEF Usart!Clearing
  <2>3. Len(usartLine) < Len(usartWritten) /\ usartMarked
    BY <2>1, <2>2 DEF Usart!SenderInv, Usart!FlagsTell
  <2> QED BY <2>1, <2>2, <2>3, <1>3, <1>4, <1>5 DEF Usart!SenderInv, Usart!FlagsTell
<1>9. CASE Usart!FlushReturns
  <2>1. /\ usartSketch = "open" /\ usartSketch' = "flushed" /\ usartMarked' = FALSE /\ (~usartMarked \/ usartTxc)
        /\ UNCHANGED <<usartTxen, usartTxc, usartYoung, usartUdrie, usartShift>>
    BY <1>9 DEF Usart!FlushReturns, Usart!usart
  <2>2. ~Usart!Clearing /\ ~Usart!Clearing'
    BY <2>1 DEF Usart!Clearing
  <2>3. Len(usartLine) = Usart!Stored
    BY <2>1, <2>2 DEF Usart!SenderInv, Usart!FlagsTell
  <2> QED BY <2>1, <2>2, <2>3, <1>3, <1>4 DEF Usart!SenderInv, Usart!FlagsTell
<1>10. CASE Usart!GoesOn
  <2>1. /\ usartSketch = "flushed" /\ usartSketch' = "open"
        /\ UNCHANGED <<usartTxen, usartTxc, usartYoung, usartUdrie, usartShift, usartMarked>>
    BY <1>10 DEF Usart!GoesOn, Usart!usart
  <2>2. ~Usart!Clearing /\ ~Usart!Clearing'
    BY <2>1 DEF Usart!Clearing
  <2> QED BY <2>1, <2>2, <1>3, <1>4 DEF Usart!SenderInv, Usart!FlagsTell
<1>11. CASE Usart!end
  <2>1. /\ usartSketch = "open" /\ usartSketch' = "closed" /\ usartTxen' = FALSE
        /\ usartUdrie' = FALSE /\ usartHead = usartTail
        /\ UNCHANGED <<usartHead, usartTail, usartTxc, usartYoung, usartShift, usartMarked>>
    BY <1>11 DEF Usart!end, Usart!ring
  <2>2. ~Usart!Clearing /\ ~Usart!Clearing'
    BY <2>1 DEF Usart!Clearing
  <2>3. Usart!Loaded = Usart!Stored
    BY <2>1, EmptyRing
  <2>4. Usart!FlagsTell'
    BY <2>1, <2>2, <2>3, <1>3, <1>4, <1>5 DEF Usart!SenderInv, Usart!FlagsTell
  <2>5. \A k \in Usart!Loaded'..(Usart!Stored' - 1) : FALSE
    BY <2>3, <1>3, <1>4, <1>5
  <2>6. Usart!RingHolds'
    BY <2>1, <2>3, <2>5, <1>3, <1>4, Between DEF Usart!SenderInv, Usart!RingHolds
  <2> QED BY <2>4, <2>6, <1>4
<1> QED BY <1>6, <1>7, <1>8, <1>9, <1>10, <1>11

-----------------------------------------------------------------------------
(***************************************************************************)
(* The invariant.                                                          *)
(***************************************************************************)
LEMMA UsartBegins == Usart!UsartAssumption /\ Usart!Init => Usart!SenderInv
<1> SUFFICES ASSUME Usart!UsartAssumption, Usart!Init PROVE Usart!SenderInv
  OBVIOUS
<1>1. 0 \in Usart!Position /\ 0 % SERIAL_TX_BUFFER_SIZE = 0
  BY Positions DEF Usart!Position
<1>2. Usart!TypeOK
  BY <1>1 DEF Usart!Init, Usart!TypeOK, Usart!RingTypes, Usart!FlagTypes,
     Usart!RegisterTypes, Usart!SketchTypes, Usart!HistoryTypes
<1>3. Len(usartWritten) = 0 /\ Len(usartLine) = 0 /\ Usart!Stored = 0 /\ Usart!Loaded = 0
  BY DEF Usart!Init, Usart!Stored, Usart!Loaded
<1>4. Usart!RingHolds
  <2>1. \A k \in 0..(0 - 1) : FALSE
    OBVIOUS
  <2>2. usartHead = 0 /\ usartTail = 0 /\ usartSketch = "closed"
    BY DEF Usart!Init
  <2>3. 0 <= 0 /\ 0 < 0 + SERIAL_TX_BUFFER_SIZE
    BY Positions
  <2> QED BY <1>1, <1>3, <2>1, <2>2, <2>3 DEF Usart!RingHolds
<1>5. Usart!LineHolds
  BY <1>3 DEF Usart!Init, Usart!LineHolds
<1>6. Usart!FlagsTell
  BY <1>3 DEF Usart!Init, Usart!FlagsTell, Usart!Clearing
<1> QED BY <1>2, <1>4, <1>5, <1>6 DEF Usart!SenderInv

\* Every step keeps the invariant of port A.
LEMMA UsartKeeps ==
  Usart!UsartAssumption /\ Usart!SenderInv /\ [Usart!Next]_(Usart!vars) => Usart!SenderInv'
<1> SUFFICES ASSUME Usart!UsartAssumption, Usart!SenderInv,
       [Usart!Next]_(Usart!vars) PROVE Usart!SenderInv'
  OBVIOUS
<1>1. Usart!TypeOK'
  BY UsartTypesStep DEF Usart!SenderInv
<1>2. CASE UNCHANGED Usart!vars
  <2>1. UNCHANGED <<usartHead, usartTail, usartBuffer, usartNinth, usartNine, usartUdr,
                    usartShift, usartLine, usartWritten>>
    BY <1>2 DEF Usart!vars, Usart!ring, Usart!usart, Usart!history
  <2>2. UNCHANGED <<usartSketch, usartArgument, usartTxen, usartTxc, usartYoung, usartUdrie,
                    usartMarked>>
    BY <1>2 DEF Usart!vars, Usart!usart
  <2>3. UNCHANGED <<Usart!Stored, Usart!Loaded, Usart!Clearing>>
    BY <2>1, <2>2 DEF Usart!Stored, Usart!Loaded, Usart!Clearing
  <2>4. \A k : Usart!CharAt(k % SERIAL_TX_BUFFER_SIZE)' = Usart!CharAt(k % SERIAL_TX_BUFFER_SIZE)
    BY <2>1 DEF Usart!CharAt
  <2>5. Usart!CharAt(usartHead)' = Usart!CharAt(usartHead)
    BY <2>1 DEF Usart!CharAt
  <2>6. Usart!RingHolds'
    BY <2>1, <2>2, <2>3, <2>4, <2>5 DEF Usart!SenderInv, Usart!RingHolds
  <2>7. Usart!LineHolds'
    BY <2>1 DEF Usart!SenderInv, Usart!LineHolds
  <2>8. Usart!FlagsTell'
    BY <2>1, <2>2, <2>3 DEF Usart!SenderInv, Usart!FlagsTell
  <2> QED BY <1>1, <2>6, <2>7, <2>8 DEF Usart!SenderInv
<1>3. CASE Usart!Next
  <2>1. Usart!RingHolds' /\ Usart!LineHolds' /\ Usart!FlagsTell'
    BY <1>3, InterruptLoads, InterruptStops, FrameMoves, PortOpens, WriteBegins, CharStored,
       HeadMoves, FlagsMove, Zenon DEF Usart!Next, Usart!Writing
  <2> QED BY <1>1, <2>1 DEF Usart!SenderInv
<1> QED BY <1>2, <1>3

\* The inductive invariant of the transmitter: ring, registers and line hold
\* what was written, each character in its place, and the flags tell whether
\* something is under way (HardwareSerial::write, flush and the interrupt).
THEOREM UsartInvariant == Usart!UsartAssumption /\ Usart!Spec => []Usart!SenderInv
<1> SUFFICES ASSUME Usart!UsartAssumption PROVE Usart!Spec => []Usart!SenderInv
  OBVIOUS
<1>1. Usart!Init => Usart!SenderInv
  BY UsartBegins
<1>2. Usart!SenderInv /\ [Usart!Next]_(Usart!vars) => Usart!SenderInv'
  BY UsartKeeps
<1> QED BY <1>1, <1>2, PTL DEF Usart!Spec

\* The invariant says that the line has carried a beginning of what was written.
LEMMA UsartInOrder ==
  ASSUME Usart!UsartAssumption, Usart!SenderInv
  PROVE  Usart!SentInOrder
<1>1. Len(usartLine) \in Nat /\ Len(usartWritten) \in Nat /\ Len(usartLine) <= Len(usartWritten)
  <2>1. Len(usartLine) <= Usart!Loaded
    BY Registers, Between
  <2> QED BY <2>1, Between
<1>2. usartLine \in Seq(0..511) /\ usartWritten \in Seq(0..511)
  BY DEF Usart!SenderInv, Usart!TypeOK, Usart!HistoryTypes
<1>3. \A i \in 1..Len(usartLine) : usartLine[i] = usartWritten[i]
  BY DEF Usart!SenderInv, Usart!LineHolds
<1>4. Usart!IsPrefix(usartLine, usartWritten)
  BY <1>1, <1>2, <1>3 DEF Usart!IsPrefix
<1>5. usartSketch = "flushed" => Len(usartLine) = Len(usartWritten)
  BY DEF Usart!SenderInv, Usart!FlagsTell, Usart!Stored
<1>6. Len(usartLine) = Len(usartWritten) => usartLine = usartWritten
  BY <1>2, <1>3
<1> QED BY <1>4, <1>5, <1>6 DEF Usart!SentInOrder

\* What is written to port A is on the line in order, each character once and
\* with its own ninth bit; when flush() returns, all of it
\* (HardwareSerial::write, flush).
THEOREM CharsSentInOrder == Usart!UsartAssumption /\ Usart!Spec => []Usart!SentInOrder
<1> SUFFICES ASSUME Usart!UsartAssumption PROVE Usart!Spec => []Usart!SentInOrder
  OBVIOUS
<1>1. Usart!SenderInv => Usart!SentInOrder
  BY UsartInOrder
<1> QED BY <1>1, UsartInvariant, PTL

\* The invariant says that a flush() which has to wait waits for a character.
LEMMA UsartCanReturn ==
  ASSUME Usart!UsartAssumption, Usart!SenderInv
  PROVE  Usart!FlushCanReturn
<1> SUFFICES ASSUME Usart!SenderInv, usartMarked, ~usartTxc,
                    usartSketch \notin {"full", "head", "enable", "mark", "clear"}
             PROVE  Len(usartLine) < Len(usartWritten)
  BY DEF Usart!FlushCanReturn
<1>1. Usart!Stored = Len(usartWritten) /\ ~Usart!Clearing
  BY DEF Usart!Stored, Usart!Clearing
<1>2. Len(usartLine) # Usart!Stored
  BY <1>1 DEF Usart!SenderInv, Usart!FlagsTell
<1>3. Len(usartLine) <= Usart!Loaded
  BY Registers, Between
<1> QED BY <1>1, <1>2, <1>3, Between

\* TXC comes while flush() waits for it: a wait without it is one for a frame
\* that has not ended (flush()).
THEOREM FlushIsAnswered == Usart!UsartAssumption /\ Usart!Spec => []Usart!FlushCanReturn
<1> SUFFICES ASSUME Usart!UsartAssumption PROVE Usart!Spec => []Usart!FlushCanReturn
  OBVIOUS
<1>1. Usart!SenderInv => Usart!FlushCanReturn
  BY UsartCanReturn
<1> QED BY <1>1, UsartInvariant, PTL
-----------------------------------------------------------------------------
(***************************************************************************)
(* Both ports.                                                             *)
(***************************************************************************)

\* At the other end of port B every byte arrives once and in order, unless one
\* was written into a stop bit; what flushOutput() has waited for is on the
\* line up to its stop bit (AltSoftSerial::writeByte, flushOutput and
\* ISR(COMPARE_A_INTERRUPT)).
THEOREM BytesSentInOrder == Soft!SenderAssumption /\ Soft!Spec => []Soft!SentInOrder
<1> SUFFICES ASSUME Soft!SenderAssumption PROVE Soft!Spec => []Soft!SentInOrder
  OBVIOUS
<1>1. Soft!Init => Soft!SenderInv
  BY SoftBegins
<1>2. Soft!SenderInv /\ [Soft!Next]_(Soft!vars) => Soft!SenderInv'
  BY SoftKeeps
<1>3. Soft!SenderInv => Soft!SentInOrder
  BY SoftInOrder
<1> QED BY <1>1, <1>2, <1>3, PTL DEF Soft!Spec

\* A step of the composed module is one of port B, or leaves it alone.
LEMMA SoftStep ==
  ASSUME [MCNext]_all
  PROVE  [Soft!Next]_(Soft!vars)
<1>1. CASE Soft!Next
  BY <1>1
<1>2. CASE UNCHANGED softVars
  BY <1>2 DEF softVars, Soft!vars, Soft!timer, Soft!tx, Soft!ring, Soft!receiver
<1> QED BY <1>1, <1>2 DEF MCNext, Receives, SoftSends, UsartSends, all

\* The same for port A.
LEMMA UsartStep ==
  ASSUME [MCNext]_all
  PROVE  [Usart!Next]_(Usart!vars)
<1>1. CASE Usart!Next
  BY <1>1
<1>2. CASE UNCHANGED usartVars
  BY <1>2 DEF usartVars, Usart!vars, Usart!ring, Usart!usart, Usart!history
<1> QED BY <1>1, <1>2 DEF MCNext, Receives, SoftSends, UsartSends, all

\* What the sketch writes leaves each port once, in order and with its ninth
\* bit, and is out when the wait for it is over, which it can be.
THEOREM PortsSendInOrder == MCSpec => []SentInOrder
<1>0. Soft!SenderAssumption /\ Usart!UsartAssumption
  BY SendersAssumption
<1>1. MCInit => Soft!SenderInv /\ Usart!SenderInv
  BY <1>0, SoftBegins, UsartBegins DEF MCInit
<1>2. Soft!SenderInv /\ Usart!SenderInv /\ [MCNext]_all => (Soft!SenderInv /\ Usart!SenderInv)'
  BY <1>0, SoftStep, UsartStep, SoftKeeps, UsartKeeps
<1>3. Soft!SenderInv /\ Usart!SenderInv => SentInOrder
  BY <1>0, SoftInOrder, UsartInOrder, UsartCanReturn DEF SentInOrder
<1> QED BY <1>1, <1>2, <1>3, PTL DEF MCSpec

-----------------------------------------------------------------------------
(***************************************************************************)
(* The receiver of port B.                                                 *)
(***************************************************************************)
USE SoftSerialAssumption

\* The constants as the steps below need them.
LEMMA FrameSizes ==
  /\ DataBits \in Nat \ {0} /\ MaxLatency \in 0..2
  /\ TimerMod \in Nat \ {0} /\ TimerMod > 2 * (4 * DataBits + 8 + MaxLatency)
  /\ FrameBits = DataBits + 2 /\ rx_stop_ticks = 4 * DataBits + 5
BY DEF FrameBits, rx_stop_ticks

-----------------------------------------------------------------------------
(***************************************************************************)
(* Time.                                                                   *)
(***************************************************************************)
\* A later time is a time.
LEMMA LaterIsTime ==
  ASSUME NEW t \in Int, NEW n \in Int
  PROVE  Later(t, n) \in Time
BY FrameSizes, IntMod DEF Later, Time

\* During a frame the timer shows the quarter on the line.
LEMMA AtPhase ==
  ASSUME TypeOK
  PROVE  At(phase) = time
<1>1. time \in 0..(TimerMod - 1) /\ phase \in Int /\ time - phase + phase = time
  BY FrameSizes DEF TypeOK, Time, Idle
<1>2. (TimerMod * 0 + time) % TimerMod = time /\ TimerMod * 0 + time = time
  BY <1>1, FrameSizes, IntModUnique
<1> QED BY <1>1, <1>2 DEF At

\* So many quarters later is that quarter of the frame.
LEMMA AtLater ==
  ASSUME TypeOK, NEW k \in Int, NEW n \in Int
  PROVE  At(k) \in Time /\ Later(At(k), n) = At(k + n)
<1> DEFINE a == time - phase + k
<1>1. a \in Int /\ a + n = time - phase + (k + n)
  BY FrameSizes DEF TypeOK, Time, Idle
<1>2. ((a % TimerMod) + n) % TimerMod = (a + n) % TimerMod
  <2> HIDE DEF a
  <2> QED BY <1>1, FrameSizes, ClockAdd
<1>3. a % TimerMod \in 0..(TimerMod - 1)
  <2> HIDE DEF a
  <2> QED BY <1>1, FrameSizes, IntMod
<1> QED BY <1>1, <1>2, <1>3 DEF At, Later, Time

\* Quarters less than a turn of the timer apart show different times.
LEMMA AtInj ==
  ASSUME TypeOK, NEW j \in Int, NEW k \in Int, At(j) = At(k),
         j - k < TimerMod, k - j < TimerMod
  PROVE  j = k
<1> DEFINE a == time - phase + j
           b == time - phase + k
<1>1. /\ a \in Int /\ b \in Int /\ a % TimerMod = b % TimerMod
      /\ a - b < TimerMod /\ b - a < TimerMod
  BY FrameSizes DEF TypeOK, Time, Idle, At
<1>2. a = b
  <2> HIDE DEF a, b
  <2> QED BY <1>1, FrameSizes, ClockInj
<1> QED BY <1>2, FrameSizes DEF TypeOK, Time, Idle

\* The distance of two quarters as the interrupt computes it.
LEMMA AtOffset ==
  ASSUME TypeOK, NEW j \in Int, NEW k \in Int,
         2 * (j - k) + 2 <= TimerMod, 2 * (k - j) < TimerMod
  PROVE  Offset(At(j), At(k)) = j - k
<1> DEFINE a == time - phase + j
           b == time - phase + k
           d == IF a >= b THEN a - b ELSE TimerMod + (a - b)
<1>1. /\ a \in Int /\ b \in Int /\ a - b = j - k
      /\ a - b < TimerMod /\ b - a < TimerMod
  BY FrameSizes DEF TypeOK, Time, Idle
<1>2. ((a % TimerMod) - (b % TimerMod)) % TimerMod = d
  <2> HIDE DEF a, b
  <2> QED BY <1>1, FrameSizes, ClockDiff
<1>3. IF d < TimerMod \div 2 THEN d = j - k ELSE d - TimerMod = j - k
  BY <1>1, FrameSizes
<1> QED BY <1>2, <1>3 DEF At, Offset

\* While a frame goes on, its quarters keep their times.
LEMMA AtKept ==
  ASSUME TypeOK, phase' = phase + 1, time' = Later(time, 1), NEW k \in Int
  PROVE  At(k)' = At(k)
<1> DEFINE a == time + 1
           n == k - phase - 1
<1>1. a \in Int /\ n \in Int /\ a + n = time - phase + k
  BY FrameSizes DEF TypeOK, Time, Idle
<1>2. (a % TimerMod) \in Int
  <2> HIDE DEF a
  <2> QED BY <1>1, FrameSizes, IntMod
<1>3. (a % TimerMod) - (phase + 1) + k = (a % TimerMod) + n
  <2>1. phase \in Int
    BY FrameSizes DEF TypeOK, Idle
  <2>2. \A x \in Int : x - (phase + 1) + k = x + n
    BY ONLY <2>1, k \in Int
  <2> QED BY <1>2, <2>2
<1>4. ((a % TimerMod) + n) % TimerMod = (a + n) % TimerMod
  <2> HIDE DEF a, n
  <2> QED BY <1>1, FrameSizes, ClockAdd
<1> QED BY <1>1, <1>3, <1>4 DEF At, Later

\* A frame that begins does so now.
LEMMA AtBegin ==
  ASSUME TypeOK, phase' = 0, time' = Later(time, 1)
  PROVE  At(0)' = Later(time, 1)
<1>1. time + 1 \in Int
  BY DEF TypeOK, Time
<1>2. Later(time, 1) \in 0..(TimerMod - 1)
  BY <1>1, FrameSizes, LaterIsTime DEF TypeOK, Time
<1>3. (TimerMod * 0 + Later(time, 1)) % TimerMod = Later(time, 1)
      /\ TimerMod * 0 + Later(time, 1) = Later(time, 1)
  BY <1>2, FrameSizes, IntModUnique
<1> QED BY <1>2, <1>3 DEF At

-----------------------------------------------------------------------------
(***************************************************************************)
(* Bytes, and the types.                                                   *)
(***************************************************************************)
\* Shifting bits in gives a byte: what was there moves down.
LEMMA ShiftedIn ==
  ASSUME NEW byte \in AnyByte, NEW bit \in {0, 1}, NEW n \in Nat
  PROVE  /\ ShiftIn(byte, bit, n) \in AnyByte
         /\ \A k \in 1..DataBits :
              ShiftIn(byte, bit, n)[k] = IF k + n <= DataBits THEN byte[k + n] ELSE bit
<1>1. \A k \in 1..DataBits : k + n <= DataBits => byte[k + n] \in {0, 1}
  BY FrameSizes DEF AnyByte
<1> QED BY <1>1 DEF ShiftIn, AnyByte

\* The interrupt of a data edge: how many bits have passed, and the byte then.
EdgeDue ==
  LET offset == Offset(timer.icr, rx.target)
  IN IF offset < 0 THEN 0 ELSE offset \div ticks_per_bit + 1
EdgeBits ==
  IF EdgeDue < DataBits + 1 - rx.state THEN EdgeDue ELSE DataBits + 1 - rx.state
EdgeByte == ShiftIn(rx.byte, 1 - rx.bit, EdgeBits)

EdgeEndsFrame ==
  /\ rx.state + EdgeBits = DataBits + 1
  /\ rx' = [rx EXCEPT !.byte = EdgeByte, !.bit = 0, !.state = 0]
  /\ timer' = [timer EXCEPT !.icf = FALSE, !.risingEdge = FALSE,
                            !.enabledB = FALSE, !.ocfB = FALSE]
  /\ Store(EdgeByte)
  /\ UNCHANGED <<rx_buffer_tail, delivered>>

EdgeGoesOn ==
  /\ rx.state + EdgeBits # DataBits + 1
  /\ rx' = [rx EXCEPT !.byte = EdgeByte, !.bit = 1 - rx.bit, !.state = @ + EdgeBits,
                      !.target = Later(@, EdgeBits * ticks_per_bit)]
  /\ timer' = [timer EXCEPT !.icf = FALSE, !.risingEdge = (1 - rx.bit = 1)]
  /\ UNCHANGED <<ring, history>>

\* A data edge either ends the frame or goes on with it.
LEMMA DataEdgeCases ==
  ASSUME DataEdge
  PROVE  EdgeEndsFrame \/ EdgeGoesOn
BY DEF DataEdge, EdgeEndsFrame, EdgeGoesOn, EdgeByte, EdgeBits, EdgeDue

\* What an edge shifts in, and how many bits, have their types.
LEMMA EdgeTypes ==
  ASSUME TypeOK, rx.state # 0
  PROVE  /\ EdgeBits \in 0..(DataBits + 1 - rx.state) /\ EdgeByte \in AnyByte
         /\ 1 - rx.bit \in {0, 1}
<1>1. timer.icr \in Int /\ rx.target \in Int /\ rx.state \in 1..DataBits
  <2>1. timer.icr \in Time /\ rx.target \in Time /\ rx.state \in 0..DataBits
    BY DEF TypeOK
  <2>2. DataBits \in Nat /\ TimerMod \in Nat
    BY FrameSizes
  <2>3. rx.state \in 1..DataBits
    BY ONLY <2>1, <2>2, rx.state # 0
  <2> QED BY ONLY <2>1, <2>2, <2>3 DEF Time
<1>2. Offset(timer.icr, rx.target) \in Int
  <2> DEFINE a == timer.icr - rx.target
  <2>1. a % TimerMod \in Int
    <3>1. a \in Int
      BY <1>1
    <3> HIDE DEF a
    <3> QED BY <3>1, FrameSizes, IntMod
  <2> QED BY <2>1, FrameSizes DEF Offset
<1>3. EdgeDue \in Nat
  BY <1>2 DEF EdgeDue, ticks_per_bit
<1>4. EdgeBits \in 0..(DataBits + 1 - rx.state)
  BY <1>1, <1>3, FrameSizes DEF EdgeBits
<1>5. rx.byte \in AnyByte /\ 1 - rx.bit \in {0, 1} /\ EdgeBits \in Nat
  BY <1>1, <1>4, FrameSizes DEF TypeOK
<1> QED BY <1>4, <1>5, ShiftedIn DEF EdgeByte

\* A position of the ring moves to a position.
LEMMA SlotSucc ==
  ASSUME NEW s \in Slot
  PROVE  (s + 1) % RX_BUFFER_SIZE \in Slot
<1>1. s + 1 \in Nat /\ RX_BUFFER_SIZE \in Nat \ {0}
  BY DEF Slot
<1> QED BY <1>1, ModRange DEF Slot

\* Storing a byte keeps the types.
LEMMA StoreTypes ==
  ASSUME TypeOK, NEW byte \in AnyByte, Store(byte)
  PROVE  /\ rx_buffer_head' \in Slot /\ rx_buffer' \in [Slot -> AnyByte]
         /\ assembled' \in Seq(AnyByte) /\ accepted' \in Seq(AnyByte) /\ lost' \in Nat
<1>1. AfterHead \in Slot
  BY SlotSucc DEF TypeOK, AfterHead
<1>2. /\ rx_buffer \in [Slot -> AnyByte] /\ assembled \in Seq(AnyByte)
      /\ accepted \in Seq(AnyByte) /\ lost \in Nat /\ rx_buffer_head \in Slot
  BY DEF TypeOK
<1>3. assembled' \in Seq(AnyByte)
  BY <1>2 DEF Store
<1>4. CASE AfterHead # rx_buffer_tail
  <2>1. rx_buffer' \in [Slot -> AnyByte]
    <3>1. rx_buffer' = [rx_buffer EXCEPT ![AfterHead] = byte]
      BY <1>4 DEF Store
    <3>2. rx_buffer \in [Slot -> AnyByte]
      BY <1>2
    <3> QED BY <3>1, <3>2
  <2>2. accepted' = Append(accepted, byte)
    BY <1>4 DEF Store
  <2>3. accepted' \in Seq(AnyByte)
    BY <1>2, <2>2
  <2> QED BY <1>1, <1>2, <1>3, <1>4, <2>1, <2>3 DEF Store
<1>5. CASE AfterHead = rx_buffer_tail
  BY <1>2, <1>3, <1>5 DEF Store
<1> QED BY <1>4, <1>5

\* What is sent are bytes.
LEMMA SentAreBytes ==
  ASSUME TypeOK
  PROVE  sent \in Seq(AnyByte) /\ Byte \subseteq AnyByte
<1>1. Byte \subseteq AnyByte
  BY DEF AnyByte
<1> QED BY <1>1 DEF TypeOK

RxType == [state : 0..DataBits, byte : AnyByte, bit : {0, 1}, target : Time]
TimerType == [risingEdge : BOOLEAN, icf : BOOLEAN, icr : Time,
              enabledB : BOOLEAN, ocfB : BOOLEAN, compareB : Time]

\* Every step keeps the types.
LEMMA TypeStep == TypeOK /\ [Next]_vars => TypeOK'
<1> SUFFICES ASSUME TypeOK, [Next]_vars PROVE TypeOK'
  OBVIOUS
<1>t. timer \in TimerType /\ rx \in RxType /\ time \in Int
  BY DEF TypeOK, TimerType, RxType, Time
<1>1. CASE Tick
  <2>1. phase' \in Idle..(4 * FrameBits - 1)
    <3>1. \/ phase' = 0 \/ phase' = Idle
          \/ phase \in 0..(4 * FrameBits - 2) /\ phase' = phase + 1
      BY <1>1 DEF Tick, LineMoves
    <3> QED BY <3>1, FrameSizes DEF Idle
  <2>s. sent' \in Seq(Byte)
    <3>1. CASE \E b \in Byte : sent' = Append(sent, b)
      BY <3>1 DEF TypeOK
    <3> QED BY <1>1, <3>1 DEF Tick, LineMoves, TypeOK
  <2>2. time' \in Time /\ Later(time, 1) \in Time
    BY <1>1, <1>t, LaterIsTime DEF Tick
  <2>3. timer' \in TimerType
    BY <1>1, <1>t, <2>2 DEF Tick, TimerType
  <2> QED BY <1>1, <2>1, <2>s, <2>2, <2>3 DEF Tick, TypeOK, TimerType, ring, reader, history
<1>2. CASE CaptureInterrupt
  <2>1. CASE StartBit
    <3>1. timer.icr \in Int
      BY <1>t DEF TimerType, Time
    <3>2. Later(timer.icr, rx_stop_ticks) \in Time
          /\ Later(timer.icr, ticks_per_bit + ticks_per_bit \div 2) \in Time
      BY <3>1, FrameSizes, LaterIsTime DEF ticks_per_bit
    <3> DEFINE stop == Later(timer.icr, rx_stop_ticks)
               middle == Later(timer.icr, ticks_per_bit + ticks_per_bit \div 2)
    <3>4. /\ timer' = [timer EXCEPT !.icf = FALSE, !.risingEdge = TRUE, !.ocfB = FALSE,
                                    !.enabledB = TRUE, !.compareB = stop]
          /\ rx' = [rx EXCEPT !.bit = 1, !.state = 1, !.target = middle]
      BY <2>1 DEF StartBit
    <3> HIDE DEF stop, middle
    <3>5. timer' \in TimerType
      BY <1>t, <3>2, <3>4 DEF stop, TimerType
    <3>7. middle \in Time /\ 1 \in 0..DataBits
      BY <3>2, FrameSizes DEF middle
    <3>6. rx' \in RxType
      BY <1>t, <3>4, <3>7 DEF RxType
    <3>3. timer' \in TimerType /\ rx' \in RxType
      BY <3>5, <3>6
    <3> QED BY <1>2, <2>1, <3>3 DEF CaptureInterrupt, StartBit, TypeOK, TimerType, RxType,
               line, ring, reader, history
  <2>2. CASE rx.state # 0 /\ EdgeEndsFrame
    <3>1. EdgeByte \in AnyByte
      BY <2>2, EdgeTypes
    <3>4. timer' \in TimerType
      BY <1>t, <2>2 DEF EdgeEndsFrame, TimerType
    <3>5. rx' = [rx EXCEPT !.byte = EdgeByte, !.bit = 0, !.state = 0] /\ 0 \in 0..DataBits
      BY <2>2, FrameSizes DEF EdgeEndsFrame
    <3>6. rx' \in RxType
      BY <1>t, <3>1, <3>5 DEF RxType
    <3>2. timer' \in TimerType /\ rx' \in RxType
      BY <3>4, <3>6
    <3>3. /\ rx_buffer_head' \in Slot /\ rx_buffer' \in [Slot -> AnyByte]
          /\ assembled' \in Seq(AnyByte) /\ accepted' \in Seq(AnyByte) /\ lost' \in Nat
      BY <2>2, <3>1, StoreTypes DEF EdgeEndsFrame
    <3> QED BY <1>2, <2>2, <3>2, <3>3
            DEF CaptureInterrupt, EdgeEndsFrame, TypeOK, TimerType, RxType, line, reader
  <2>3. CASE rx.state # 0 /\ EdgeGoesOn
    <3>1. /\ EdgeByte \in AnyByte /\ 1 - rx.bit \in {0, 1}
          /\ EdgeBits \in 0..(DataBits + 1 - rx.state)
      BY <2>3, EdgeTypes
    <3>2. rx.state + EdgeBits \in 0..DataBits
      <4>1. rx.state + EdgeBits # DataBits + 1
        BY <2>3, Zenon DEF EdgeGoesOn
      <4>2. rx.state \in 0..DataBits
        BY <1>t DEF RxType
      <4> HIDE DEF EdgeBits
      <4> QED BY <3>1, <4>1, <4>2, FrameSizes
    <3>3. Later(rx.target, EdgeBits * ticks_per_bit) \in Time
      <4>1. rx.target \in Int /\ EdgeBits * ticks_per_bit \in Int
        BY <1>t, <3>1, FrameSizes DEF RxType, Time, ticks_per_bit
      <4> QED BY <4>1, LaterIsTime
    <3>4. timer' \in TimerType /\ rx' \in RxType
      BY <1>t, <2>3, <3>1, <3>2, <3>3 DEF EdgeGoesOn, TimerType, RxType
    <3> QED BY <1>2, <2>3, <3>4 DEF CaptureInterrupt, EdgeGoesOn, TypeOK, TimerType, RxType,
               line, ring, reader, history
  <2>4. CASE StrayEdge
    <3>1. timer' \in TimerType /\ rx' \in RxType
      BY <1>t, <2>4 DEF StrayEdge, TimerType, RxType
    <3> QED BY <1>2, <2>4, <3>1 DEF CaptureInterrupt, StrayEdge, TypeOK, TimerType, RxType,
               line, ring, reader, history
  <2> QED BY <1>2, <2>1, <2>2, <2>3, <2>4, DataEdgeCases DEF CaptureInterrupt
<1>3. CASE CompareInterrupt
  <2> DEFINE n == DataBits + 1 - rx.state
             byte == ShiftIn(rx.byte, 1 - rx.bit, n)
  <2>1. n \in Nat /\ rx.byte \in AnyByte /\ 1 - rx.bit \in {0, 1}
    BY <1>t, FrameSizes DEF RxType
  <2>2. byte \in AnyByte
    BY <2>1, ShiftedIn
  <2>3. rx' = [rx EXCEPT !.byte = byte, !.bit = 0, !.state = 0] /\ Store(byte)
    BY <1>3 DEF CompareInterrupt
  <2> HIDE DEF byte
  <2>6. timer' \in TimerType
    BY <1>3, <1>t DEF CompareInterrupt, TimerType
  <2>7. 0 \in 0..DataBits
    BY FrameSizes
  <2>8. rx' \in RxType
    BY <1>t, <2>2, <2>3, <2>7 DEF RxType
  <2>4. timer' \in TimerType /\ rx' \in RxType
    BY <2>6, <2>8
  <2>5. /\ rx_buffer_head' \in Slot /\ rx_buffer' \in [Slot -> AnyByte]
        /\ assembled' \in Seq(AnyByte) /\ accepted' \in Seq(AnyByte) /\ lost' \in Nat
    BY <2>2, <2>3, StoreTypes
  <2> QED BY <1>3, <2>4, <2>5 DEF CompareInterrupt, TypeOK, TimerType, RxType, line, reader
<1>4. CASE Available \/ AvailableAnswers
  <2>1. 0 \in Slot
    BY DEF Slot
  <2> QED BY <1>4, <2>1 DEF Available, AvailableAnswers, TypeOK, line, ring, history
<1>5. CASE ReadByte
  <2>1. rx_buffer[(rx_buffer_tail + 1) % RX_BUFFER_SIZE] \in AnyByte
    BY SlotSucc DEF TypeOK
  <2> QED BY <1>5, <2>1 DEF ReadByte, TypeOK, line, ring, history
<1>6. CASE MoveTail
  <2>1. rx_buffer_tail' \in Slot
    BY <1>6, SlotSucc DEF MoveTail, TypeOK
  <2>2. delivered' \in Seq(AnyByte) /\ out' \in AnyByte
    BY <1>6 DEF MoveTail, TypeOK, Zero, AnyByte
  <2> QED BY <1>6, <2>1, <2>2 DEF MoveTail, TypeOK, line
<1>7. CASE UNCHANGED vars
  BY <1>7 DEF vars, TypeOK, line, ring, reader, history
<1> QED BY <1>1, <1>2, <1>3, <1>4, <1>5, <1>6, <1>7 DEF Next, ReadStep

-----------------------------------------------------------------------------
(***************************************************************************)
(* The receiver follows the line.                                          *)
(***************************************************************************)
Following ==
  /\ FollowsLine
  /\ Len(sent) - Len(assembled) \in {0, 1} /\ Len(sent) <= MaxFrames
  /\ assembled = SubSeq(sent, 1, Len(assembled))

\* What the types say of the fields and of the frame on the line.
LEMMA FieldTypes ==
  ASSUME TypeOK
  PROVE  /\ timer \in TimerType /\ rx \in RxType
         /\ time \in Time /\ phase \in (-1)..(4 * DataBits + 7) /\ sent \in Seq(AnyByte)
         /\ timer.icf \in BOOLEAN /\ timer.ocfB \in BOOLEAN /\ timer.enabledB \in BOOLEAN
         /\ timer.risingEdge \in BOOLEAN /\ timer.icr \in Time /\ timer.compareB \in Time
         /\ rx.state \in 0..DataBits /\ rx.byte \in AnyByte /\ rx.bit \in {0, 1}
         /\ rx.target \in Time
<1>1. timer \in TimerType /\ rx \in RxType
  BY DEF TypeOK, TimerType, RxType
<1>2. 4 * FrameBits - 1 = 4 * DataBits + 7
  BY FrameSizes
<1>3. time \in Time /\ phase \in (-1)..(4 * DataBits + 7)
  BY <1>2 DEF TypeOK, Idle
<1> QED BY <1>1, <1>3, SentAreBytes DEF TimerType, RxType

\* The byte on the line is one that is sent.
LEMMA CurrentType ==
  ASSUME TypeOK, Len(sent) > 0
  PROVE  Current \in AnyByte /\ sent # <<>>
BY SentAreBytes DEF Current

\* The bits of a byte on the line.
LEMMA BitType ==
  ASSUME NEW b \in AnyByte, NEW k \in 0..(DataBits + 1)
  PROVE  BitOf(b, k) \in {0, 1} /\ BitOf(b, 0) = 0 /\ BitOf(b, DataBits + 1) = 1
BY FrameSizes DEF BitOf, AnyByte

\* When the timer ticks: its flags, from the edge the line shows.
EdgeNow == Level # Level' /\ (Level' = 1 <=> timer.risingEdge)

\* What a tick does to the timer, flag by flag.
LEMMA TickTimer ==
  ASSUME TypeOK, Tick
  PROVE  /\ timer'.icf <=> timer.icf \/ EdgeNow
         /\ timer'.icr = IF EdgeNow THEN Later(time, 1) ELSE timer.icr
         /\ timer'.ocfB <=> timer.ocfB \/ (timer.enabledB /\ Later(time, 1) = timer.compareB)
         /\ timer'.risingEdge = timer.risingEdge /\ timer'.enabledB = timer.enabledB
         /\ timer'.compareB = timer.compareB
         /\ rx' = rx /\ assembled' = assembled /\ time' = Later(time, 1)
<1> DEFINE icf == timer.icf \/ EdgeNow
           icr == IF EdgeNow THEN Later(time, 1) ELSE timer.icr
           ocfB == timer.ocfB \/ (timer.enabledB /\ Later(time, 1) = timer.compareB)
<1>1. timer' = [timer EXCEPT !.icf = icf, !.icr = icr, !.ocfB = ocfB]
  BY DEF Tick, EdgeNow
<1>2. timer \in TimerType
  BY FieldTypes
<1>3. rx' = rx /\ assembled' = assembled /\ time' = Later(time, 1)
  BY DEF Tick, history
<1> HIDE DEF icf, icr, ocfB
<1>4. /\ timer'.icf = icf /\ timer'.icr = icr /\ timer'.ocfB = ocfB
      /\ timer'.risingEdge = timer.risingEdge /\ timer'.enabledB = timer.enabledB
      /\ timer'.compareB = timer.compareB
  BY <1>1, <1>2 DEF TimerType
<1> QED BY <1>3, <1>4 DEF icf, icr, ocfB

\* A flag of the timer that is not served in time stops the line.
LEMMA ServedInTime ==
  ASSUME TypeOK, InTime, NEW k \in Int,
         \/ timer.icf /\ timer.icr = At(k)
         \/ timer.ocfB /\ timer.compareB = At(k)
  PROVE  phase # k + MaxLatency
<1>1. time # Later(At(k), MaxLatency)
  BY DEF InTime
<1>2. MaxLatency \in Int
  BY FrameSizes
<1>3. Later(At(k), MaxLatency) = At(k + MaxLatency)
  BY <1>2, AtLater
<1> QED BY <1>1, <1>3, AtPhase

\* A frame begins: nothing of it is known but its edge.
LEMMA CaptureBegins ==
  ASSUME TypeOK, Following, Tick, NothingDue,
         NEW b \in Byte, Len(sent) < MaxFrames, sent' = Append(sent, b), phase' = 0
  PROVE  Following'
<1>1. sent \in Seq(AnyByte) /\ b \in AnyByte /\ assembled \in Seq(AnyByte)
  BY SentAreBytes DEF TypeOK
<1>2. sent' # <<>> /\ Len(sent') = Len(sent) + 1 /\ sent'[Len(sent')] = b
  BY <1>1
<1>3. Level' = 0
  <2>1. LevelOf(0, b) = 0
    BY DEF LevelOf, Idle, BitOf, ticks_per_bit
  <2> QED BY <1>2, <2>1 DEF Level
<1>4. Level = 1
  <2>1. CASE sent # <<>> /\ phase # Idle
    <3>2. phase \in (4 * (DataBits + 1))..(4 * DataBits + 7)
      BY <2>1, FrameSizes, FieldTypes DEF NothingDue
    <3>1. phase \div 4 = DataBits + 1
      BY <3>2, FrameSizes
    <3> QED BY <2>1, <3>1, FrameSizes DEF Level, LevelOf, BitOf, ticks_per_bit
  <2>2. CASE sent = <<>> \/ phase = Idle
    BY <2>2 DEF Level, LevelOf
  <2> QED BY <2>1, <2>2
<1>5. EdgeNow
  <2>1. timer.risingEdge = FALSE
    BY FieldTypes DEF NothingDue
  <2> QED BY <1>3, <1>4, <2>1 DEF EdgeNow
<1>6. /\ timer'.icf /\ timer'.icr = Later(time, 1)
      /\ ~timer'.ocfB /\ ~timer'.enabledB /\ ~timer'.risingEdge
      /\ rx' = rx /\ assembled' = assembled /\ time' = Later(time, 1)
  BY <1>5, TickTimer DEF NothingDue
<1>7. timer'.icr = At(0)'
  BY <1>6, AtBegin
<1>8. StartDue'
  BY <1>2, <1>6, <1>7, FrameSizes DEF NothingDue, StartDue
<1>9. assembled' = SubSeq(sent', 1, Len(assembled'))
  BY <1>1, <1>6 DEF Following, NothingDue
<1>10. Len(sent') - Len(assembled') \in {0, 1} /\ Len(sent') <= MaxFrames
  BY <1>1, <1>2, <1>6 DEF NothingDue
<1> QED BY <1>8, <1>9, <1>10 DEF Following, FollowsLine

\* Between two frames, and in the stop bit, the line stays high.
LEMMA LineRests ==
  ASSUME TypeOK, Following, Tick, NothingDue, sent' = sent,
         phase' = Idle \/ (phase' = phase + 1 /\ phase \in 0..(4 * FrameBits - 2))
  PROVE  Following'
<1>1. phase' = Idle \/ phase' \in (4 * (DataBits + 1))..(4 * DataBits + 7)
  BY FrameSizes, FieldTypes DEF NothingDue, Idle
<1>2. Level' = 1
  <2>1. CASE sent' # <<>> /\ phase' # Idle
    <3>1. phase' \div 4 = DataBits + 1
      BY <1>1, <2>1, FrameSizes
    <3> QED BY <2>1, <3>1, FrameSizes DEF Level, LevelOf, BitOf, ticks_per_bit
  <2>2. CASE sent' = <<>> \/ phase' = Idle
    BY <2>2 DEF Level, LevelOf
  <2> QED BY <2>1, <2>2
<1>3. ~EdgeNow
  BY <1>2 DEF EdgeNow, NothingDue
<1>4. /\ ~timer'.icf /\ ~timer'.ocfB /\ ~timer'.enabledB /\ ~timer'.risingEdge
      /\ rx' = rx /\ assembled' = assembled
  BY <1>3, TickTimer DEF NothingDue
<1>5. NothingDue'
  BY <1>1, <1>4 DEF NothingDue
<1> QED BY <1>4, <1>5 DEF Following, FollowsLine

\* The start bit goes on until its interrupt.
LEMMA StartWaits ==
  ASSUME TypeOK, Following, Tick, StartDue
  PROVE  Following'
<1>1. phase \in 0..2 /\ phase # MaxLatency /\ phase <= MaxLatency
  <2>1. phase \in 0..MaxLatency
    BY DEF StartDue
  <2>2. phase # MaxLatency
    BY ServedInTime DEF StartDue, Tick
  <2> QED BY <2>1, <2>2, FrameSizes
<1>2. phase' = phase + 1 /\ sent' = sent
  <2>1. phase # Idle /\ phase # 4 * FrameBits - 1
    BY <1>1, FrameSizes DEF Idle
  <2> QED BY <2>1 DEF Tick, LineMoves
<1>3. phase' \in 0..MaxLatency /\ phase \div 4 = 0 /\ phase' \div 4 = 0 /\ phase # Idle /\ phase' # Idle
  BY <1>1, <1>2, FrameSizes DEF Idle
<1>4. Level' = Level
  BY <1>2, <1>3 DEF Level, LevelOf, ticks_per_bit
<1>5. ~EdgeNow
  BY <1>4 DEF EdgeNow
<1>6. /\ timer'.icf /\ timer'.icr = timer.icr /\ time' = Later(time, 1)
      /\ ~timer'.ocfB /\ ~timer'.enabledB /\ ~timer'.risingEdge
      /\ rx' = rx /\ assembled' = assembled
  BY <1>5, TickTimer DEF StartDue
<1>7. At(0)' = At(0)
  BY <1>2, <1>6, AtKept
<1>8. StartDue'
  BY <1>2, <1>3, <1>6, <1>7 DEF StartDue
<1> QED BY <1>2, <1>6, <1>8 DEF Following, FollowsLine

\* A frame goes on, and the compare interrupt becomes due in its stop bit.
LEMMA CaptureGoesOn ==
  ASSUME TypeOK, Tick, BitsDue
  PROVE  /\ phase' = phase + 1 /\ sent' = sent
         /\ phase' \in 0..(rx_stop_ticks + MaxLatency) /\ phase' \in 1..(4 * DataBits + 7)
         /\ timer'.ocfB <=> phase' >= rx_stop_ticks
         /\ time' = Later(time, 1) /\ Later(time, 1) = At(phase + 1)
<1>1. phase \in 0..(4 * DataBits + 5 + MaxLatency)
  BY FrameSizes DEF BitsDue
<1>2. phase # 4 * DataBits + 5 + MaxLatency
  <2>1. CASE phase >= 4 * DataBits + 5
    <3>1. timer.ocfB /\ timer.compareB = At(4 * DataBits + 5)
      BY <2>1, FrameSizes DEF BitsDue
    <3> QED BY <3>1, FrameSizes, ServedInTime DEF Tick
  <2>2. CASE phase < 4 * DataBits + 5
    BY <2>2, <1>1, FrameSizes
  <2> QED BY <1>1, <2>1, <2>2, FrameSizes
<1>3. phase' = phase + 1 /\ sent' = sent
  <2>1. phase # Idle /\ phase # 4 * FrameBits - 1
    BY <1>1, <1>2, FrameSizes DEF Idle
  <2> QED BY <2>1 DEF Tick, LineMoves
<1>4. time' = Later(time, 1) /\ Later(time, 1) = At(phase + 1)
  BY AtPhase, AtLater, <1>1 DEF Tick
<1>5. timer'.ocfB <=> timer.ocfB \/ (timer.enabledB /\ Later(time, 1) = timer.compareB)
  BY TickTimer
<1>6. (Later(time, 1) = timer.compareB) <=> phase + 1 = 4 * DataBits + 5
  <2>1. timer.compareB = At(4 * DataBits + 5)
    BY FrameSizes DEF BitsDue
  <2>2. /\ phase + 1 - (4 * DataBits + 5) < TimerMod
        /\ (4 * DataBits + 5) - (phase + 1) < TimerMod
        /\ phase + 1 \in Int /\ 4 * DataBits + 5 \in Int
    BY <1>1, FrameSizes
  <2>3. At(phase + 1) = At(4 * DataBits + 5) => phase + 1 = 4 * DataBits + 5
    <3> DEFINE now == phase + 1
               stop == 4 * DataBits + 5
    <3>1. now \in Int /\ stop \in Int /\ now - stop < TimerMod /\ stop - now < TimerMod
      BY <1>1, <2>2, FrameSizes
    <3> HIDE DEF now, stop
    <3>2. At(now) = At(stop) => now = stop
      BY <3>1, AtInj
    <3> QED BY <3>2 DEF now, stop
  <2> QED BY <2>1, <2>3, <1>4
<1>7. (timer.ocfB <=> phase >= 4 * DataBits + 5) /\ timer.enabledB
  BY FrameSizes DEF BitsDue
<1>8. timer'.ocfB <=> phase + 1 >= 4 * DataBits + 5
  BY <1>1, <1>5, <1>6, <1>7, FrameSizes
<1> QED BY <1>1, <1>2, <1>3, <1>4, <1>8, FrameSizes

\* The part of BitsDue that a quarter of a bit changes only as the line goes on.
LEMMA BitsWait ==
  ASSUME TypeOK, Following, Tick, BitsDue,
         IF timer'.icf THEN EdgePends' ELSE LevelHolds'
  PROVE  Following'
<1>1. /\ phase' = phase + 1 /\ sent' = sent /\ time' = Later(time, 1)
      /\ phase' \in 0..(rx_stop_ticks + MaxLatency)
      /\ timer'.ocfB <=> phase' >= rx_stop_ticks
  BY CaptureGoesOn
<1>2. /\ timer'.risingEdge = timer.risingEdge /\ timer'.enabledB = timer.enabledB
      /\ timer'.compareB = timer.compareB /\ rx' = rx /\ assembled' = assembled
  BY TickTimer
<1>3. Current' = Current
  BY <1>1 DEF Current
<1>4. At(4 * rx.state + 2)' = At(4 * rx.state + 2) /\ At(rx_stop_ticks)' = At(rx_stop_ticks)
  <2>1. rx.state \in Int /\ rx_stop_ticks \in Int
    BY FrameSizes, FieldTypes
  <2>2. /\ 4 * rx.state + 2 \in Int
        /\ \A k \in Int : (time' - phase' + k) % TimerMod = At(k)
    BY <1>1, <2>1, AtKept DEF At
  <2> QED BY <2>1, <2>2, <1>2 DEF At
<1>5. BitsDue'
  BY <1>1, <1>2, <1>3, <1>4 DEF BitsDue
<1> QED BY <1>1, <1>2, <1>5 DEF Following, FollowsLine

\* An edge that waits for its interrupt is the only one: the next bit is not over.
LEMMA EdgeWaits ==
  ASSUME TypeOK, Tick, BitsDue, timer.icf
  PROVE  timer'.icf /\ EdgePends'
<1>1. /\ phase' = phase + 1 /\ sent' = sent /\ time' = Later(time, 1)
      /\ phase' \in 1..(4 * DataBits + 7)
  BY CaptureGoesOn
<1>2. rx' = rx /\ timer'.icf
  BY TickTimer
<1>3. PICK j \in rx.state..(DataBits + 1) :
        /\ timer.icr = At(4 * j) /\ phase \in (4 * j)..(4 * j + MaxLatency)
        /\ BitOf(Current, j) = rx.bit
        /\ \A i \in rx.state..(j - 1) : BitOf(Current, i) = 1 - rx.bit
  BY DEF BitsDue, EdgePends
<1>4. j \in Int /\ 4 * j \in Int
  BY FieldTypes, FrameSizes
<1>5. phase # 4 * j + MaxLatency
  BY <1>3, <1>4, ServedInTime DEF Tick
<1>6. phase' \in (4 * j)..(4 * j + MaxLatency) /\ phase \div 4 = j /\ phase' \div 4 = j
      /\ phase # Idle /\ phase' # Idle
  BY <1>1, <1>3, <1>4, <1>5, FrameSizes DEF Idle
<1>7. Level' = Level
  BY <1>1, <1>6 DEF Level, LevelOf, ticks_per_bit
<1>8. timer'.icr = timer.icr
  BY <1>7, TickTimer DEF EdgeNow
<1>9. At(4 * j)' = At(4 * j)
  BY <1>1, <1>4, AtKept
<1>10. Current' = Current
  BY <1>1 DEF Current
<1>11. EdgePends'
  BY <1>1, <1>2, <1>3, <1>6, <1>8, <1>9, <1>10 DEF EdgePends, At
<1> QED BY <1>2, <1>11

\* The level goes on, or its change is latched as the time of the bit that begins.
LEMMA LevelGoesOn ==
  ASSUME TypeOK, Tick, BitsDue, ~timer.icf, Len(sent) > 0
  PROVE  IF timer'.icf THEN EdgePends' ELSE LevelHolds'
<1> DEFINE p == phase \div 4
<1>1. /\ phase' = phase + 1 /\ sent' = sent /\ time' = Later(time, 1)
      /\ phase' \in 1..(4 * DataBits + 7) /\ Later(time, 1) = At(phase + 1)
  BY CaptureGoesOn
<1>0. PICK q \in 0..(DataBits + 1) : q = phase' \div 4
  BY <1>1, FrameSizes
<1>2. rx' = rx /\ timer'.risingEdge = timer.risingEdge
  BY TickTimer
<1>3. /\ \A i \in rx.state..p : BitOf(Current, i) = 1 - rx.bit
      /\ p >= rx.state \/ (rx.state = 1 /\ rx.bit = 1 /\ p = 0)
  BY DEF BitsDue, LevelHolds
<1>4. /\ rx.state \in 1..DataBits /\ rx.bit \in {0, 1} /\ phase \in Nat
      /\ Current \in AnyByte /\ sent # <<>>
  BY FieldTypes, CurrentType, <1>1, FrameSizes DEF BitsDue
<1>5. /\ p \in Nat /\ q \in 0..(DataBits + 1) /\ q \in {p, p + 1}
      /\ q # p => phase + 1 = 4 * q
  BY <1>0, <1>1, <1>4, FrameSizes
<1>6. Current' = Current /\ phase # Idle /\ phase' # Idle
  BY <1>1, <1>4 DEF Current, Idle
<1>7. Level = BitOf(Current, p) /\ Level' = BitOf(Current, q)
  BY <1>0, <1>1, <1>4, <1>6 DEF Level, LevelOf, ticks_per_bit, Current
<1>8. Level = 1 - rx.bit
  <2>1. CASE p >= rx.state
    BY <2>1, <1>3, <1>4, <1>5, <1>7
  <2>2. CASE rx.bit = 1 /\ p = 0
    <3>1. BitOf(Current, 0) = 0
      BY DEF BitOf
    <3> QED BY <2>2, <3>1, <1>7
  <2> QED BY <1>3, <2>1, <2>2
<1>9. Level' \in {0, 1}
  BY <1>4, <1>5, <1>7, BitType
<1>10. EdgeNow <=> Level' = rx.bit
  <2>1. timer.risingEdge <=> rx.bit = 1
    BY DEF BitsDue
  <2> QED BY <1>4, <1>8, <1>9, <2>1 DEF EdgeNow
<1>11. CASE EdgeNow
  <2>1. q = p + 1 /\ phase' = 4 * q
    BY <1>1, <1>4, <1>5, <1>7, <1>8, <1>10, <1>11
  <2>2. timer'.icf /\ timer'.icr = At(4 * q)
    BY <1>1, <1>11, <2>1, TickTimer
  <2>3. At(4 * q)' = At(4 * q)
    <3>1. 4 * q \in Int
      BY <1>5, FrameSizes
    <3> QED BY <1>1, <3>1, AtKept
  <2>4. q \in rx.state..(DataBits + 1) /\ phase' \in (4 * q)..(4 * q + MaxLatency)
    BY <1>3, <1>4, <1>5, <2>1, FrameSizes
  <2>5. \A i \in rx.state..(q - 1) : BitOf(Current, i) = 1 - rx.bit
    <3>1. q - 1 = p
      BY <1>5, <2>1
    <3> QED BY <1>3, <3>1
  <2>6. BitOf(Current, q) = rx.bit
    BY <1>7, <1>10, <1>11
  <2>7. EdgePends'
    BY <1>1, <1>2, <1>6, <2>2, <2>3, <2>4, <2>5, <2>6 DEF EdgePends, At
  <2> QED BY <2>2, <2>7
<1>12. CASE ~EdgeNow
  <2>1. ~timer'.icf
    BY <1>12, TickTimer
  <2>2. BitOf(Current, q) = 1 - rx.bit
    BY <1>4, <1>7, <1>9, <1>10, <1>12
  <2>3. \A i \in rx.state..q : BitOf(Current, i) = 1 - rx.bit
    <3>1. \A i \in rx.state..q : i \in rx.state..p \/ i = q
      BY <1>4, <1>5
    <3> QED BY <1>3, <2>2, <3>1
  <2>4. q >= rx.state \/ (rx.state = 1 /\ rx.bit = 1 /\ q = 0)
    BY <1>3, <1>4, <1>5
  <2> QED BY <1>0, <1>2, <1>6, <2>1, <2>3, <2>4 DEF LevelHolds
<1> QED BY <1>11, <1>12

\* A quarter of a bit passes.
LEMMA TickFollows ==
  ASSUME TypeOK, Following, Tick
  PROVE  Following'
<1>1. CASE NothingDue
  <2>1. CASE Len(sent) < MaxFrames /\ phase' = 0 /\ \E b \in Byte : sent' = Append(sent, b)
    BY <1>1, <2>1, CaptureBegins
  <2>2. CASE sent' = sent /\ (phase' = Idle \/ (phase' = phase + 1 /\ phase \in 0..(4 * FrameBits - 2)))
    BY <1>1, <2>2, LineRests
  <2>3. \/ Len(sent) < MaxFrames /\ phase' = 0 /\ \E b \in Byte : sent' = Append(sent, b)
        \/ phase' = Idle /\ sent' = sent
        \/ phase \in 0..(4 * FrameBits - 2) /\ phase' = phase + 1 /\ sent' = sent
    BY DEF Tick, LineMoves
  <2> QED BY <2>1, <2>2, <2>3
<1>2. CASE StartDue
  BY <1>2, StartWaits
<1>3. CASE BitsDue
  <2>1. Len(sent) > 0
    BY <1>3 DEF BitsDue, TypeOK
  <2>2. IF timer'.icf THEN EdgePends' ELSE LevelHolds'
    BY <1>3, <2>1, EdgeWaits, LevelGoesOn
  <2> QED BY <1>3, <2>2, BitsWait
<1> QED BY <1>1, <1>2, <1>3 DEF Following, FollowsLine

\* The interrupt of the start bit begins a byte.
LEMMA StartServed ==
  ASSUME TypeOK, Following, CaptureInterrupt, StartDue
  PROVE  Following'
<1> DEFINE stop == Later(timer.icr, rx_stop_ticks)
           middle == Later(timer.icr, ticks_per_bit + ticks_per_bit \div 2)
<1>1. StartBit /\ UNCHANGED <<line, reader>>
  BY DEF CaptureInterrupt, StartDue
<1>2. /\ timer' = [timer EXCEPT !.icf = FALSE, !.risingEdge = TRUE, !.ocfB = FALSE,
                                !.enabledB = TRUE, !.compareB = stop]
      /\ rx' = [rx EXCEPT !.bit = 1, !.state = 1, !.target = middle]
      /\ UNCHANGED <<line, history>>
  BY <1>1 DEF StartBit
<1>3. stop = At(rx_stop_ticks) /\ middle = At(6)
  <2>1. /\ 0 + rx_stop_ticks = rx_stop_ticks /\ rx_stop_ticks \in Int
        /\ ticks_per_bit + ticks_per_bit \div 2 = 6 /\ 0 + 6 = 6
    BY FrameSizes DEF ticks_per_bit
  <2>2. Later(At(0), rx_stop_ticks) = At(rx_stop_ticks) /\ Later(At(0), 6) = At(6)
    <3>1. \A n \in Int : Later(At(0), n) = At(n)
      <4> SUFFICES ASSUME NEW n \in Int PROVE Later(At(0), n) = At(n)
        OBVIOUS
      <4> DEFINE z == 0
      <4>1. z \in Int /\ z + n = n
        OBVIOUS
      <4> HIDE DEF z
      <4>2. Later(At(z), n) = At(n)
        BY <4>1, AtLater
      <4> QED BY <4>2 DEF z
    <3> QED BY <2>1, <3>1
  <2> QED BY <2>1, <2>2 DEF StartDue
<1>4. timer \in TimerType /\ rx \in RxType
  BY FieldTypes
<1> HIDE DEF stop, middle
<1>5. /\ ~timer'.icf /\ timer'.risingEdge /\ ~timer'.ocfB /\ timer'.enabledB
      /\ timer'.compareB = stop
  BY <1>2, <1>4 DEF TimerType
<1>6. rx'.bit = 1 /\ rx'.state = 1 /\ rx'.target = middle
  BY <1>2, <1>4 DEF RxType
<1>7. time' = time /\ phase' = phase /\ sent' = sent /\ assembled' = assembled
  BY <1>2 DEF line, history
<1>8. phase \in 0..2 /\ phase \div 4 = 0
  BY FrameSizes DEF StartDue
<1>9. LevelHolds'
  BY <1>6, <1>7, <1>8 DEF LevelHolds
<1>10. At(rx_stop_ticks)' = At(rx_stop_ticks) /\ At(4 * rx'.state + 2) = At(6)
  BY <1>6, <1>7 DEF At, rx_stop_ticks
<1>11. BitsDue'
  <2>1. \A k \in 1..(rx'.state - 1) :
          rx'.byte[DataBits + 1 - rx'.state + k] = Current'[k]
    BY <1>6
  <2>2. phase \in 0..(rx_stop_ticks + MaxLatency) /\ ~(phase >= rx_stop_ticks)
    BY <1>8, FrameSizes
  <2>3. rx'.target = At(4 * rx.state + 2)'
    BY <1>3, <1>6, <1>7 DEF At
  <2> QED BY <1>3, <1>5, <1>6, <1>7, <1>9, <1>10, <2>1, <2>2, <2>3 DEF BitsDue, StartDue
<1> QED BY <1>7, <1>11 DEF Following, FollowsLine

\* Where bit k of the byte is when the bits before j are in it: it was there in
\* state s already, or it comes now.
LEMMA PlaceOfBit ==
  ASSUME NEW s \in 1..DataBits, NEW j \in s..(DataBits + 1), NEW k \in 1..(j - 1)
  PROVE  /\ DataBits + 1 - j + k \in 1..DataBits
         /\ (DataBits + 1 - j + k) + (j - s) = DataBits + 1 - s + k
         /\ k < s => /\ (DataBits + 1 - j + k) + (j - s) <= DataBits
                     /\ k \in 1..(s - 1)
         /\ k >= s => /\ ~((DataBits + 1 - j + k) + (j - s) <= DataBits)
                      /\ k \in s..(j - 1) /\ k # 0 /\ k # DataBits + 1
BY FrameSizes

\* Shifting in the bits up to bit j gives the bits before j, and with the stop
\* bit the whole byte.
LEMMA ByteGrows ==
  ASSUME TypeOK, BitsDue, NEW j \in rx.state..(DataBits + 1),
         \A i \in rx.state..(j - 1) : BitOf(Current, i) = 1 - rx.bit
  PROVE  LET b == ShiftIn(rx.byte, 1 - rx.bit, j - rx.state)
         IN /\ b \in AnyByte
            /\ \A k \in 1..(j - 1) : b[DataBits + 1 - j + k] = Current[k]
            /\ j = DataBits + 1 => b = Current
<1> DEFINE n == j - rx.state
           b == ShiftIn(rx.byte, 1 - rx.bit, n)
<1>1. /\ rx.state \in 1..DataBits /\ rx.byte \in AnyByte /\ 1 - rx.bit \in {0, 1}
      /\ n \in 0..DataBits /\ n \in Nat /\ j \in Nat /\ j = rx.state + n
  BY FieldTypes, FrameSizes DEF BitsDue
<1>2. /\ b \in AnyByte
      /\ \A k \in 1..DataBits : b[k] = IF k + n <= DataBits THEN rx.byte[k + n] ELSE 1 - rx.bit
  <2>1. PICK x : x = 1 - rx.bit
    OBVIOUS
  <2>2. x \in {0, 1} /\ n \in Nat /\ rx.byte \in AnyByte /\ b = ShiftIn(rx.byte, x, n)
    BY <1>1, <2>1
  <2> HIDE DEF n, b
  <2>3. /\ ShiftIn(rx.byte, x, n) \in AnyByte
        /\ \A k \in 1..DataBits : ShiftIn(rx.byte, x, n)[k]
                                   = IF k + n <= DataBits THEN rx.byte[k + n] ELSE x
    BY <2>2, ShiftedIn
  <2> QED BY <2>1, <2>2, <2>3
<1>3. \A k \in 1..(rx.state - 1) : rx.byte[DataBits + 1 - rx.state + k] = Current[k]
  BY DEF BitsDue
<1> HIDE DEF n, b
<1>4. ASSUME NEW k \in 1..(j - 1) PROVE b[DataBits + 1 - j + k] = Current[k]
  <2> DEFINE m == DataBits + 1 - j + k
  <2>1. /\ m \in 1..DataBits /\ m + n = DataBits + 1 - rx.state + k
        /\ k < rx.state => m + n <= DataBits /\ k \in 1..(rx.state - 1)
        /\ k >= rx.state => /\ ~(m + n <= DataBits)
                           /\ k \in rx.state..(j - 1) /\ k # 0 /\ k # DataBits + 1
    <3> DEFINE s == rx.state
    <3>1. s \in 1..DataBits /\ j \in s..(DataBits + 1) /\ k \in 1..(j - 1)
      BY <1>1
    <3> HIDE DEF s
    <3>2. /\ DataBits + 1 - j + k \in 1..DataBits
          /\ (DataBits + 1 - j + k) + (j - s) = DataBits + 1 - s + k
          /\ k < s => /\ (DataBits + 1 - j + k) + (j - s) <= DataBits
                     /\ k \in 1..(s - 1)
          /\ k >= s => /\ ~((DataBits + 1 - j + k) + (j - s) <= DataBits)
                      /\ k \in s..(j - 1) /\ k # 0 /\ k # DataBits + 1
      BY <3>1, PlaceOfBit
    <3> QED BY <3>2 DEF n, s
  <2> HIDE DEF m
  <2>2. CASE k < rx.state
    <3> QED BY <1>2, <1>3, <2>1, <2>2 DEF m
  <2>3. CASE k >= rx.state
    <3>1. ~(m + n <= DataBits) /\ k \in rx.state..(j - 1) /\ k # 0 /\ k # DataBits + 1
      BY <2>1, <2>3
    <3>2. BitOf(Current, k) = Current[k]
      BY <3>1 DEF BitOf
    <3> QED BY <1>2, <2>1, <3>1, <3>2 DEF m
  <2> QED BY <1>1, <2>2, <2>3
<1>5. ASSUME j = DataBits + 1 PROVE b = Current
  <2>1. \A k \in 1..DataBits : b[k] = Current[k]
    <3> SUFFICES ASSUME NEW k \in 1..DataBits PROVE b[k] = Current[k]
      OBVIOUS
    <3>1. DataBits + 1 - j + k = k /\ k \in 1..(j - 1)
      BY <1>5, FrameSizes
    <3> QED BY <1>4, <3>1
  <2>2. Current \in AnyByte
    BY CurrentType DEF BitsDue, TypeOK
  <2> QED BY <1>2, <2>1, <2>2 DEF AnyByte
<1> QED BY <1>2, <1>4, <1>5 DEF b, n

\* From the time of an edge at the start of bit j the interrupt counts the bits
\* since bit s, whose middle it waits for.
LEMMA EdgeCounts ==
  ASSUME TypeOK, NEW s \in 1..DataBits, NEW j \in s..(DataBits + 1), rx.state = s,
         timer.icr = At(4 * j), rx.target = At(4 * s + 2)
  PROVE  EdgeBits = j - s
<1>1. Offset(timer.icr, rx.target) = 4 * (j - s) - 2
  <2> DEFINE a == 4 * j
             b == 4 * s + 2
  <2>1. /\ a \in Int /\ b \in Int /\ a - b = 4 * (j - s) - 2
        /\ 2 * (a - b) + 2 <= TimerMod /\ 2 * (b - a) < TimerMod
    BY FrameSizes
  <2> HIDE DEF a, b
  <2>2. Offset(At(a), At(b)) = a - b
    BY <2>1, AtOffset
  <2> QED BY <2>1, <2>2 DEF a, b
<1>2. EdgeDue = j - s
  <2> DEFINE d == 4 * (j - s) - 2
  <2>1. CASE j = s
    BY <2>1, <1>1, FrameSizes DEF EdgeDue
  <2>2. CASE j # s
    <3>1. ~(d < 0) /\ d \div 4 + 1 = j - s
      BY <2>2, FrameSizes
    <3> QED BY <1>1, <3>1 DEF EdgeDue, ticks_per_bit
  <2> QED BY <2>1, <2>2
<1> QED BY <1>2, FrameSizes DEF EdgeBits

\* Either interrupt ends the frame with the byte that was sent.
LEMMA FrameEnds ==
  ASSUME TypeOK, Following, UNCHANGED line, BitsDue, phase >= 4 * (DataBits + 1),
         Store(Current), rx'.state = 0, rx'.bit = 0,
         ~timer'.icf, ~timer'.ocfB, ~timer'.enabledB, ~timer'.risingEdge
  PROVE  Following'
<1>1. sent \in Seq(AnyByte) /\ assembled \in Seq(AnyByte)
  BY FieldTypes DEF TypeOK
<1>2. assembled' = Append(assembled, Current) /\ sent' = sent /\ phase' = phase
  BY DEF Store, line
<1>3. Len(sent) = Len(assembled) + 1 /\ assembled = SubSeq(sent, 1, Len(assembled))
  BY DEF BitsDue, Following
<1>4. Len(assembled') = Len(sent) /\ assembled' = SubSeq(sent', 1, Len(assembled'))
  BY <1>1, <1>2, <1>3 DEF Current
<1>5. NothingDue'
  BY <1>2, <1>4 DEF NothingDue
<1>6. Len(sent') - Len(assembled') \in {0, 1} /\ Len(sent') <= MaxFrames
  <2>1. Len(sent) \in Nat
    BY <1>1
  <2>2. Len(sent') = Len(sent) /\ Len(assembled') = Len(sent) /\ Len(sent) <= MaxFrames
    BY <1>2, <1>4 DEF Following
  <2> QED BY <2>1, <2>2
<1> QED BY <1>4, <1>5, <1>6 DEF Following, FollowsLine

\* The interrupt of an edge, and the one of the compare unit.
LEMMA EdgeServed ==
  ASSUME TypeOK, Following, CaptureInterrupt, BitsDue
  PROVE  Following'
<1>1. timer.icf /\ UNCHANGED line /\ rx.state # 0 /\ (EdgeEndsFrame \/ EdgeGoesOn)
  BY DataEdgeCases DEF CaptureInterrupt, BitsDue
<1>2. timer \in TimerType /\ rx \in RxType /\ rx.state \in 1..DataBits /\ rx.bit \in {0, 1}
      /\ sent \in Seq(AnyByte) /\ assembled \in Seq(AnyByte)
  BY FieldTypes, <1>1, FrameSizes DEF TypeOK
<1>3. PICK j \in rx.state..(DataBits + 1) :
        /\ timer.icr = At(4 * j) /\ phase \in (4 * j)..(4 * j + MaxLatency)
        /\ BitOf(Current, j) = rx.bit
        /\ \A i \in rx.state..(j - 1) : BitOf(Current, i) = 1 - rx.bit
  BY <1>1 DEF BitsDue, EdgePends
<1>4. EdgeBits = j - rx.state
  <2> DEFINE s == rx.state
  <2>1. s \in 1..DataBits /\ j \in s..(DataBits + 1) /\ rx.state = s
        /\ timer.icr = At(4 * j) /\ rx.target = At(4 * s + 2)
    BY <1>2, <1>3 DEF BitsDue
  <2> HIDE DEF s
  <2>2. EdgeBits = j - s
    BY <2>1, EdgeCounts
  <2> QED BY <2>2 DEF s
<1>5. /\ EdgeByte \in AnyByte
      /\ \A k \in 1..(j - 1) : EdgeByte[DataBits + 1 - j + k] = Current[k]
      /\ j = DataBits + 1 => EdgeByte = Current
  BY <1>3, <1>4, ByteGrows DEF EdgeByte
<1>6. CASE EdgeEndsFrame
  <2>1. rx.state + EdgeBits = DataBits + 1
    BY <1>6 DEF EdgeEndsFrame
  <2>2. j = DataBits + 1
    BY <1>2, <1>3, <1>4, <2>1, FrameSizes
  <2>3. phase >= 4 * (DataBits + 1) /\ EdgeByte = Current
    BY <1>3, <1>5, <2>2, FieldTypes, FrameSizes
  <2>4. ~timer'.icf /\ ~timer'.ocfB /\ ~timer'.enabledB /\ ~timer'.risingEdge
    BY <1>2, <1>6 DEF EdgeEndsFrame, TimerType
  <2>5. rx' = [rx EXCEPT !.byte = EdgeByte, !.bit = 0, !.state = 0] /\ Store(Current)
    BY <1>6, <2>3 DEF EdgeEndsFrame
  <2>6. rx'.state = 0 /\ rx'.bit = 0
    BY <1>2, <2>5 DEF RxType
  <2> QED BY <1>1, <2>3, <2>4, <2>5, <2>6, FrameEnds
<1>7. CASE EdgeGoesOn
  <2>1. j \in 1..DataBits /\ rx.state + EdgeBits = j /\ EdgeBits * ticks_per_bit = 4 * (j - rx.state)
    <3> DEFINE s == rx.state
               n == EdgeBits
    <3>1. s \in 1..DataBits /\ j \in s..(DataBits + 1) /\ n = j - s /\ s + n # DataBits + 1
      BY <1>2, <1>4, <1>7 DEF EdgeGoesOn
    <3> HIDE DEF s, n
    <3>2. j \in 1..DataBits /\ s + n = j /\ n * ticks_per_bit = 4 * (j - s)
      BY <3>1, FrameSizes DEF ticks_per_bit
    <3> QED BY <3>2 DEF s, n
  <2> DEFINE target == Later(rx.target, EdgeBits * ticks_per_bit)
  <2>2. target = At(4 * j + 2)
    <3> DEFINE a == 4 * rx.state + 2
               n == 4 * (j - rx.state)
    <3>1. a \in Int /\ n \in Int /\ a + n = 4 * j + 2
      <4> DEFINE s == rx.state
      <4>1. s \in 1..DataBits /\ j \in 1..DataBits
        BY <1>2, <2>1
      <4> HIDE DEF s
      <4>2. 4 * s + 2 \in Int /\ 4 * (j - s) \in Int /\ 4 * s + 2 + 4 * (j - s) = 4 * j + 2
        BY <4>1, FrameSizes
      <4> QED BY <4>2 DEF s
    <3>2. rx.target = At(a) /\ target = Later(rx.target, n)
      BY <2>1 DEF BitsDue
    <3> HIDE DEF a, n, target
    <3>3. Later(At(a), n) = At(a + n)
      BY <3>1, AtLater
    <3> QED BY <3>1, <3>2, <3>3
  <2>3. /\ rx' = [rx EXCEPT !.byte = EdgeByte, !.bit = 1 - rx.bit,
                            !.state = rx.state + EdgeBits, !.target = target]
        /\ sent' = sent /\ phase' = phase /\ time' = time /\ assembled' = assembled
    BY <1>1, <1>7, <1>2 DEF EdgeGoesOn, line, history, RxType
  <2> HIDE DEF target
  <2>4. rx'.byte = EdgeByte /\ rx'.bit = 1 - rx.bit /\ rx'.state = j /\ rx'.target = target
    <3>1. rx'.state = rx.state + EdgeBits
      BY <1>2, <2>3 DEF RxType
    <3> QED BY <1>2, <2>1, <2>3, <3>1 DEF RxType
  <2>5. /\ ~timer'.icf
        /\ timer'.risingEdge <=> 1 - rx.bit = 1
        /\ timer'.enabledB = timer.enabledB /\ timer'.ocfB = timer.ocfB
        /\ timer'.compareB = timer.compareB
    BY <1>2, <1>7 DEF EdgeGoesOn, TimerType
  <2>6. phase \div 4 = j
    BY <1>3, <2>1, FrameSizes, FieldTypes
  <2>7. LevelHolds'
    <3>1. \A i \in j..j : BitOf(Current, i) = 1 - (1 - rx.bit)
      BY <1>2, <1>3
    <3> QED BY <2>3, <2>4, <2>6, <3>1 DEF LevelHolds, Current
  <2>8. BitsDue'
    <3>1. rx'.state > 0 /\ rx'.target = At(4 * rx'.state + 2)
      BY <2>1, <2>2, <2>4
    <3>2. \A k \in 1..(rx'.state - 1) : rx'.byte[DataBits + 1 - rx'.state + k] = Current[k]
      BY <1>5, <2>4
    <3>3. \A k \in {rx_stop_ticks, 4 * rx'.state + 2} : (time' - phase' + k) % TimerMod = At(k)
      BY <2>3 DEF At
    <3>4. /\ timer'.enabledB /\ timer'.compareB = At(rx_stop_ticks)
          /\ timer'.ocfB <=> phase' >= rx_stop_ticks
          /\ phase' \in 0..(rx_stop_ticks + MaxLatency)
          /\ Len(sent') = Len(assembled') + 1
      BY <2>3, <2>5 DEF BitsDue
    <3>5. timer'.risingEdge <=> rx'.bit = 1
      BY <2>4, <2>5
    <3>6. Current' = Current
      BY <2>3 DEF Current
    <3> QED BY <2>5, <2>7, <3>1, <3>2, <3>3, <3>4, <3>5, <3>6 DEF BitsDue, At
  <2> QED BY <2>3, <2>8 DEF Following, FollowsLine
<1> QED BY <1>1, <1>6, <1>7

\* The compare match at the end of a frame stores the byte that was sent.
LEMMA CompareServed ==
  ASSUME TypeOK, Following, CompareInterrupt
  PROVE  Following'
<1>1. timer.ocfB /\ ~timer.icf /\ UNCHANGED line /\ BitsDue
  BY DEF CompareInterrupt, Following, FollowsLine, NothingDue, StartDue
<1>2. timer \in TimerType /\ rx \in RxType /\ rx.state \in 1..DataBits
      /\ phase \in (4 * DataBits + 5)..(4 * DataBits + 7)
  <2>1. phase >= 4 * DataBits + 5
    BY <1>1, FrameSizes DEF BitsDue
  <2>2. phase \in (-1)..(4 * DataBits + 7) /\ rx.state \in 1..DataBits
    BY FieldTypes, <1>1 DEF BitsDue
  <2> QED BY <2>1, <2>2, FieldTypes, FrameSizes
<1>3. phase \div 4 = DataBits + 1 /\ phase >= 4 * (DataBits + 1)
  BY <1>2, FrameSizes
<1> DEFINE byte == ShiftIn(rx.byte, 1 - rx.bit, DataBits + 1 - rx.state)
<1>4. byte = Current
  <2>1. \A i \in rx.state..(DataBits + 1) : BitOf(Current, i) = 1 - rx.bit
    BY <1>1, <1>3 DEF BitsDue, LevelHolds
  <2>2. DataBits + 1 \in rx.state..(DataBits + 1)
        /\ (DataBits + 1) - 1 = DataBits
        /\ \A i \in rx.state..DataBits : i \in rx.state..(DataBits + 1)
    BY <1>2, FrameSizes
  <2> DEFINE j == DataBits + 1
  <2>3. j \in rx.state..(DataBits + 1) /\ j = DataBits + 1
        /\ \A i \in rx.state..(j - 1) : BitOf(Current, i) = 1 - rx.bit
    BY <2>1, <2>2
  <2>4. byte = ShiftIn(rx.byte, 1 - rx.bit, j - rx.state)
    <3>1. DataBits + 1 - rx.state = j - rx.state
      BY <1>2, FrameSizes
    <3> QED BY <3>1
  <2> HIDE DEF j, byte
  <2>5. ShiftIn(rx.byte, 1 - rx.bit, j - rx.state) = Current
    BY <1>1, <2>3, ByteGrows
  <2> QED BY <2>4, <2>5
<1>5. rx' = [rx EXCEPT !.byte = byte, !.bit = 0, !.state = 0] /\ Store(Current)
  BY <1>4 DEF CompareInterrupt
<1>6. ~timer'.icf /\ ~timer'.ocfB /\ ~timer'.enabledB /\ ~timer'.risingEdge
  BY <1>1, <1>2 DEF CompareInterrupt, TimerType
<1> HIDE DEF byte
<1>7. rx'.state = 0 /\ rx'.bit = 0
  BY <1>2, <1>5 DEF RxType
<1> QED BY <1>1, <1>3, <1>5, <1>6, <1>7, FrameEnds

\* Every step keeps to the line.
LEMMA FollowStep == TypeOK /\ Following /\ [Next]_vars => Following'
<1> SUFFICES ASSUME TypeOK, Following, [Next]_vars PROVE Following'
  OBVIOUS
<1>1. CASE Tick
  BY <1>1, TickFollows
<1>2. CASE CaptureInterrupt
  <2>1. ~NothingDue
    BY <1>2 DEF CaptureInterrupt, NothingDue
  <2> QED BY <1>2, <2>1, StartServed, EdgeServed DEF Following, FollowsLine
<1>3. CASE CompareInterrupt
  BY <1>3, CompareServed
<1>4. CASE UNCHANGED <<line, timer, rx, assembled>>
  BY <1>4 DEF line, Following, FollowsLine, NothingDue, StartDue, BitsDue, EdgePends,
              LevelHolds, At, Current
<1>5. ReadStep \/ UNCHANGED vars => UNCHANGED <<line, timer, rx, assembled>>
  BY DEF ReadStep, Available, AvailableAnswers, ReadByte, MoveTail, vars, history
<1> QED BY <1>1, <1>2, <1>3, <1>4, <1>5 DEF Next

-----------------------------------------------------------------------------
(***************************************************************************)
(* The ring.                                                               *)
(***************************************************************************)
Counted == Len(accepted) + lost = Len(assembled)

\* An interrupt stores one byte, or does not touch the ring.
LEMMA InterruptStores ==
  ASSUME TypeOK, CaptureInterrupt \/ CompareInterrupt
  PROVE  /\ UNCHANGED reader
         /\ \/ UNCHANGED <<ring, history>>
            \/ /\ \E byte \in AnyByte : Store(byte)
               /\ UNCHANGED <<rx_buffer_tail, delivered>>
<1>1. CASE CaptureInterrupt
  <2>1. CASE StartBit \/ StrayEdge \/ (rx.state # 0 /\ EdgeGoesOn)
    BY <1>1, <2>1 DEF CaptureInterrupt, StartBit, StrayEdge, EdgeGoesOn
  <2>2. CASE rx.state # 0 /\ EdgeEndsFrame
    <3>1. EdgeByte \in AnyByte
      BY <2>2, EdgeTypes
    <3> QED BY <1>1, <2>2, <3>1 DEF CaptureInterrupt, EdgeEndsFrame
  <2> QED BY <1>1, <2>1, <2>2, DataEdgeCases DEF CaptureInterrupt
<1>2. CASE CompareInterrupt
  <2> DEFINE n == DataBits + 1 - rx.state
             byte == ShiftIn(rx.byte, 1 - rx.bit, n)
  <2>1. n \in Nat /\ rx.byte \in AnyByte /\ 1 - rx.bit \in {0, 1}
    BY FieldTypes, FrameSizes
  <2>2. byte \in AnyByte
    BY <2>1, ShiftedIn
  <2>3. Store(byte) /\ UNCHANGED <<rx_buffer_tail, delivered, reader>>
    BY <1>2 DEF CompareInterrupt
  <2> QED BY <2>2, <2>3
<1> QED BY <1>1, <1>2

\* The counts behind the positions of the ring.
LEMMA RingCounts ==
  ASSUME TypeOK, RingMatches
  PROVE  /\ Len(accepted) \in Nat /\ Len(delivered) \in Nat
         /\ Len(accepted) - Len(delivered) \in 0..(RX_BUFFER_SIZE - 1)
         /\ RX_BUFFER_SIZE \in Nat \ {0} /\ RX_BUFFER_SIZE > 1
         /\ rx_buffer_head = Len(accepted) % RX_BUFFER_SIZE
         /\ rx_buffer_tail = Len(delivered) % RX_BUFFER_SIZE
<1>1. accepted \in Seq(AnyByte) /\ delivered \in Seq(AnyByte)
  BY DEF TypeOK
<1>2. Len(accepted) \in Nat /\ Len(delivered) \in Nat
  BY <1>1
<1>3. RX_BUFFER_SIZE \in Nat \ {0} /\ RX_BUFFER_SIZE > 1
  OBVIOUS
<1> QED BY <1>2, <1>3 DEF RingMatches

\* A byte is lost only if the ring is full.
LEMMA FullOrNot ==
  ASSUME TypeOK, RingMatches
  PROVE  /\ AfterHead = (Len(accepted) + 1) % RX_BUFFER_SIZE
         /\ AfterHead # rx_buffer_tail <=> Len(accepted) - Len(delivered) < RX_BUFFER_SIZE - 1
<1> DEFINE A == Len(accepted)
           D == Len(delivered)
           N == RX_BUFFER_SIZE
<1>1. /\ A \in Nat /\ D \in Nat /\ A - D \in 0..(N - 1) /\ N \in Nat \ {0} /\ N > 1
      /\ rx_buffer_head = A % N /\ rx_buffer_tail = D % N
  BY RingCounts
<1>2. AfterHead = (A + 1) % N
  BY <1>1, ModSucc DEF AfterHead
<1> HIDE DEF A, D, N
<1>3. CASE A - D < N - 1
  <2>1. D <= A + 1 /\ A + 1 < D + N /\ D # A + 1 /\ A + 1 \in Nat
    BY <1>1, <1>3
  <2>2. (A + 1) % N # D % N
    BY <1>1, <2>1, ModInj
  <2> QED BY <1>1, <1>2, <1>3, <2>2 DEF A, D, N
<1>4. CASE ~(A - D < N - 1)
  <2>1. A + 1 = D + N
    BY <1>1, <1>4
  <2>2. (A + 1) % N = D % N
    BY <1>1, <2>1, ModRound
  <2> QED BY <1>1, <1>2, <1>4, <2>2 DEF A, D, N
<1> QED BY <1>3, <1>4

\* Storing a byte: the slots of those that wait are not touched.
LEMMA StoreKeepsRing ==
  ASSUME TypeOK, RingMatches, NEW byte \in AnyByte, Store(byte),
         UNCHANGED <<rx_buffer_tail, delivered, reader>>
  PROVE  RingMatches'
<1> DEFINE A == Len(accepted)
           D == Len(delivered)
           N == RX_BUFFER_SIZE
<1>1. /\ A \in Nat /\ D \in Nat /\ A - D \in 0..(N - 1) /\ N \in Nat \ {0} /\ N > 1
      /\ rx_buffer_head = A % N /\ rx_buffer_tail = D % N
      /\ \A k \in (D + 1)..A : rx_buffer[k % N] = accepted[k]
      /\ pc = "tail" => D < A /\ out = accepted[D + 1]
      /\ rx_buffer \in [Slot -> AnyByte] /\ accepted \in Seq(AnyByte)
  <2>1. /\ \A k \in (D + 1)..A : rx_buffer[k % N] = accepted[k]
        /\ pc = "tail" => D < A /\ out = accepted[D + 1]
    BY DEF RingMatches
  <2>2. rx_buffer \in [Slot -> AnyByte] /\ accepted \in Seq(AnyByte)
    BY DEF TypeOK
  <2> QED BY <2>1, <2>2, RingCounts
<1>2. CASE AfterHead = rx_buffer_tail
  BY <1>2 DEF Store, RingMatches, reader
<1>3. CASE AfterHead # rx_buffer_tail
  <2>1. /\ AfterHead = (A + 1) % N /\ A - D < N - 1
        /\ accepted' = Append(accepted, byte) /\ rx_buffer_head' = AfterHead
        /\ rx_buffer' = [rx_buffer EXCEPT ![AfterHead] = byte]
        /\ rx_buffer_tail' = rx_buffer_tail /\ delivered' = delivered
        /\ pc' = pc /\ out' = out
    BY <1>3, FullOrNot DEF Store, reader
  <2>2. /\ Len(accepted') = A + 1 /\ accepted'[A + 1] = byte
        /\ \A k \in 1..A : accepted'[k] = accepted[k]
    BY <1>1, <2>1
  <2>3. ASSUME NEW k \in (D + 1)..(A + 1) PROVE rx_buffer'[k % N] = accepted'[k]
    <3>1. k \in Nat /\ k % N \in Slot
      <4>1. Slot = 0..(N - 1)
        BY DEF Slot
      <4> HIDE DEF A, D, N
      <4>2. k \in Nat
        BY <1>1
      <4> QED BY <1>1, <4>1, <4>2, ModRange
    <3>2. CASE k = A + 1
      BY <1>1, <2>1, <2>2, <3>1, <3>2
    <3>3. CASE k # A + 1
      <4> HIDE DEF A, D, N
      <4>1. k <= A + 1 /\ A + 1 < k + N /\ A + 1 \in Nat /\ k \in (D + 1)..A /\ k \in 1..A
        BY <1>1, <2>1, <3>1, <3>3
      <4>2. k % N # (A + 1) % N
        BY <1>1, <3>1, <3>3, <4>1, ModInj
      <4>3. rx_buffer'[k % N] = rx_buffer[k % N]
        BY <1>1, <2>1, <3>1, <4>2
      <4> QED BY <1>1, <2>2, <4>1, <4>3
    <3> QED BY <3>2, <3>3
  <2>4. pc' = "tail" => Len(delivered') < Len(accepted') /\ out' = accepted'[Len(delivered') + 1]
    <3> HIDE DEF A
    <3>1. D < A => D + 1 \in 1..A /\ D < A + 1
      BY <1>1
    <3> QED BY <1>1, <2>1, <2>2, <3>1
  <2>5. Len(accepted') - Len(delivered') \in 0..(N - 1)
    <3>1. Len(accepted') = A + 1 /\ Len(delivered') = D
      BY <2>1, <2>2
    <3>2. A - D < N - 1
      BY <2>1
    <3> HIDE DEF A, D, N
    <3> QED BY <1>1, <3>1, <3>2
  <2> QED BY <1>1, <2>1, <2>2, <2>3, <2>4, <2>5 DEF RingMatches
<1> QED BY <1>2, <1>3

\* The sketch has the oldest byte in its hand when it moves the tail.
LEMMA TakeKeepsRing ==
  ASSUME TypeOK, RingMatches, MoveTail
  PROVE  /\ Len(delivered) < Len(accepted) /\ out = accepted[Len(delivered) + 1]
         /\ RingMatches'
<1> DEFINE A == Len(accepted)
           D == Len(delivered)
           N == RX_BUFFER_SIZE
<1>1. /\ A \in Nat /\ D \in Nat /\ A - D \in 0..(N - 1) /\ N \in Nat \ {0} /\ N > 1
      /\ rx_buffer_head = A % N /\ rx_buffer_tail = D % N
      /\ \A k \in (D + 1)..A : rx_buffer[k % N] = accepted[k]
      /\ D < A /\ out = accepted[D + 1] /\ delivered \in Seq(AnyByte) /\ out \in AnyByte
  <2>1. /\ A \in Nat /\ D \in Nat /\ N \in Nat \ {0} /\ N > 1
        /\ delivered \in Seq(AnyByte) /\ out \in AnyByte
    BY DEF TypeOK
  <2>2. pc = "tail"
    BY DEF MoveTail
  <2> QED BY <2>1, <2>2 DEF RingMatches
<1>2. /\ delivered' = Append(delivered, out) /\ accepted' = accepted
      /\ rx_buffer_tail' = (rx_buffer_tail + 1) % N /\ rx_buffer_head' = rx_buffer_head
      /\ rx_buffer' = rx_buffer /\ pc' = "idle"
  BY DEF MoveTail
<1>3. Len(delivered') = D + 1
  BY <1>1, <1>2
<1>4. rx_buffer_tail' = (D + 1) % N
  BY <1>1, <1>2, ModSucc
<1>5. A - (D + 1) \in 0..(N - 1) /\ \A k \in (D + 1 + 1)..A : k \in (D + 1)..A
  <2>1. A \in Nat /\ D \in Nat /\ A - D \in 0..(N - 1) /\ N \in Nat \ {0} /\ D < A
    BY <1>1
  <2> HIDE DEF A, D, N
  <2> QED BY <2>1
<1> QED BY <1>1, <1>2, <1>3, <1>4, <1>5 DEF RingMatches

\* Every step keeps the ring and the count.
LEMMA RingStep ==
  ASSUME TypeOK, RingMatches, Counted, [Next]_vars
  PROVE  RingMatches' /\ Counted'
<1>1. CASE UNCHANGED <<ring, history>> /\ (UNCHANGED reader \/ pc' # "tail")
  BY <1>1 DEF ring, history, reader, RingMatches, Counted
<1>2. CASE Tick \/ UNCHANGED vars
  BY <1>1, <1>2 DEF Tick, vars
<1>3. CASE CaptureInterrupt \/ CompareInterrupt
  <2>1. CASE UNCHANGED <<ring, history>>
    BY <1>1, <1>3, <2>1, InterruptStores
  <2>2. ASSUME NEW byte \in AnyByte, Store(byte), UNCHANGED <<rx_buffer_tail, delivered, reader>>
        PROVE  RingMatches' /\ Counted'
    <3>1. RingMatches'
      BY <2>2, StoreKeepsRing
    <3>2. /\ accepted \in Seq(AnyByte) /\ assembled \in Seq(AnyByte) /\ lost \in Nat
          /\ Len(assembled') = Len(assembled) + 1
          /\ \/ Len(accepted') = Len(accepted) + 1 /\ lost' = lost
             \/ accepted' = accepted /\ lost' = lost + 1
      BY <2>2 DEF TypeOK, Store
    <3>3. Counted'
      BY <3>2 DEF Counted
    <3> QED BY <3>1, <3>3
  <2> QED BY <1>3, <2>1, <2>2, InterruptStores
<1>4. CASE Available \/ AvailableAnswers
  BY <1>1, <1>4 DEF Available, AvailableAnswers
<1>5. CASE ReadByte
  <2>1. CASE rx_buffer_head = rx_buffer_tail
    BY <1>1, <1>5, <2>1 DEF ReadByte
  <2>2. CASE rx_buffer_head # rx_buffer_tail
    <3> DEFINE A == Len(accepted)
               D == Len(delivered)
               N == RX_BUFFER_SIZE
    <3>1. /\ A \in Nat /\ D \in Nat /\ A - D \in 0..(N - 1) /\ N \in Nat \ {0}
          /\ rx_buffer_head = A % N /\ rx_buffer_tail = D % N
          /\ \A k \in (D + 1)..A : rx_buffer[k % N] = accepted[k]
      <4>1. \A k \in (D + 1)..A : rx_buffer[k % N] = accepted[k]
        BY DEF RingMatches
      <4> QED BY <4>1, RingCounts
    <3>2. D < A /\ D + 1 \in (D + 1)..A
      BY <2>2, <3>1
    <3>3. (rx_buffer_tail + 1) % N = (D + 1) % N
      BY <3>1, ModSucc
    <3>4. out' = accepted[D + 1]
      BY <1>5, <2>2, <3>1, <3>2, <3>3 DEF ReadByte
    <3> QED BY <1>5, <2>2, <3>2, <3>4 DEF ReadByte, ring, history, RingMatches, Counted
  <2> QED BY <2>1, <2>2
<1>6. CASE MoveTail
  BY <1>6, TakeKeepsRing DEF MoveTail, Counted
<1> QED BY <1>2, <1>3, <1>4, <1>5, <1>6 DEF Next, ReadStep

-----------------------------------------------------------------------------
(***************************************************************************)
(* The receiver: every frame gives the byte that was sent, once, before    *)
(* the frame after the next begins, although its interrupts come late; and *)
(* every byte is queued or counted as lost.                                *)
(***************************************************************************)
LEMMA FramesParts ==
  FramesAssembled <=> TypeOK /\ Following /\ RingMatches /\ Counted
BY DEF FramesAssembled, Following, Counted

\* At first nothing was sent, assembled or read.
LEMMA FramesAtFirst == Init => FramesAssembled
<1> SUFFICES ASSUME Init PROVE FramesAssembled
  OBVIOUS
<1>1. /\ 0 \in Time /\ 0 \in Slot /\ 0 \in 0..DataBits /\ MaxFrames \in Nat
      /\ Idle \in Idle..(4 * FrameBits - 1)
  BY FrameSizes DEF Time, Slot, Idle
<1>2. Zero \in AnyByte
  BY DEF Zero, AnyByte
<1>3. TypeOK
  <2>1. [s \in Slot |-> Zero] \in [Slot -> AnyByte]
    BY <1>2
  <2>2. <<>> \in Seq(AnyByte) /\ <<>> \in Seq(Byte)
    OBVIOUS
  <2>3. timer \in TimerType
    BY <1>1 DEF Init, TimerType
  <2>4. rx \in RxType
    BY <1>1, <1>2 DEF Init, RxType
  <2> QED BY <1>1, <1>2, <2>1, <2>2, <2>3, <2>4 DEF Init, TypeOK, TimerType, RxType
<1>4. Following
  <2>1. NothingDue
    BY DEF Init, NothingDue
  <2>2. Len(sent) = 0 /\ Len(assembled) = 0 /\ assembled = SubSeq(sent, 1, 0)
    BY DEF Init
  <2> QED BY <1>1, <2>1, <2>2 DEF Following, FollowsLine
<1>5. RingMatches
  <2>1. 0 % RX_BUFFER_SIZE = 0
    <3>1. 0 \in 0..(RX_BUFFER_SIZE - 1) /\ RX_BUFFER_SIZE \in Nat \ {0}
      OBVIOUS
    <3> QED BY <3>1, ModUnique
  <2> QED BY <2>1 DEF Init, RingMatches
<1>6. Counted
  BY DEF Init, Counted
<1> QED BY <1>3, <1>4, <1>5, <1>6, FramesParts

LEMMA FramesStep ==
  ASSUME FramesAssembled, [Next]_vars
  PROVE  FramesAssembled'
<1>1. TypeOK /\ Following /\ RingMatches /\ Counted
  BY FramesParts
<1>2. TypeOK' /\ Following' /\ RingMatches' /\ Counted'
  BY <1>1, TypeStep, FollowStep, RingStep
<1> QED BY <1>2 DEF FramesAssembled, Following, Counted

(***************************************************************************)
(* The receiver follows the line: at every edge and at every compare match *)
(* it has the bits that were sent so far, so that each frame becomes the   *)
(* byte that was sent, whatever bytes come before and after it, with any   *)
(* gap and any latency of the interrupts up to the bound; and the ring     *)
(* holds what was stored, in order.                                        *)
(***************************************************************************)
THEOREM EveryFrameAssembled == Spec => []FramesAssembled
<1>1. FramesAssembled /\ [Next]_vars => FramesAssembled'
  BY FramesStep
<1> QED BY <1>1, FramesAtFirst, PTL DEF Spec

\* The steps of the queue are those of the ring that are seen.
LEMMA QueueStep ==
  ASSUME FramesAssembled, FramesAssembled', [Next]_vars
  PROVE  [Queue!Next]_(Queue!qvars)
<1>0. /\ TypeOK /\ RingMatches
      /\ Queue!Waiting = Len(accepted) - Len(delivered)
  BY DEF FramesAssembled, Queue!Waiting
<1>1. CASE UNCHANGED history
  BY <1>1 DEF history, Queue!qvars
<1>2. ASSUME NEW byte \in AnyByte, Store(byte), UNCHANGED delivered
      PROVE  [Queue!Next]_(Queue!qvars)
  <2>1. /\ Len(accepted') + lost' <= MaxFrames
        /\ Len(accepted) \in Nat /\ Len(delivered) \in Nat /\ lost \in Nat
        /\ accepted \in Seq(AnyByte)
        /\ Len(accepted) - Len(delivered) \in 0..(RX_BUFFER_SIZE - 1)
    <3>1. /\ Len(accepted') + lost' = Len(assembled') /\ Len(sent') <= MaxFrames
          /\ Len(sent') - Len(assembled') \in {0, 1}
      BY DEF FramesAssembled
    <3>2. sent' \in Seq(Byte) /\ assembled' \in Seq(AnyByte)
      <4>1. TypeOK'
        BY DEF FramesAssembled
      <4> QED BY <4>1 DEF TypeOK
    <3>3. Len(sent') \in Nat /\ Len(assembled') \in Nat /\ MaxFrames \in Nat
      BY <3>2
    <3>4. Len(accepted') + lost' <= MaxFrames
      BY <3>1, <3>3
    <3>5. accepted \in Seq(AnyByte) /\ delivered \in Seq(AnyByte) /\ lost \in Nat
      BY <1>0 DEF TypeOK
    <3>6. Len(accepted) - Len(delivered) \in 0..(RX_BUFFER_SIZE - 1)
      BY <1>0 DEF RingMatches
    <3> QED BY <3>4, <3>5, <3>6
  <2>2. CASE AfterHead # rx_buffer_tail
    <3>1. accepted' = Append(accepted, byte) /\ lost' = lost /\ delivered' = delivered
      BY <1>2, <2>2 DEF Store
    <3>2. Len(accepted') = Len(accepted) + 1
      BY <2>1, <3>1
    <3>3. Len(accepted) + lost < MaxFrames
      BY <2>1, <3>1, <3>2
    <3>4. Queue!Put(byte)
      BY <1>0, <2>2, <3>1, <3>3, FullOrNot DEF Queue!Put
    <3> QED BY <3>4 DEF Queue!Next
  <2>3. CASE AfterHead = rx_buffer_tail
    <3>1. accepted' = accepted /\ lost' = lost + 1 /\ delivered' = delivered
      BY <1>2, <2>3 DEF Store
    <3>2. Len(accepted) - Len(delivered) = RX_BUFFER_SIZE - 1
      BY <1>0, <2>1, <2>3, FullOrNot
    <3>3. Len(accepted) + lost < MaxFrames
      BY <2>1, <3>1
    <3>4. Queue!Drop
      BY <1>0, <3>1, <3>2, <3>3 DEF Queue!Drop
    <3> QED BY <3>4 DEF Queue!Next
  <2> QED BY <2>2, <2>3
<1>3. CASE CaptureInterrupt \/ CompareInterrupt
  BY <1>0, <1>1, <1>2, <1>3, InterruptStores
<1>4. CASE MoveTail
  <2>1. Len(delivered) < Len(accepted) /\ out = accepted[Len(delivered) + 1]
    BY <1>0, <1>4, TakeKeepsRing
  <2>2. Len(accepted) - Len(delivered) > 0
    BY <1>0, <2>1 DEF TypeOK
  <2>3. Queue!Take
    BY <1>0, <1>4, <2>1, <2>2 DEF MoveTail, Queue!Take
  <2> QED BY <2>3 DEF Queue!Next
<1>5. CASE Tick \/ Available \/ AvailableAnswers \/ ReadByte \/ UNCHANGED vars
  BY <1>1, <1>5 DEF Tick, Available, AvailableAnswers, ReadByte, vars
<1> QED BY <1>3, <1>4, <1>5 DEF Next, ReadStep

LEMMA QueueBegins ==
  ASSUME Init
  PROVE  Queue!Init
BY DEF Init, Queue!Init

(***************************************************************************)
(* The ring with its two interrupts implements the bounded queue: the end  *)
(* of a frame is Put or Drop, moving the tail is Take, and every other     *)
(* step is invisible.                                                      *)
(***************************************************************************)
THEOREM ImplementsBoundedQueue == Spec => IsQueue
<1>1. Init => Queue!Init
  BY QueueBegins
<1>2. FramesAssembled /\ FramesAssembled' /\ [Next]_vars => [Queue!Next]_(Queue!qvars)
  BY QueueStep
<1> QED BY <1>1, <1>2, EveryFrameAssembled, PTL DEF Spec, IsQueue, Queue!Spec

-----------------------------------------------------------------------------
(***************************************************************************)
(* The ports together.                                                     *)
(***************************************************************************)

\* A step of the composed module is one of the receiver, or leaves it alone.
LEMMA ReceiverStep ==
  ASSUME [MCNext]_all
  PROVE  [Next]_vars
<1>1. CASE Next
  BY <1>1
<1>2. CASE UNCHANGED vars
  BY <1>2
<1> QED BY <1>1, <1>2 DEF MCNext, Receives, SoftSends, UsartSends, all

\* The receiver of port B in the composed module: every frame is put together,
\* and the ring stays a bounded queue, whatever the transmitters do.
THEOREM ReceiverInOrder == MCSpec => []FramesAssembled /\ IsQueue
<1>1. MCInit => FramesAssembled /\ Queue!Init
  BY FramesAtFirst, QueueBegins DEF MCInit
<1>2. FramesAssembled /\ [MCNext]_all => FramesAssembled'
  BY ReceiverStep, FramesStep
<1>3. FramesAssembled /\ FramesAssembled' /\ [MCNext]_all => [Queue!Next]_(Queue!qvars)
  BY ReceiverStep, QueueStep
<1> QED BY <1>1, <1>2, <1>3, PTL DEF MCSpec, IsQueue, Queue!Spec

=============================================================================
