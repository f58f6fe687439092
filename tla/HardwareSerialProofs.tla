------------------------ MODULE HardwareSerialProofs ------------------------
(***************************************************************************)
(* RingInv is an invariant of HardwareSerial for every size of the ring,   *)
(* every width of the ninth bit array, every FIFO depth and every number   *)
(* of characters; with it the receiver delivers in order and refines the   *)
(* bounded queue.                                                          *)
(***************************************************************************)
EXTENDS HardwareSerial, RingLemmas

USE SerialAssumption

\* The positions, the counters and the bits have the types the steps need.
LEMMA Positions ==
  /\ RxSize \in Nat \ {0} /\ RxSize > 1
  /\ \A n \in Nat : n % RxSize \in Position
  /\ \A p \in Position : getIndex(p) \in 0..getIndex(RxSize - 1)
                         /\ getOffset(p) \in 0..(BitsPerByte - 1)
<1>1. RxSize \in Nat \ {0} /\ RxSize > 1
  OBVIOUS
<1>2. \A n \in Nat : n % RxSize \in Position
  BY <1>1, ModRange DEF Position
<1>3. ASSUME NEW p \in Position
      PROVE  getIndex(p) \in 0..getIndex(RxSize - 1)
             /\ getOffset(p) \in 0..(BitsPerByte - 1)
  <2>1. p \in Nat /\ RxSize - 1 \in Nat /\ p <= RxSize - 1
    BY <1>1 DEF Position
  <2>2. p \div BitsPerByte \in Nat /\ (RxSize - 1) \div BitsPerByte \in Nat
    BY <2>1, DivRange
  <2>3. p \div BitsPerByte <= (RxSize - 1) \div BitsPerByte
    BY <2>1, DivMono
  <2>4. p % BitsPerByte \in 0..(BitsPerByte - 1)
    BY <2>1, ModRange
  <2> QED BY <2>2, <2>3, <2>4 DEF getIndex, getOffset
<1> QED BY <1>1, <1>2, <1>3

\* Writing the ninth bit at rx_head sets the bit of that position and of no other.
LEMMA NinthBitWritten ==
  ASSUME TypeOK, NEW ninth \in Bit, WriteNinthBit(ninth)
  PROVE  /\ nrx_buffer' \in [0..getIndex(RxSize - 1) -> SUBSET (0..(BitsPerByte - 1))]
         /\ \A p \in Position :
              NinthBit(p)' = IF p = rx_head THEN ninth ELSE NinthBit(p)
<1> DEFINE i == getIndex(rx_head)
           o == getOffset(rx_head)
<1>1. rx_head \in Position /\ i \in 0..getIndex(RxSize - 1) /\ o \in 0..(BitsPerByte - 1)
  BY Positions DEF TypeOK
<1>2. nrx_buffer \in [0..getIndex(RxSize - 1) -> SUBSET (0..(BitsPerByte - 1))]
  BY DEF TypeOK
<1>3. nrx_buffer' = [nrx_buffer EXCEPT
                       ![i] = IF ninth = 1 THEN @ \cup {o} ELSE @ \ {o}]
  BY DEF WriteNinthBit
<1>4. ASSUME NEW p \in Position, p # rx_head
      PROVE  getIndex(p) # i \/ getOffset(p) # o
  <2>1. p \in Nat /\ rx_head \in Nat /\ BitsPerByte \in Nat \ {0}
    BY <1>1 DEF Position
  <2>2. ~(p % BitsPerByte = rx_head % BitsPerByte
          /\ p \div BitsPerByte = rx_head \div BitsPerByte)
    BY <2>1, <1>4, DivModInj
  <2> QED BY <2>2 DEF getIndex, getOffset
<1>5. nrx_buffer' \in [0..getIndex(RxSize - 1) -> SUBSET (0..(BitsPerByte - 1))]
  BY <1>1, <1>2, <1>3
<1>6. ASSUME NEW p \in Position
      PROVE  NinthBit(p)' = IF p = rx_head THEN ninth ELSE NinthBit(p)
  <2> HIDE DEF i, o
  <2>0. NinthBit(p) = IF getOffset(p) \in nrx_buffer[getIndex(p)] THEN 1 ELSE 0
    BY DEF NinthBit
  <2>9. NinthBit(p)' = IF getOffset(p) \in nrx_buffer'[getIndex(p)] THEN 1 ELSE 0
    BY DEF NinthBit, getIndex, getOffset
  <2>1. getIndex(p) \in 0..getIndex(RxSize - 1)
    BY Positions
  <2>2. CASE p = rx_head
    <3>1. getIndex(p) = i /\ getOffset(p) = o
      BY <2>2 DEF i, o
    <3>2. nrx_buffer'[i] = IF ninth = 1 THEN nrx_buffer[i] \cup {o} ELSE nrx_buffer[i] \ {o}
      BY <1>1, <1>2, <1>3
    <3>3. ninth = IF o \in nrx_buffer'[i] THEN 1 ELSE 0
      BY <3>2 DEF Bit
    <3> QED BY <2>2, <2>9, <3>1, <3>3
  <2>3. CASE p # rx_head
    <3>1. (getOffset(p) \in nrx_buffer'[getIndex(p)])
            <=> (getOffset(p) \in nrx_buffer[getIndex(p)])
      BY <1>1, <1>2, <1>3, <1>4, <2>1, <2>3
    <3> QED BY <2>0, <2>3, <2>9, <3>1
  <2> QED BY <2>2, <2>3
<1> QED BY <1>5, <1>6

\* The state of the ring and of the histories, which most steps leave alone.
ringState == <<rx_buffer, nrx_buffer, rx_head, rx_tail, accepted, delivered>>

\* Steps that leave the ring, the histories and the mode alone keep what the
\* invariant says of them.
LEMMA RingUntouched ==
  ASSUME InOrder, IndicesCount, SlotsHoldWaiting,
         UNCHANGED ringState, UNCHANGED nineBitMode
  PROVE  InOrder' /\ IndicesCount' /\ SlotsHoldWaiting'
BY DEF InOrder, IndicesCount, SlotsHoldWaiting, ringState, Waiting, SlotOf,
       NinthBit, getIndex, getOffset

\* The invariant holds initially: the ring is empty.
LEMMA RingInit == Init => RingInv
<1> SUFFICES ASSUME Init PROVE RingInv
  OBVIOUS
<1>1. TypeOK
  <2>1. 0 \in Position
    BY Positions DEF Position
  <2>2. fifo \in Seq(Frame) /\ accepted \in Seq(Char) /\ delivered \in Seq(Char)
    BY DEF Init
  <2>3. c \in Char
    BY DEF Init, NoChar, Char, Bit
  <2>4. nrx_buffer \in [0..getIndex(RxSize - 1) -> SUBSET (0..(BitsPerByte - 1))]
    BY DEF Init
  <2> QED BY <2>1, <2>2, <2>3, <2>4 DEF Init, TypeOK
<1>2. Waiting = 0 /\ Len(accepted) = 0 /\ Len(delivered) = 0 /\ Len(fifo) = 0
  BY DEF Init, Waiting
<1>3. InOrder
  BY <1>2, Positions DEF InOrder
<1>4. IndicesCount
  <2>1. (RxSize * 0 + 0) % RxSize = 0
    BY Positions, ModUnique
  <2>2. RxSize * 0 + 0 = 0
    BY Positions
  <2> QED BY <1>2, <2>1, <2>2 DEF Init, IndicesCount
<1>5. SlotsHoldWaiting
  BY <1>2 DEF SlotsHoldWaiting
<1>6. LocalIsNext /\ ModeIsKept /\ PromiseHolds
  BY <1>2 DEF Init, LocalIsNext, ModeIsKept, PromiseHolds
<1> QED BY <1>1, <1>3, <1>4, <1>5, <1>6 DEF RingInv

\* The type invariant is kept by every step.
LEMMA TypeStep == TypeOK /\ [Next]_vars => TypeOK'
<1> SUFFICES ASSUME TypeOK, [Next]_vars PROVE TypeOK'
  OBVIOUS
<1> USE DEF TypeOK
<1>1. CASE FrameArrives
  <2>1. fifo' \in Seq(Frame)
    BY <1>1 DEF FrameArrives
  <2> QED BY <1>1, <2>1 DEF FrameArrives, ring, port, program, history
<1>2. CASE ReceiveInterrupt
  <2>1. Head(fifo) \in Frame /\ Tail(fifo) \in Seq(Frame)
    BY <1>2 DEF ReceiveInterrupt
  <2>2. ReceivedChar \in Char
    BY <2>1 DEF ReceivedChar, Frame, Char
  <2>3. CASE Head(fifo).parityError
    BY <1>2, <2>1, <2>3 DEF ReceiveInterrupt, ring, port, program, history
  <2>4. CASE StoreChar(ReceivedChar)
    <3>1. nrx_buffer' \in [0..getIndex(RxSize - 1) -> SUBSET (0..(BitsPerByte - 1))]
      <4>1. ReceivedChar.ninth \in Bit /\ WriteNinthBit(ReceivedChar.ninth)
        BY <2>2, <2>4 DEF StoreChar, Char
      <4> QED BY <4>1, NinthBitWritten
    <3>2. rx_head' \in Position
      <4>1. rx_head + 1 \in Nat
        BY DEF Position
      <4> QED BY <2>4, <4>1, Positions DEF StoreChar, AfterHead
    <3>3. rx_buffer' \in [Position -> Byte]
      BY <2>2, <2>4 DEF StoreChar, Char
    <3>4. accepted' \in Seq(Char)
      BY <2>2, <2>4 DEF StoreChar
    <3> QED BY <1>2, <2>1, <2>4, <3>1, <3>2, <3>3, <3>4
            DEF ReceiveInterrupt, StoreChar, port, program
  <2>5. CASE DropChar
    BY <1>2, <2>1, <2>5 DEF ReceiveInterrupt, DropChar, ring, port, program
  <2> QED BY <1>2, <2>3, <2>4, <2>5 DEF ReceiveInterrupt
<1>3. CASE AvailableLoadsHead
  BY <1>3 DEF AvailableLoadsHead, ring, port, history
<1>4. CASE AvailableAnswers
  <2>1. head' \in Position
    BY <1>4, Positions DEF AvailableAnswers, Position
  <2>2. promised' \in BOOLEAN /\ pc' \in {"read", "idle"}
    BY <1>4 DEF AvailableAnswers
  <2> QED BY <1>4, <2>1, <2>2 DEF AvailableAnswers, ring, port, history
<1>5. CASE CallRead
  BY <1>5 DEF CallRead, ring, port, history
<1>6. CASE ReadFindsNothing
  BY <1>6 DEF ReadFindsNothing, ring, port, history
<1>7. CASE ReadByte
  BY <1>7 DEF ReadByte, ring, port, history, Char, Bit
<1>8. CASE ReadNinth
  <2>1. c' \in Char
    <3>1. (IF nineBitMode THEN NinthBit(rx_tail) ELSE 0) \in Bit
      BY DEF NinthBit, Bit
    <3> QED BY <1>8, <3>1 DEF ReadNinth, Char
  <2> QED BY <1>8, <2>1 DEF ReadNinth, ring, port, history
<1>9. CASE MoveTail
  <2>1. rx_tail + 1 \in Nat
    BY DEF Position
  <2>2. rx_tail' \in Position
    BY <1>9, <2>1, Positions DEF MoveTail
  <2>3. delivered' \in Seq(Char)
    BY <1>9 DEF MoveTail
  <2> QED BY <1>9, <2>2, <2>3 DEF MoveTail, port
<1>10. CASE ClearOverflow
  BY <1>10 DEF ClearOverflow, ring, port, history, NoChar, Char, Bit
<1>11. ASSUME NEW config \in BOOLEAN, begin(config)
       PROVE  TypeOK'
  BY <1>11 DEF begin, ring, program, history
<1>12. CASE end
  <2>1. enabled' \in BOOLEAN
    BY <1>12 DEF end
  <2>3. fifo' \in Seq(Frame)
    <3>1. fifo' = <<>>
      BY <1>12 DEF end
    <3> QED BY <3>1
  <2>2. rx_head' \in Position /\ accepted' \in Seq(Char)
    BY <1>12 DEF end
  <2> QED BY <1>12, <2>1, <2>2, <2>3 DEF end, program
<1>13. CASE UNCHANGED vars
  BY <1>13 DEF vars, ring, port, program, history
<1> QED BY <1>1, <1>2, <1>3, <1>4, <1>5, <1>6, <1>7, <1>8, <1>9, <1>10, <1>11,
           <1>12, <1>13 DEF Next, Poll, ReadStep

\* Storing a character: it goes into the slot of the next count, which no
\* waiting character occupies.
LEMMA StoreStep ==
  ASSUME RingInv, NEW ch \in Char, StoreChar(ch), UNCHANGED nineBitMode,
         ch.ninth = 1 => nineBitMode
  PROVE  InOrder' /\ IndicesCount' /\ SlotsHoldWaiting'
<1> DEFINE A == Len(accepted)
           D == Len(delivered)
<1>1. /\ TypeOK /\ A \in Nat /\ D \in Nat /\ A - D \in 0..(RxSize - 1)
      /\ rx_head = A % RxSize /\ rx_tail = D % RxSize
  BY DEF RingInv, TypeOK, InOrder, Waiting, IndicesCount
<1>0. RxSize \in Nat \ {0} /\ RxSize > 1
  BY Positions
<1>2. /\ accepted' = Append(accepted, ch) /\ delivered' = delivered
      /\ rx_tail' = rx_tail /\ rx_head' = (rx_head + 1) % RxSize
      /\ (rx_head + 1) % RxSize # rx_tail
      /\ rx_buffer' = [rx_buffer EXCEPT ![rx_head] = ch.byte]
      /\ WriteNinthBit(ch.ninth)
  BY DEF StoreChar, AfterHead
<1>3. /\ Len(accepted') = A + 1 /\ Len(delivered') = D
      /\ accepted'[A + 1] = ch
      /\ \A k \in 1..A : accepted'[k] = accepted[k]
  BY <1>1, <1>2 DEF TypeOK
<1>4. (rx_head + 1) % RxSize = (A + 1) % RxSize
  BY <1>1, Positions, ModSucc
<1>5. A + 1 - D # RxSize
  <2> SUFFICES ASSUME A + 1 = D + RxSize PROVE FALSE
    BY <1>1, Positions
  <2>1. (A + 1) % RxSize = (D + RxSize) % RxSize
    OBVIOUS
  <2>2. (D + RxSize) % RxSize = D % RxSize
    BY <1>0, <1>1, ModRound
  <2> QED BY <1>1, <1>2, <1>4, <2>1, <2>2
<1>6. InOrder'
  <2>1. A + 1 - D \in 0..(RxSize - 1)
    BY <1>0, <1>1, <1>5
  <2>2. \A k \in 1..D : delivered'[k] = accepted'[k]
    BY <1>1, <1>2, <1>3 DEF RingInv, InOrder
  <2> QED BY <1>3, <2>1, <2>2 DEF InOrder, Waiting
<1>7. IndicesCount'
  BY <1>1, <1>2, <1>3, <1>4 DEF IndicesCount
<1>8. ASSUME NEW k \in (D + 1)..(A + 1)
      PROVE  /\ rx_buffer'[SlotOf(k)] = accepted'[k].byte
             /\ NinthBit(SlotOf(k))' = accepted'[k].ninth
             /\ accepted'[k].ninth = 1 => nineBitMode
  <2>1. k \in Nat /\ k - 1 \in Nat /\ SlotOf(k) \in Position /\ rx_head \in Position
    <3>1. k \in Nat /\ k - 1 \in Nat
      BY <1>1
    <3> QED BY <1>1, <3>1, Positions DEF SlotOf, TypeOK
  <2>2. /\ rx_buffer \in [Position -> Byte]
        /\ ch.ninth \in Bit
    BY <1>1 DEF TypeOK, Char
  <2>3. NinthBit(SlotOf(k))' = IF SlotOf(k) = rx_head THEN ch.ninth
                               ELSE NinthBit(SlotOf(k))
    <3> DEFINE p == SlotOf(k)
    <3>1. p \in Position /\ SlotOf(k)' = p
      BY <2>1 DEF SlotOf
    <3>2. NinthBit(p)' = IF p = rx_head THEN ch.ninth ELSE NinthBit(p)
      BY <1>1, <1>2, <2>2, <3>1, NinthBitWritten
    <3> QED BY <3>2
  <2>4. CASE k = A + 1
    <3>1. SlotOf(k) = rx_head
      BY <1>1, <2>4 DEF SlotOf
    <3> QED BY <1>2, <1>3, <2>1, <2>2, <2>3, <2>4, <3>1
  <2>5. CASE k # A + 1
    <3>1. k \in (D + 1)..A
      BY <1>1, <2>1, <2>5
    <3>2. SlotOf(k) # rx_head
      <4>1. k - 1 <= A /\ A < (k - 1) + RxSize /\ k - 1 # A
        BY <1>0, <1>1, <3>1
      <4> QED BY <1>0, <1>1, <2>1, <4>1, ModInj DEF SlotOf
    <3>3. /\ rx_buffer[SlotOf(k)] = accepted[k].byte
          /\ NinthBit(SlotOf(k)) = accepted[k].ninth
          /\ accepted[k].ninth = 1 => nineBitMode
      BY <3>1 DEF RingInv, SlotsHoldWaiting
    <3>4. accepted'[k] = accepted[k]
      BY <1>1, <1>3, <3>1
    <3>5. rx_buffer'[SlotOf(k)] = rx_buffer[SlotOf(k)]
      BY <1>2, <2>1, <2>2, <3>2
    <3> QED BY <2>3, <3>2, <3>3, <3>4, <3>5
  <2> QED BY <2>4, <2>5
<1>9. SlotsHoldWaiting'
  <2>1. \A k \in (D + 1)..(A + 1) : SlotOf(k)' = SlotOf(k)
    BY DEF SlotOf
  <2> QED BY <1>3, <1>8, <2>1 DEF SlotsHoldWaiting
<1> QED BY <1>6, <1>7, <1>9

\* Moving the tail: the character read is the oldest that waits.
LEMMA TakeStep ==
  ASSUME RingInv, MoveTail
  PROVE  /\ InOrder' /\ IndicesCount' /\ SlotsHoldWaiting'
         /\ Waiting > 0 /\ c = accepted[Len(delivered) + 1]
<1> DEFINE A == Len(accepted)
           D == Len(delivered)
<1>1. /\ TypeOK /\ A \in Nat /\ D \in Nat /\ A - D \in 1..(RxSize - 1)
      /\ rx_tail = D % RxSize /\ rx_head = A % RxSize
      /\ c = accepted[D + 1]
  BY DEF RingInv, TypeOK, InOrder, Waiting, IndicesCount, LocalIsNext, MoveTail
<1>2. /\ delivered' = Append(delivered, c)
      /\ rx_tail' = (rx_tail + 1) % RxSize
      /\ UNCHANGED <<rx_buffer, nrx_buffer, rx_head, accepted, nineBitMode>>
  BY DEF MoveTail, port
<1>3. /\ Len(delivered') = D + 1 /\ delivered'[D + 1] = c
      /\ \A k \in 1..D : delivered'[k] = delivered[k]
  BY <1>1, <1>2 DEF TypeOK
<1>4. InOrder'
  <2>1. A - (D + 1) \in 0..(RxSize - 1)
    BY <1>1, Positions
  <2>2. \A k \in 1..(D + 1) : delivered'[k] = accepted[k]
    BY <1>1, <1>3 DEF RingInv, InOrder
  <2> QED BY <1>2, <1>3, <2>1, <2>2 DEF InOrder, Waiting
<1>5. IndicesCount'
  <2>1. (rx_tail + 1) % RxSize = (D + 1) % RxSize
    BY <1>1, Positions, ModSucc
  <2> QED BY <1>1, <1>2, <1>3, <2>1 DEF IndicesCount
<1>6. SlotsHoldWaiting'
  <2>1. \A k \in (D + 2)..A : k \in (D + 1)..A
    BY <1>1
  <2>2. \A k \in (D + 2)..A :
          /\ rx_buffer'[SlotOf(k)] = accepted'[k].byte
          /\ NinthBit(SlotOf(k))' = accepted'[k].ninth
          /\ accepted'[k].ninth = 1 => nineBitMode'
    BY <1>2, <2>1 DEF RingInv, SlotsHoldWaiting, NinthBit, getIndex, getOffset, SlotOf
  <2>3. D + 1 + 1 = D + 2
    BY <1>1
  <2> QED BY <1>2, <1>3, <2>2, <2>3 DEF SlotsHoldWaiting, SlotOf
<1> QED BY <1>1, <1>4, <1>5, <1>6 DEF Waiting

\* Discarding what waits: the histories agree and the ring is empty.
LEMMA DiscardStep ==
  ASSUME RingInv, end
  PROVE  InOrder' /\ IndicesCount' /\ SlotsHoldWaiting'
<1>1. /\ accepted' = delivered /\ delivered' = delivered
      /\ rx_head' = rx_tail /\ rx_tail' = rx_tail
  BY DEF end
<1>2. Len(delivered) \in Nat /\ rx_tail = Len(delivered) % RxSize
  BY DEF RingInv, TypeOK, IndicesCount
<1>3. Waiting' = 0
  BY <1>1, <1>2 DEF Waiting
<1>4. InOrder'
  BY <1>1, <1>3, Positions DEF InOrder
<1>5. IndicesCount'
  BY <1>1, <1>2 DEF IndicesCount
<1>6. SlotsHoldWaiting'
  BY <1>1, <1>2 DEF SlotsHoldWaiting
<1> QED BY <1>4, <1>5, <1>6

\* Loading the head and answering: an answer above 0 means a character waits.
LEMMA AnswerStep ==
  ASSUME RingInv, AvailableAnswers, available > 0
  PROVE  Waiting > 0
<1> SUFFICES ASSUME Waiting = 0 PROVE FALSE
  BY DEF RingInv, InOrder
<1>1. PICK h \in Len(delivered)..Len(accepted) : head = h % RxSize
  BY DEF RingInv, PromiseHolds, AvailableAnswers
<1>2. Len(delivered) \in Nat /\ Len(accepted) \in Nat
  BY DEF RingInv, TypeOK
<1>3. h = Len(delivered)
  BY <1>1, <1>2 DEF Waiting
<1>4. head = rx_tail /\ head \in Nat
  BY <1>1, <1>3 DEF RingInv, IndicesCount, TypeOK, Position
<1>5. available = RxSize % RxSize
  BY <1>4, Positions DEF available
<1>6. (0 + RxSize) % RxSize = 0 % RxSize
  BY Positions, ModRound
<1>7. (RxSize * 0 + 0) % RxSize = 0
  BY Positions, ModUnique
<1>8. 0 + RxSize = RxSize /\ RxSize * 0 + 0 = 0
  BY Positions
<1> QED BY <1>5, <1>6, <1>7, <1>8

\* Every step keeps the invariant: only StoreChar, MoveTail and end touch the
\* ring, and each of the others moves the sketch or the USART.
LEMMA RingStep == RingInv /\ [Next]_vars => RingInv'
<1> SUFFICES ASSUME RingInv, [Next]_vars PROVE RingInv'
  OBVIOUS
<1>0. TypeOK /\ TypeOK'
  BY TypeStep DEF RingInv
<1>t. Len(accepted) \in Nat /\ Len(delivered) \in Nat /\ Waiting \in Int
  BY <1>0 DEF TypeOK, Waiting
<1>u. ASSUME UNCHANGED ringState, UNCHANGED nineBitMode
      PROVE  InOrder' /\ IndicesCount' /\ SlotsHoldWaiting' /\ Waiting' = Waiting
  BY <1>u, RingUntouched DEF RingInv, ringState, Waiting
<1>1. CASE FrameArrives
  <2>1. UNCHANGED ringState /\ UNCHANGED <<port, program>>
    BY <1>1 DEF FrameArrives, ring, history, ringState
  <2>2. ModeIsKept'
    <3>1. PICK f \in Frame :
            /\ f.ninth = 1 => nineBitMode
            /\ fifo' = IF Len(fifo) < HwDepth THEN Append(fifo, f) ELSE fifo
      BY <1>1 DEF FrameArrives
    <3>2. fifo \in Seq(Frame) /\ enabled /\ enabled' = enabled
          /\ nineBitMode' = nineBitMode
      BY <1>0, <1>1 DEF TypeOK, FrameArrives, port
    <3>3. \A i \in 1..Len(fifo') : fifo'[i].ninth = 1 => nineBitMode
      BY <3>1, <3>2 DEF RingInv, ModeIsKept
    <3> QED BY <3>2, <3>3 DEF ModeIsKept
  <2> QED BY <1>0, <1>u, <2>1, <2>2
          DEF RingInv, LocalIsNext, PromiseHolds, ringState, port, program, Waiting
<1>2. CASE ReceiveInterrupt
  <2>1. /\ enabled /\ fifo # <<>> /\ fifo \in Seq(Frame) /\ fifo' = Tail(fifo)
        /\ UNCHANGED <<port, program>> /\ nineBitMode' = nineBitMode
        /\ enabled' = enabled
    BY <1>0, <1>2 DEF TypeOK, ReceiveInterrupt, port
  <2>2. ModeIsKept'
    <3>1. \A i \in 1..Len(fifo') : i + 1 \in 1..Len(fifo) /\ fifo'[i] = fifo[i + 1]
      BY <2>1
    <3> QED BY <2>1, <3>1 DEF RingInv, ModeIsKept
  <2>3. ReceivedChar \in Char /\ (ReceivedChar.ninth = 1 => nineBitMode)
    <3>1. Head(fifo) = fifo[1] /\ 1 \in 1..Len(fifo) /\ fifo[1] \in Frame
      BY <2>1
    <3> QED BY <3>1 DEF RingInv, ModeIsKept, ReceivedChar, Frame, Char
  <2>4. CASE UNCHANGED ringState
    BY <1>0, <1>u, <2>1, <2>2, <2>4
       DEF RingInv, LocalIsNext, PromiseHolds, ringState, program, Waiting
  <2>5. CASE StoreChar(ReceivedChar)
    <3>1. InOrder' /\ IndicesCount' /\ SlotsHoldWaiting'
      BY <2>1, <2>3, <2>5, StoreStep
    <3>2. /\ Len(accepted') = Len(accepted) + 1 /\ delivered' = delivered
          /\ \A k \in 1..Len(accepted) : accepted'[k] = accepted[k]
      BY <1>0, <2>3, <2>5 DEF StoreChar, TypeOK
    <3>3. LocalIsNext'
      BY <1>t, <2>1, <3>2 DEF RingInv, LocalIsNext, program, Waiting
    <3>4. PromiseHolds'
      BY <1>t, <2>1, <3>2 DEF RingInv, PromiseHolds, program, Waiting
    <3> QED BY <1>0, <2>2, <3>1, <3>3, <3>4 DEF RingInv
  <2> QED BY <1>2, <2>4, <2>5
          DEF ReceiveInterrupt, DropChar, ring, history, ringState
<1>3. CASE AvailableLoadsHead
  <2>1. UNCHANGED ringState /\ UNCHANGED <<fifo, port, promised, c>>
    BY <1>3 DEF AvailableLoadsHead, ring, history, ringState
  <2>2. PromiseHolds'
    <3>1. head' = Len(accepted) % RxSize /\ Len(accepted) \in Len(delivered)..Len(accepted)
      BY <1>3, <1>t DEF AvailableLoadsHead, RingInv, IndicesCount, InOrder, Waiting
    <3>2. ~promised
      BY <1>3 DEF RingInv, PromiseHolds, AvailableLoadsHead
    <3> QED BY <2>1, <3>1, <3>2 DEF PromiseHolds, ringState
  <2> QED BY <1>0, <1>3, <1>u, <2>1, <2>2
          DEF RingInv, AvailableLoadsHead, LocalIsNext, ModeIsKept, ringState, port,
              Waiting
<1>4. CASE AvailableAnswers
  <2>1. UNCHANGED ringState /\ UNCHANGED <<fifo, port, c>>
    BY <1>4 DEF AvailableAnswers, ring, history, ringState
  <2>2. PromiseHolds'
    <3>1. available > 0 => Waiting > 0
      BY <1>4, AnswerStep
    <3> QED BY <1>4, <1>u, <2>1, <3>1 DEF PromiseHolds, AvailableAnswers, port
  <2> QED BY <1>0, <1>4, <1>u, <2>1, <2>2
          DEF RingInv, AvailableAnswers, LocalIsNext, ModeIsKept, ringState, port,
              Waiting
<1>5. CASE CallRead
  <2>1. UNCHANGED ringState /\ UNCHANGED <<fifo, port, promised, c>>
    BY <1>5 DEF CallRead, ring, history, ringState
  <2> QED BY <1>0, <1>5, <1>u, <2>1
          DEF RingInv, CallRead, LocalIsNext, ModeIsKept, PromiseHolds, ringState,
              port, Waiting
<1>6. CASE ReadFindsNothing
  <2>1. UNCHANGED ringState /\ UNCHANGED <<fifo, port, c>>
    BY <1>6 DEF ReadFindsNothing, ring, history, ringState
  <2> QED BY <1>0, <1>6, <1>u, <2>1
          DEF RingInv, ReadFindsNothing, LocalIsNext, ModeIsKept, PromiseHolds,
              ringState, port, Waiting
<1>7. CASE ReadByte
  <2>1. UNCHANGED ringState /\ UNCHANGED <<fifo, port, promised>>
    BY <1>7 DEF ReadByte, ring, history, ringState
  <2>2. Waiting > 0
    <3>1. Len(accepted) # Len(delivered)
      BY <1>7 DEF ReadByte, RingInv, IndicesCount
    <3> QED BY <1>t, <3>1 DEF RingInv, InOrder, Waiting
  <2>3. rx_tail = SlotOf(Len(delivered) + 1)
        /\ Len(delivered) + 1 \in (Len(delivered) + 1)..Len(accepted)
    BY <1>t, <2>2 DEF RingInv, IndicesCount, SlotOf, Waiting
  <2>4. c' = [byte |-> accepted[Len(delivered) + 1].byte, ninth |-> 0]
    BY <1>7, <2>3 DEF ReadByte, RingInv, SlotsHoldWaiting
  <2>5. LocalIsNext'
    BY <1>7, <1>u, <2>1, <2>2, <2>4 DEF ReadByte, LocalIsNext, ringState, port
  <2> QED BY <1>0, <1>7, <1>u, <2>1, <2>5
          DEF RingInv, ReadByte, ModeIsKept, PromiseHolds, ringState, port, Waiting
<1>8. CASE ReadNinth
  <2>1. UNCHANGED ringState /\ UNCHANGED <<fifo, port, promised>>
    BY <1>8 DEF ReadNinth, ring, history, ringState
  <2>2. Waiting > 0
        /\ c = [byte |-> accepted[Len(delivered) + 1].byte, ninth |-> 0]
    BY <1>8 DEF ReadNinth, RingInv, LocalIsNext
  <2>3. rx_tail = SlotOf(Len(delivered) + 1)
        /\ Len(delivered) + 1 \in (Len(delivered) + 1)..Len(accepted)
    BY <1>t, <2>2 DEF RingInv, IndicesCount, SlotOf, Waiting
  <2>4. accepted[Len(delivered) + 1] \in Char
    BY <1>0, <1>t, <2>3 DEF TypeOK
  <2>5. c' = accepted[Len(delivered) + 1]
    <3>1. NinthBit(rx_tail) = accepted[Len(delivered) + 1].ninth
          /\ (accepted[Len(delivered) + 1].ninth = 1 => nineBitMode)
      BY <2>3 DEF RingInv, SlotsHoldWaiting
    <3>2. (IF nineBitMode THEN NinthBit(rx_tail) ELSE 0)
            = accepted[Len(delivered) + 1].ninth
      BY <2>4, <3>1 DEF Char, Bit
    <3>3. c' = [byte |-> c.byte, ninth |-> accepted[Len(delivered) + 1].ninth]
      BY <1>8, <3>2 DEF ReadNinth
    <3> QED BY <2>2, <2>4, <3>3 DEF Char
  <2>6. LocalIsNext'
    BY <1>8, <1>u, <2>1, <2>2, <2>5 DEF ReadNinth, LocalIsNext, ringState, port
  <2> QED BY <1>0, <1>8, <1>u, <2>1, <2>6
          DEF RingInv, ReadNinth, ModeIsKept, PromiseHolds, ringState, port, Waiting
<1>9. CASE MoveTail
  <2>1. InOrder' /\ IndicesCount' /\ SlotsHoldWaiting'
    BY <1>9, TakeStep
  <2>2. LocalIsNext' /\ PromiseHolds'
    BY <1>9 DEF MoveTail, LocalIsNext, PromiseHolds
  <2>3. ModeIsKept'
    <3>1. enabled \/ (Waiting = 0 /\ fifo = <<>>)
      BY DEF RingInv, ModeIsKept
    <3>2. enabled
      BY <1>9, <1>t, <3>1, TakeStep
    <3> QED BY <1>9, <3>2 DEF RingInv, ModeIsKept, MoveTail, port
  <2> QED BY <1>0, <2>1, <2>2, <2>3 DEF RingInv
<1>10. CASE ClearOverflow
  <2>1. UNCHANGED ringState /\ UNCHANGED <<fifo, port, promised>>
    BY <1>10 DEF ClearOverflow, ring, history, ringState
  <2> QED BY <1>0, <1>10, <1>u, <2>1
          DEF RingInv, ClearOverflow, LocalIsNext, ModeIsKept, PromiseHolds,
              ringState, port, Waiting
<1>11. ASSUME NEW config \in BOOLEAN, begin(config)
       PROVE  RingInv'
  <2>1. /\ UNCHANGED ringState /\ UNCHANGED <<fifo, program>>
        /\ ~enabled /\ enabled'
    BY <1>11 DEF begin, ring, history, ringState
  <2>2. Waiting = 0 /\ fifo = <<>>
    BY <2>1 DEF RingInv, ModeIsKept
  <2>3. InOrder' /\ IndicesCount'
    BY <2>1 DEF RingInv, InOrder, IndicesCount, ringState, Waiting
  <2>4. SlotsHoldWaiting'
    BY <1>t, <2>1, <2>2 DEF SlotsHoldWaiting, ringState, Waiting
  <2>5. ModeIsKept'
    <3>1. Len(fifo') = 0
      BY <2>1, <2>2
    <3> QED BY <2>1, <3>1 DEF ModeIsKept
  <2> QED BY <1>0, <2>1, <2>3, <2>4, <2>5
          DEF RingInv, LocalIsNext, PromiseHolds, ringState, program, Waiting
<1>12. CASE end
  <2>1. InOrder' /\ IndicesCount' /\ SlotsHoldWaiting'
    BY <1>12, DiscardStep
  <2>2. ModeIsKept'
    <3>1. fifo' = <<>> /\ accepted' = delivered /\ delivered' = delivered
      BY <1>12 DEF end
    <3>2. Len(fifo') = 0 /\ Waiting' = 0
      BY <1>t, <3>1 DEF Waiting
    <3> QED BY <3>1, <3>2 DEF ModeIsKept
  <2>3. pc = "idle" /\ pc' = "idle" /\ promised' = promised
    BY <1>12 DEF end, program
  <2>4. ~promised
    BY <2>3 DEF RingInv, PromiseHolds
  <2> QED BY <1>0, <2>1, <2>2, <2>3, <2>4 DEF RingInv, LocalIsNext, PromiseHolds
<1>13. CASE UNCHANGED vars
  <2>1. UNCHANGED ringState /\ UNCHANGED <<fifo, port, program>>
    BY <1>13 DEF vars, ring, history, ringState
  <2> QED BY <1>0, <1>u, <2>1
          DEF RingInv, LocalIsNext, ModeIsKept, PromiseHolds, ringState, port,
              program, Waiting
<1> QED BY <1>1, <1>2, <1>3, <1>4, <1>5, <1>6, <1>7, <1>8, <1>9, <1>10, <1>11,
           <1>12, <1>13 DEF Next, Poll, ReadStep

\* RingInv is an invariant of the receiver, for every value of the constants.
THEOREM RingInvariant == Spec => []RingInv
BY RingInit, RingStep, PTL DEF Spec

\* The sketch receives the stored characters in order, each with its own
\* ninth bit, and the ring never holds more than it can.
THEOREM DeliveryInOrder == Spec => []InOrder
<1>1. RingInv => InOrder
  BY DEF RingInv
<1> QED BY <1>1, RingInvariant, PTL

\* read() finds a character whenever available() said so.
THEOREM AvailableKept == Spec => []AvailableIsKept
<1>1. RingInv => AvailableIsKept
  <2> SUFFICES ASSUME RingInv, promised, pc = "read" PROVE rx_head # rx_tail
    BY DEF AvailableIsKept
  <2>1. RxSize \in Nat \ {0}
    BY Positions
  <2>2. Len(accepted) \in Nat /\ Len(delivered) \in Nat
    BY DEF RingInv, TypeOK
  <2>3. Waiting > 0 /\ Waiting \in 0..(RxSize - 1)
    BY DEF RingInv, PromiseHolds, InOrder
  <2>4. Len(delivered) <= Len(accepted) /\ Len(accepted) < Len(delivered) + RxSize
        /\ Len(delivered) # Len(accepted)
    BY <2>1, <2>2, <2>3 DEF Waiting
  <2>5. rx_head = Len(accepted) % RxSize /\ rx_tail = Len(delivered) % RxSize
    BY DEF RingInv, IndicesCount
  <2> QED BY <2>1, <2>2, <2>4, <2>5, ModInj
<1> QED BY <1>1, RingInvariant, PTL

\* A character is dropped only when RxSize - 1 others wait.
LEMMA DropOnlyIfFull ==
  ASSUME RingInv, DropChar
  PROVE  Waiting = RxSize - 1
<1> SUFFICES ASSUME Waiting < RxSize - 1 PROVE FALSE
  BY DEF RingInv, InOrder
<1>1. RxSize \in Nat \ {0}
  BY Positions
<1>2. /\ Len(accepted) \in Nat /\ Len(delivered) \in Nat
      /\ Waiting \in 0..(RxSize - 1)
  BY DEF RingInv, TypeOK, InOrder
<1>3. Len(delivered) <= Len(accepted) + 1 /\ Len(accepted) + 1 < Len(delivered) + RxSize
      /\ Len(delivered) # Len(accepted) + 1
  BY <1>1, <1>2 DEF Waiting
<1>4. (rx_head + 1) % RxSize = rx_tail
  BY DEF DropChar, AfterHead
<1>5. rx_head = Len(accepted) % RxSize /\ rx_tail = Len(delivered) % RxSize
  BY DEF RingInv, IndicesCount
<1>6. (Len(accepted) + 1) % RxSize = Len(delivered) % RxSize
  BY <1>1, <1>2, <1>4, <1>5, ModSucc
<1> DEFINE n == Len(accepted) + 1
           d == Len(delivered)
<1>7. n \in Nat /\ d \in Nat /\ d <= n /\ n < d + RxSize /\ d # n
      /\ d % RxSize = n % RxSize
  BY <1>2, <1>3, <1>6
<1> HIDE DEF n, d
<1> QED BY <1>1, <1>7, ModInj

\* The ring of the driver implements the bounded queue: the interrupt is Put
\* or Drop, moving the tail is Take, closing is Discard, and every other step
\* is invisible.
THEOREM ImplementsQueue == Spec => IsQueue
<1>1. Init => Queue!Init
  BY DEF Init, Queue!Init
<1>2. RingInv /\ [Next]_vars => [Queue!Next]_(Queue!qvars)
  <2> SUFFICES ASSUME RingInv, [Next]_vars PROVE [Queue!Next]_(Queue!qvars)
    OBVIOUS
  <2>0. Waiting = Queue!Waiting
    BY DEF Waiting, Queue!Waiting
  <2>1. ASSUME UNCHANGED <<accepted, delivered, lost>>
        PROVE  [Queue!Next]_(Queue!qvars)
    BY <2>1 DEF Queue!qvars
  <2>2. CASE ReceiveInterrupt
    <3>1. CASE UNCHANGED history
      BY <2>1, <3>1 DEF history
    <3>2. CASE Len(accepted) + lost < MaxChars /\ StoreChar(ReceivedChar)
      <4>1. ReceivedChar \in Char
        <5>1. Head(fifo) \in Frame
          BY <2>2 DEF ReceiveInterrupt, RingInv, TypeOK
        <5> QED BY <5>1 DEF ReceivedChar, Frame, Char
      <4>2. accepted' = Append(accepted, ReceivedChar) /\ UNCHANGED <<delivered, lost>>
        BY <3>2 DEF StoreChar
      <4>3. Waiting < RxSize - 1
        <5>1. ReceivedChar.ninth = 1 => nineBitMode
          <6>1. Head(fifo) = fifo[1] /\ 1 \in 1..Len(fifo)
            BY <2>2 DEF ReceiveInterrupt, RingInv, TypeOK
          <6> QED BY <6>1 DEF RingInv, ModeIsKept, ReceivedChar
        <5>2. nineBitMode' = nineBitMode
          BY <2>2 DEF ReceiveInterrupt, port
        <5>3. InOrder'
          BY <3>2, <4>1, <5>1, <5>2, StoreStep
        <5>4. /\ Len(accepted) \in Nat /\ Len(delivered) \in Nat
              /\ Len(accepted') = Len(accepted) + 1 /\ delivered' = delivered
          BY <4>1, <4>2 DEF RingInv, TypeOK
        <5>5. Waiting' \in 0..(RxSize - 1) /\ Waiting' = Waiting + 1
          BY <5>3, <5>4 DEF InOrder, Waiting
        <5>6. Waiting \in Int /\ RxSize \in Int
          BY <5>4, Positions DEF Waiting
        <5> QED BY <5>5, <5>6
      <4> QED BY <2>0, <3>2, <4>1, <4>2, <4>3 DEF Queue!Next, Queue!Put
    <3>3. CASE Len(accepted) + lost < MaxChars /\ DropChar
      <4>1. Waiting = RxSize - 1
        BY <3>3, DropOnlyIfFull
      <4> QED BY <2>0, <3>3, <4>1 DEF DropChar, Queue!Next, Queue!Drop
    <3> QED BY <2>2, <3>1, <3>2, <3>3 DEF ReceiveInterrupt
  <2>3. CASE MoveTail
    <3>1. Waiting > 0 /\ c = accepted[Len(delivered) + 1]
      BY <2>3, TakeStep
    <3> QED BY <2>0, <2>3, <3>1 DEF MoveTail, Queue!Next, Queue!Take
  <2>4. CASE end
    BY <2>4 DEF end, Queue!Next, Queue!Discard
  <2>5. ASSUME NEW config \in BOOLEAN, begin(config)
        PROVE  [Queue!Next]_(Queue!qvars)
    BY <2>1, <2>5 DEF begin, history
  <2>6. CASE FrameArrives \/ Poll \/ CallRead \/ ReadFindsNothing \/ ReadByte
             \/ ReadNinth \/ ClearOverflow \/ UNCHANGED vars
    BY <2>1, <2>6 DEF FrameArrives, Poll, AvailableLoadsHead, AvailableAnswers,
       CallRead, ReadFindsNothing, ReadByte, ReadNinth, ClearOverflow, vars, history
  <2> QED BY <2>2, <2>3, <2>4, <2>5, <2>6 DEF Next, ReadStep
<1> QED BY <1>1, <1>2, RingInvariant, PTL DEF Spec, IsQueue, Queue!Spec
=============================================================================
