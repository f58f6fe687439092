----------------------------- MODULE SoftSender -----------------------------
(***************************************************************************)
(* The transmitter of port B (libraries/AltSoftSerial/AltSoftSerial.cpp):  *)
(* the compare unit A of the timer sets the level of the pin at a time the *)
(* interrupt before has asked for; the interrupt that follows asks for the *)
(* next change of level, so that it may be late itself.                    *)
(*                                                                         *)
(* Time is counted in quarters of a bit and interrupts are served at most  *)
(* MaxLatency quarters late, as in AltSoftSerial.  The timer, and the      *)
(* receiver at the other end, which samples in the middle of the bits, are *)
(* external.  The 16 ticks after which a frame begins are less than a      *)
(* quarter.                                                                *)
(***************************************************************************)
EXTENDS Integers, Sequences, SequencesExt

CONSTANTS
  DataBits,        \* 8 in the code
  TX_BUFFER_SIZE,  \* 8 in the code
  Byte,            \* arguments of writeByte(), as their bits from the lowest
  TimerMod,        \* 2^16 timer ticks in the code
  MaxLatency,      \* see above
  MaxBytes         \* bound: bytes written

ticks_per_bit == 4
StopBit == ticks_per_bit * (DataBits + 1)   \* quarters before it
Idle == -1
Slot == 0..(TX_BUFFER_SIZE - 1)
Bits == [1..DataBits -> {0, 1}]
Zero == [k \in 1..DataBits |-> 0]
Broken == <<>>     \* a frame without a stop bit

\* The compare unit asks at least a bit ahead, and its times do not come round.
SenderAssumption ==
  /\ DataBits \in Nat \ {0} /\ TX_BUFFER_SIZE \in Nat /\ TX_BUFFER_SIZE >= 2
  /\ Byte \subseteq Bits
  /\ MaxLatency \in 0..(ticks_per_bit - 1)
  /\ TimerMod \in Nat /\ TimerMod > StopBit + MaxLatency

VARIABLES
  time,      \* TCNT1
  com, ocie, ocf, ocr,   \* COM1A, OCIE1A, OCF1A, OCR1A
  level,     \* of the pin
  tx_state, tx_byte, tx_bit,
  tx_buffer_head, tx_buffer_tail, tx_buffer,
  pc, b,     \* the sketch in writeByte(), flushOutput() or end(); b is the argument
  phase,     \* quarter of the frame the receiver is in, or Idle
  bits,      \* the bits it has sampled
  written,   \* history: the bytes writeByte() was called with
  received,  \* history: the bytes the receiver has put together
  rushed     \* history: a frame began, or met with no stop bit, too early

timer == <<com, ocie, ocf, ocr>>
tx == <<tx_state, tx_byte, tx_bit>>
receiver == <<phase, bits, received>>
ring == <<tx_buffer_head, tx_buffer_tail, tx_buffer>>
vars == <<time, timer, level, tx, ring, pc, b, receiver, written, rushed>>

Later(t, n) == (t + n) % TimerMod

Init ==
  /\ time = 0 /\ level = 1
  /\ com = "normal" /\ ocie = FALSE /\ ocf = FALSE /\ ocr = 0
  /\ tx_state = 0 /\ tx_byte = Zero /\ tx_bit = 0
  /\ tx_buffer_head = 0 /\ tx_buffer_tail = 0 /\ tx_buffer = [s \in Slot |-> Zero]
  /\ pc = "closed" /\ b = Zero /\ written = <<>>
  /\ phase = Idle /\ bits = Zero /\ received = <<>> /\ rushed = FALSE

-----------------------------------------------------------------------------
(***************************************************************************)
(* A quarter passes: the compare unit may change the level, the receiver   *)
(* waits for the start bit or samples.                                     *)
(***************************************************************************)
Waits == phase = Idle /\ level' = 1 /\ UNCHANGED receiver

Samples ==
  /\ ~(phase = Idle /\ level' = 1) /\ phase + 1 < StopBit + 2
  /\ phase' = phase + 1
  /\ bits' = [k \in 1..DataBits |->
                IF phase + 1 = ticks_per_bit * k + 2 THEN level' ELSE bits[k]]
  /\ UNCHANGED received

SamplesStopBit ==
  /\ phase + 1 = StopBit + 2
  /\ received' = Append(received, IF level' = 1 THEN bits ELSE Broken)
  /\ phase' = Idle /\ bits' = Zero

Receive == Waits \/ Samples \/ SamplesStopBit

Tick ==
  /\ tx_state # 0 \/ phase # Idle
  /\ ocf => time # Later(ocr, MaxLatency)
  /\ time' = Later(time, 1)
  /\ LET matches == ocie /\ time' = ocr
     IN /\ ocf' = (ocf \/ matches)
        /\ level' = IF ~matches THEN level ELSE IF com = "clear" THEN 0 ELSE 1
  /\ Receive
  /\ UNCHANGED <<com, ocie, ocr, tx, ring, pc, b, written, rushed>>

-----------------------------------------------------------------------------
(***************************************************************************)
(* ISR(COMPARE_A_INTERRUPT).                                               *)
(***************************************************************************)
BitsLeft == DataBits + 1 - tx_state

\* The n-th of the bits that are left is the next to differ from the level:
\* the interrupt steps over equal bits.
\* Mutant: it does not step over the last one.
NextChangeShort(n) ==
  /\ n \in 1..BitsLeft /\ (tx_byte[n] # tx_bit \/ n = BitsLeft)
  /\ \A m \in 1..(n - 1) : tx_byte[m] = tx_bit

NextChange(n) ==
  /\ n \in 1..BitsLeft /\ tx_byte[n] # tx_bit
  /\ \A m \in 1..(n - 1) : tx_byte[m] = tx_bit

\* byte >>= n
ShiftOut(byte, n) == [k \in 1..DataBits |-> IF k + n <= DataBits THEN byte[k + n] ELSE 0]

Ask(match, n) == /\ com' = match /\ ocf' = FALSE
                 /\ ocr' = Later(ocr, n * ticks_per_bit)

DataBit ==
  \E n \in 1..DataBits :
    /\ NextChange(n)
    /\ tx_state' = tx_state + n /\ tx_byte' = ShiftOut(tx_byte, n) /\ tx_bit' = 1 - tx_bit
    /\ Ask(IF tx_bit = 0 THEN "set" ELSE "clear", n)
    /\ UNCHANGED <<ocie, ring>>

LastBit ==
  /\ tx_state <= DataBits + 1
  /\ \A n \in 1..DataBits : ~NextChange(n)
  /\ tx_state' = DataBits + 2
  /\ Ask("set", DataBits + 2 - tx_state)
  /\ UNCHANGED <<tx_byte, tx_bit, ocie, ring>>

\* The stop bit has begun.
Finishes ==
  /\ tx_buffer_head = tx_buffer_tail
  /\ tx_state' = 0
  /\ com' = "normal" /\ ocie' = FALSE /\ ocf' = FALSE
  /\ UNCHANGED <<ocr, tx_byte, tx_bit, ring>>

TakesNext ==
  LET tail == (tx_buffer_tail + 1) % TX_BUFFER_SIZE
  IN /\ tx_buffer_head # tx_buffer_tail
     /\ tx_state' = 1 /\ tx_byte' = tx_buffer[tail] /\ tx_bit' = 0
     /\ tx_buffer_tail' = tail
     /\ Ask("clear", 1)
     /\ UNCHANGED <<ocie, tx_buffer_head, tx_buffer>>

FrameDone == tx_state = DataBits + 2 /\ (Finishes \/ TakesNext)

CompareInterrupt ==
  /\ ocf
  /\ DataBit \/ LastBit \/ FrameDone
  /\ UNCHANGED <<time, level, receiver, pc, b, written, rushed>>

-----------------------------------------------------------------------------
(***************************************************************************)
(* The sketch.                                                             *)
(***************************************************************************)
\* init(): the receiver is quiet.
begin ==
  /\ pc = "closed" /\ phase = Idle
  /\ level' = 1 /\ pc' = "open"
  /\ tx_state' = 0 /\ tx_buffer_head' = 0 /\ tx_buffer_tail' = 0
  /\ UNCHANGED <<time, timer, tx_byte, tx_bit, tx_buffer, b, receiver, written, rushed>>

writeByte ==
  /\ pc = "open" /\ Len(written) < MaxBytes
  /\ pc' = "full"
  /\ \E byte \in Byte : b' = byte /\ written' = Append(written, byte)
  /\ UNCHANGED <<time, timer, level, tx, ring, receiver, rushed>>

AfterHead == (tx_buffer_head + 1) % TX_BUFFER_SIZE

HasRoom ==
  /\ pc = "full" /\ tx_buffer_tail # AfterHead
  /\ pc' = "store"
  /\ UNCHANGED <<time, timer, level, tx, ring, b, receiver, written, rushed>>

\* With interrupts off, the byte waits in the ring;
StoresInRing ==
  /\ tx_state # 0
  /\ tx_buffer' = [tx_buffer EXCEPT ![AfterHead] = b]
  /\ tx_buffer_head' = AfterHead
  /\ UNCHANGED <<timer, tx, tx_buffer_tail, rushed>>

\* or it is sent at once.  Nothing is being sent although the stop bit is not
\* over: then the frame begins too early.
SendsAtOnce ==
  /\ tx_state = 0
  /\ tx_state' = 1 /\ tx_byte' = b /\ tx_bit' = 0
  /\ com' = "clear" /\ ocie' = TRUE /\ ocf' = FALSE /\ ocr' = Later(time, 1)
  /\ rushed' = (rushed \/ phase # Idle)
  /\ UNCHANGED ring

Stores ==
  /\ pc = "store"
  /\ pc' = "open" /\ b' = Zero
  /\ StoresInRing \/ SendsAtOnce
  /\ UNCHANGED <<time, level, receiver, written>>

\* Mutant: flushOutput() waits for the ring only.
FlushOutputRing ==
  /\ pc = "open" /\ tx_buffer_head = tx_buffer_tail
  /\ pc' = "flushed"
  /\ UNCHANGED <<time, timer, level, tx, ring, b, receiver, written, rushed>>

flushOutput ==
  /\ pc = "open" /\ tx_state = 0
  /\ pc' = "flushed"
  /\ UNCHANGED <<time, timer, level, tx, ring, b, receiver, written, rushed>>

GoesOn ==
  /\ pc = "flushed" /\ pc' = "open"
  /\ UNCHANGED <<time, timer, level, tx, ring, b, receiver, written, rushed>>

\* end() flushes and disables the interrupt.
end ==
  /\ pc = "flushed" /\ tx_state = 0
  /\ pc' = "closed" /\ ocie' = FALSE
  /\ UNCHANGED <<time, com, ocf, ocr, level, tx, ring, b, receiver, written, rushed>>

Writing == HasRoom \/ Stores

Next == Tick \/ CompareInterrupt \/ begin \/ writeByte \/ Writing \/ flushOutput \/ GoesOn \/ end

Spec == Init /\ [][Next]_vars

-----------------------------------------------------------------------------
\* Unless a byte is written while the stop bit of the one before is on the
\* line and nothing waits in the ring, the other end receives every byte once
\* and in order; what flushOutput() has waited for is on the line up to its
\* stop bit (ISR(COMPARE_A_INTERRUPT), writeByte, flushOutput; AltSoftSerial.cpp).
SentInOrder ==
  ~rushed =>
    /\ IsPrefix(received, written)
    /\ pc = "flushed" => \/ received = written
                         \/ /\ phase >= StopBit
                            /\ received = Front(written)

-----------------------------------------------------------------------------
(***************************************************************************)
(* Why it is so: an inductive invariant.                                   *)
(***************************************************************************)
TimerTypes ==
  /\ time \in 0..(TimerMod - 1) /\ ocr \in 0..(TimerMod - 1)
  /\ com \in {"normal", "clear", "set"} /\ ocie \in BOOLEAN /\ ocf \in BOOLEAN
TxTypes ==
  /\ tx_state \in 0..(DataBits + 2) /\ tx_byte \in Bits /\ tx_bit \in {0, 1}
  /\ tx_buffer_tail \in Slot /\ tx_buffer \in [Slot -> Bits]
SketchTypes ==
  /\ pc \in {"closed", "open", "full", "store", "flushed"} /\ b \in Bits
  /\ written \in Seq(Bits) /\ rushed \in BOOLEAN
ReceiverTypes ==
  /\ level \in {0, 1} /\ phase \in {Idle} \cup 0..(StopBit + 1)
  /\ bits \in Bits /\ received \in Seq(Bits \cup {Broken})
TypeOK == TimerTypes /\ TxTypes /\ SketchTypes /\ ReceiverTypes

\* How many bytes have been handed to the ring or the interrupt.
Stored == IF pc \in {"full", "store"} THEN Len(written) - 1 ELSE Len(written)

\* In the ring wait the last w bytes that were stored.
RingHolds(w) ==
  /\ w <= Stored
  /\ tx_buffer_head = (tx_buffer_tail + w) % TX_BUFFER_SIZE
  /\ \A k \in 1..w : tx_buffer[(tx_buffer_tail + k) % TX_BUFFER_SIZE] = written[Stored - w + k]
  /\ pc \in {"full", "store"} => Len(written) > 0 /\ b = written[Len(written)]
  /\ pc = "store" => w < TX_BUFFER_SIZE - 1
  /\ IF tx_state = 0 THEN w = 0 /\ ~ocie /\ ~ocf
     ELSE w < Stored /\ ocie /\ pc \notin {"closed", "flushed"}

\* The line in quarter q of a frame, or before it.
LineAt(byte, q) ==
  IF q < 0 THEN 1
  ELSE IF q < ticks_per_bit THEN 0
  ELSE IF q < StopBit THEN byte[q \div ticks_per_bit] ELSE 1

\* The bits left, the level, and the change of it that was asked for.
Edge == ticks_per_bit * (tx_state - 1)
BitsKept(byte) ==
  /\ tx_state = 1 => tx_bit = 0
  /\ tx_state \in 2..(DataBits + 1) => tx_bit = byte[tx_state - 1]
  /\ \A k \in 1..BitsLeft : tx_byte[k] = byte[tx_state - 1 + k]
  /\ com = IF tx_state = DataBits + 2 \/ tx_bit = 1 THEN "set" ELSE "clear"

\* The frame is in quarter q; the change is still to come, or waits for the
\* interrupt.
AskedFor(byte, q) ==
  /\ q < 0 => tx_state = 1
  /\ level = LineAt(byte, q)
  /\ ocf => q >= Edge /\ q <= Edge + MaxLatency /\ time = Later(ocr, q - Edge)
  /\ ~ocf => /\ q < Edge /\ Edge - q <= StopBit /\ ocr = Later(time, Edge - q)
             /\ \A i \in q..(Edge - 1) : LineAt(byte, i) = level

\* The receiver is where the frame is, the t-th one, or in the stop bit of the
\* one before.
Hears(t, q) ==
  /\ q < 0 => \/ phase = Idle /\ Len(received) = t - 1
              \/ phase >= StopBit /\ phase = StopBit + ticks_per_bit + q /\ Len(received) = t - 2
  /\ q \in 0..(StopBit + 1) => phase = q /\ Len(received) = t - 1
  /\ q > StopBit + 1 => phase = Idle /\ Len(received) = t

\* Nothing is sent: at most the stop bit of the last frame is to be heard.
HearsEnd(t) ==
  /\ level = 1
  /\ \/ phase = Idle /\ Len(received) = t
     \/ phase >= StopBit /\ Len(received) = t - 1

\* The receiver has heard what was written.
HeardRight ==
  /\ \A i \in 1..Len(received) : received[i] = written[i]
  /\ \A k \in 1..DataBits :
       ticks_per_bit * k + 2 <= phase => bits[k] = written[Len(received) + 1][k]

\* t bytes have been taken from the ring or the sketch.
Follows(t) ==
  /\ HeardRight
  /\ tx_state = 0 => HearsEnd(t)
  /\ tx_state # 0 =>
       /\ BitsKept(written[t])
       /\ \E q \in (-ticks_per_bit)..(StopBit + MaxLatency) : AskedFor(written[t], q) /\ Hears(t, q)

SenderInv ==
  /\ TypeOK
  /\ \E w \in Slot : RingHolds(w) /\ (~rushed => Follows(Stored - w))

=============================================================================
