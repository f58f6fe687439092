---------------------------- MODULE AltSoftSerial ----------------------------
(***************************************************************************)
(* The receiver of port B (libraries/AltSoftSerial/AltSoftSerial.cpp):     *)
(* serial frames are put together from the times of the edges of the line. *)
(* The timer latches the time of an edge and raises the capture interrupt; *)
(* when a frame ends without an edge, the compare B interrupt ends it.     *)
(* Both put the byte into a ring that the sketch empties.                  *)
(*                                                                         *)
(* Time is counted in quarters of a bit.  An interrupt is served at most   *)
(* MaxLatency quarters after its event: nothing in the logger keeps        *)
(* interrupts off for longer than some ten microseconds, and a bit of port *)
(* B, which is never faster than 4800 baud, takes 208.  The line and the   *)
(* timer are external.  The port is opened once, on a quiet line.          *)
(***************************************************************************)
EXTENDS Integers, Sequences

CONSTANTS
  DataBits,        \* 8 in the code
  RX_BUFFER_SIZE,  \* 80 in the code
  Byte,            \* bytes that are sent, as their bits from the lowest
  TimerMod,        \* 2^16 timer ticks in the code
  MaxLatency,      \* see above
  MaxFrames        \* bound: frames sent

FrameBits == DataBits + 2
ticks_per_bit == 4
rx_stop_ticksLong == 4 * DataBits + 9      \* mutant: one bit more
rx_stop_ticks == 4 * DataBits + 5          \* cycles_per_bit * 37 / 4

ASSUME SoftSerialAssumption ==
  /\ DataBits \in Nat \ {0}
  /\ RX_BUFFER_SIZE \in 2..256
  /\ Byte \subseteq [1..DataBits -> {0, 1}]
  /\ TimerMod \in Nat /\ TimerMod > 2 * (4 * FrameBits + MaxLatency)
  /\ MaxLatency \in 0..2
  /\ MaxFrames \in Nat

Slot == 0..(RX_BUFFER_SIZE - 1)
Zero == [k \in 1..DataBits |-> 0]

VARIABLES
  time,        \* TCNT1
  phase,       \* quarter of the frame on the line, or Idle
  sent,        \* history: bytes whose frame has begun
  timer,       \* [risingEdge, icf, icr, enabledB, ocfB, compareB]: ICES1 and so on
  rx,          \* [state, byte, bit, target]: rx_state and so on
  rx_buffer_head, rx_buffer_tail, rx_buffer,
  pc, head, out,       \* the sketch in available() or read(), its locals
  assembled,           \* history: bytes the interrupts have put together
  accepted, delivered, lost   \* history, as in SerialQueue

line == <<time, phase, sent>>
ring == <<rx_buffer_head, rx_buffer_tail, rx_buffer>>
reader == <<pc, head, out>>
history == <<assembled, accepted, delivered, lost>>
vars == <<line, timer, rx, ring, reader, history>>

Idle == -1
Later(t, n) == (t + n) % TimerMod

\* The level of the line: start bit 0, data bits from the lowest, stop bit 1.
BitOf(b, k) == IF k = 0 THEN 0 ELSE IF k = DataBits + 1 THEN 1 ELSE b[k]
LevelOf(p, b) == IF p = Idle THEN 1 ELSE BitOf(b, p \div ticks_per_bit)

Level == IF sent = <<>> THEN 1 ELSE LevelOf(phase, sent[Len(sent)])

\* init()
Init ==
  /\ time = 0 /\ phase = Idle /\ sent = <<>>
  /\ timer = [risingEdge |-> FALSE, icf |-> FALSE, icr |-> 0,
              enabledB |-> FALSE, ocfB |-> FALSE, compareB |-> 0]
  /\ rx = [state |-> 0, byte |-> Zero, bit |-> 0, target |-> 0]
  /\ rx_buffer_head = 0 /\ rx_buffer_tail = 0 /\ rx_buffer = [s \in Slot |-> Zero]
  /\ pc = "idle" /\ head = 0 /\ out = Zero
  /\ assembled = <<>> /\ accepted = <<>> /\ delivered = <<>> /\ lost = 0

-----------------------------------------------------------------------------
(***************************************************************************)
(* A quarter of a bit passes on the line and in the timer.                 *)
(***************************************************************************)
InTime == /\ timer.icf => time # Later(timer.icr, MaxLatency)
          /\ timer.ocfB => time # Later(timer.compareB, MaxLatency)

LineMoves ==
  \/ /\ phase = Idle \/ phase = 4 * FrameBits - 1
     /\ Len(sent) < MaxFrames
     /\ \E b \in Byte : sent' = Append(sent, b)
     /\ phase' = 0
  \/ /\ phase \in {Idle, 4 * FrameBits - 1}
     /\ phase' = Idle /\ UNCHANGED sent
  \/ /\ phase \in 0..(4 * FrameBits - 2)
     /\ phase' = phase + 1 /\ UNCHANGED sent

\* On a quiet line time is not counted while the timer waits for an edge.
Quiet == phase = Idle /\ phase' = Idle /\ ~timer.enabledB /\ ~timer.icf

Tick ==
  /\ InTime
  /\ LineMoves
  /\ ~Quiet
  /\ time' = Later(time, 1)
  /\ LET edge == Level # Level' /\ (Level' = 1 <=> timer.risingEdge)
     IN timer' = [timer EXCEPT
          !.icf = @ \/ edge,
          !.icr = IF edge THEN Later(time, 1) ELSE @,
          !.ocfB = @ \/ (timer.enabledB /\ Later(time, 1) = timer.compareB)]
  /\ UNCHANGED <<rx, ring, reader, history>>

-----------------------------------------------------------------------------
(***************************************************************************)
(* The byte is complete: it goes into the ring unless that is full.        *)
(***************************************************************************)
AfterHead == (rx_buffer_head + 1) % RX_BUFFER_SIZE

\* Mutant: without the full test.
StoreAlways(b) ==
  /\ assembled' = Append(assembled, b)
  /\ rx_buffer' = [rx_buffer EXCEPT ![AfterHead] = b]
  /\ rx_buffer_head' = AfterHead
  /\ accepted' = Append(accepted, b)
  /\ UNCHANGED lost

Store(b) ==
  /\ assembled' = Append(assembled, b)
  /\ IF AfterHead # rx_buffer_tail
     THEN /\ rx_buffer' = [rx_buffer EXCEPT ![AfterHead] = b]
          /\ rx_buffer_head' = AfterHead
          /\ accepted' = Append(accepted, b)
          /\ UNCHANGED lost
     ELSE /\ lost' = lost + 1
          /\ UNCHANGED <<rx_buffer, rx_buffer_head, accepted>>

\* n equal bits shifted in from above.
ShiftIn(byte, bit, n) == [k \in 1..DataBits |-> IF k + n <= DataBits THEN byte[k + n] ELSE bit]

\* offset = capture - target as a signed number.
Offset(a, b) == LET d == (a - b) % TimerMod
                IN IF d < TimerMod \div 2 THEN d ELSE d - TimerMod

\* The falling edge that begins a frame.
StartBit ==
  /\ timer' = [timer EXCEPT !.icf = FALSE, !.risingEdge = TRUE, !.ocfB = FALSE,
                            !.enabledB = TRUE,
                            !.compareB = Later(timer.icr, rx_stop_ticks)]
  /\ rx' = [rx EXCEPT !.bit = 1, !.state = 1,
                      !.target = Later(timer.icr, ticks_per_bit + ticks_per_bit \div 2)]
  /\ UNCHANGED <<ring, history>>

\* Any other edge: the bits since the last one have the level before it.
DataEdge ==
  LET bit == 1 - rx.bit                    \* rx_bit after it was toggled
      offset == Offset(timer.icr, rx.target)
      due == IF offset < 0 THEN 0 ELSE offset \div ticks_per_bit + 1
      n == IF due < DataBits + 1 - rx.state THEN due ELSE DataBits + 1 - rx.state
      byte == ShiftIn(rx.byte, bit, n)
  IN IF rx.state + n = DataBits + 1
     THEN /\ rx' = [rx EXCEPT !.byte = byte, !.bit = 0, !.state = 0]
          /\ timer' = [timer EXCEPT !.icf = FALSE, !.risingEdge = FALSE,
                                    !.enabledB = FALSE, !.ocfB = FALSE]
          /\ Store(byte)
          /\ UNCHANGED <<rx_buffer_tail, delivered>>
     ELSE /\ rx' = [rx EXCEPT !.byte = byte, !.bit = bit, !.state = @ + n,
                              !.target = Later(@, n * ticks_per_bit)]
          /\ timer' = [timer EXCEPT !.icf = FALSE, !.risingEdge = (bit = 1)]
          /\ UNCHANGED <<ring, history>>

\* In state 0 with rx_bit set, which a port that stays open never is: only the
\* direction is toggled.
StrayEdge ==
  /\ rx' = [rx EXCEPT !.bit = 0]
  /\ timer' = [timer EXCEPT !.icf = FALSE, !.risingEdge = FALSE]
  /\ UNCHANGED <<ring, history>>

CaptureInterrupt ==
  /\ timer.icf
  /\ IF rx.state # 0 THEN DataEdge ELSE IF rx.bit = 0 THEN StartBit ELSE StrayEdge
  /\ UNCHANGED <<line, reader>>

(***************************************************************************)
(* ISR(COMPARE_B_INTERRUPT): the bits that are left have the level of the  *)
(* line now.  The capture interrupt goes first if both are due.            *)
(***************************************************************************)
CompareInterrupt ==
  /\ timer.ocfB /\ ~timer.icf
  /\ timer' = [timer EXCEPT !.ocfB = FALSE, !.enabledB = FALSE, !.risingEdge = FALSE]
  /\ LET n == DataBits + 1 - rx.state
         byte == ShiftIn(rx.byte, 1 - rx.bit, n)
     IN /\ rx' = [rx EXCEPT !.byte = byte, !.bit = 0, !.state = 0]
        /\ Store(byte)
  /\ UNCHANGED <<line, rx_buffer_tail, reader, delivered>>

-----------------------------------------------------------------------------
(***************************************************************************)
(* testSerialB(): available(), and read() if the answer is not 0.          *)
(***************************************************************************)
Available ==
  /\ pc = "idle"
  /\ pc' = "available" /\ head' = rx_buffer_head
  /\ UNCHANGED <<line, timer, rx, ring, out, history>>

AvailableAnswers ==
  /\ pc = "available"
  /\ pc' = IF head = rx_buffer_tail THEN "idle" ELSE "read"
  /\ head' = 0
  /\ UNCHANGED <<line, timer, rx, ring, out, history>>

ReadByte ==
  /\ pc = "read"
  /\ IF rx_buffer_head = rx_buffer_tail
     THEN pc' = "idle" /\ UNCHANGED out
     ELSE /\ out' = rx_buffer[(rx_buffer_tail + 1) % RX_BUFFER_SIZE]
          /\ pc' = "tail"
  /\ UNCHANGED <<line, timer, rx, ring, head, history>>

MoveTail ==
  /\ pc = "tail"
  /\ pc' = "idle"
  /\ rx_buffer_tail' = (rx_buffer_tail + 1) % RX_BUFFER_SIZE
  /\ delivered' = Append(delivered, out) /\ out' = Zero
  /\ UNCHANGED <<line, timer, rx, rx_buffer_head, rx_buffer, head,
                 assembled, accepted, lost>>

ReadStep == Available \/ AvailableAnswers \/ ReadByte \/ MoveTail

Next == Tick \/ CaptureInterrupt \/ CompareInterrupt \/ ReadStep

(***************************************************************************)
(* Time passes, interrupts are served and loop() polls.                    *)
(***************************************************************************)
Spec == /\ Init /\ [][Next]_vars
        /\ WF_vars(Tick) /\ WF_vars(CaptureInterrupt) /\ WF_vars(CompareInterrupt)
        /\ WF_vars(ReadStep)

-----------------------------------------------------------------------------
(***************************************************************************)
(* Types.                                                                  *)
(***************************************************************************)
Time == 0..(TimerMod - 1)
AnyByte == [1..DataBits -> {0, 1}]

TypeOK ==
  /\ time \in Time /\ phase \in Idle..(4 * FrameBits - 1) /\ sent \in Seq(Byte)
  /\ timer \in [risingEdge : BOOLEAN, icf : BOOLEAN, icr : Time,
                enabledB : BOOLEAN, ocfB : BOOLEAN, compareB : Time]
  /\ rx \in [state : 0..DataBits, byte : AnyByte, bit : {0, 1}, target : Time]
  /\ rx_buffer_head \in Slot /\ rx_buffer_tail \in Slot
  /\ rx_buffer \in [Slot -> AnyByte]
  /\ pc \in {"idle", "available", "read", "tail"} /\ head \in Slot /\ out \in AnyByte
  /\ assembled \in Seq(AnyByte) /\ accepted \in Seq(AnyByte)
  /\ delivered \in Seq(AnyByte) /\ lost \in Nat

(***************************************************************************)
(* How the receiver follows the frame on the line.  At(k) is the timer at  *)
(* quarter k of that frame.                                                *)
(***************************************************************************)
At(k) == (time - phase + k) % TimerMod
Current == sent[Len(sent)]

\* Nothing is due: no frame is on the line, or only the rest of its stop bit.
NothingDue ==
  /\ rx.state = 0 /\ rx.bit = 0
  /\ ~timer.icf /\ ~timer.ocfB /\ ~timer.enabledB /\ ~timer.risingEdge
  /\ phase = Idle \/ phase >= 4 * (DataBits + 1)
  /\ Len(sent) = Len(assembled)

\* The start bit has begun and its interrupt is due.
StartDue ==
  /\ rx.state = 0 /\ rx.bit = 0
  /\ timer.icf /\ timer.icr = At(0)
  /\ ~timer.ocfB /\ ~timer.enabledB /\ ~timer.risingEdge
  /\ phase \in 0..MaxLatency
  /\ Len(sent) = Len(assembled) + 1

\* The bits before rx.state are in the byte, the ones from there to the last edge
\* that is not served, or to now, have the level after the last one that was.
EdgePends ==
  \E j \in rx.state..(DataBits + 1) :
    /\ timer.icr = At(4 * j) /\ phase \in (4 * j)..(4 * j + MaxLatency)
    /\ BitOf(Current, j) = rx.bit
    /\ \A i \in rx.state..(j - 1) : BitOf(Current, i) = 1 - rx.bit

LevelHolds ==
  /\ \A i \in rx.state..(phase \div 4) : BitOf(Current, i) = 1 - rx.bit
  /\ phase \div 4 >= rx.state \/ (rx.state = 1 /\ rx.bit = 1 /\ phase \div 4 = 0)

BitsDue ==
  /\ rx.state > 0 /\ rx.target = At(4 * rx.state + 2)
  /\ \A k \in 1..(rx.state - 1) : rx.byte[DataBits + 1 - rx.state + k] = Current[k]
  /\ timer.enabledB /\ timer.compareB = At(rx_stop_ticks)
  /\ timer.risingEdge <=> rx.bit = 1
  /\ phase \in 0..(rx_stop_ticks + MaxLatency)
  /\ timer.ocfB <=> phase >= rx_stop_ticks
  /\ Len(sent) = Len(assembled) + 1
  /\ IF timer.icf THEN EdgePends ELSE LevelHolds

FollowsLine == NothingDue \/ StartDue \/ BitsDue

\* The slots between the two indices hold what waits, and the sketch has the
\* oldest of it in its hand.
RingMatches ==
  /\ Len(accepted) - Len(delivered) \in 0..(RX_BUFFER_SIZE - 1)
  /\ rx_buffer_head = Len(accepted) % RX_BUFFER_SIZE
  /\ rx_buffer_tail = Len(delivered) % RX_BUFFER_SIZE
  /\ \A k \in (Len(delivered) + 1)..Len(accepted) :
       rx_buffer[k % RX_BUFFER_SIZE] = accepted[k]
  /\ pc = "tail" => /\ Len(delivered) < Len(accepted)
                    /\ out = accepted[Len(delivered) + 1]

(***************************************************************************)
(* Whatever bytes come, however close, and whichever of the two interrupts *)
(* ends a frame: every frame gives one byte, the one that was sent, before *)
(* the frame after the next begins, although the interrupts are late; and  *)
(* every byte is queued or counted as lost.                                *)
(***************************************************************************)
FramesAssembled ==
  /\ TypeOK /\ FollowsLine /\ RingMatches
  /\ Len(sent) - Len(assembled) \in {0, 1} /\ Len(sent) <= MaxFrames
  /\ assembled = SubSeq(sent, 1, Len(assembled))
  /\ Len(accepted) + lost = Len(assembled)

(***************************************************************************)
(* The ring with its two interrupts behaves as the bounded queue of        *)
(* SerialQueue does: first in first out, and loss only when full.          *)
(***************************************************************************)
Queue == INSTANCE SerialQueue
           WITH Char <- AnyByte, Capacity <- RX_BUFFER_SIZE - 1, MaxChars <- MaxFrames

IsQueue == Queue!Spec

(***************************************************************************)
(* The last frame before a pause is completed, too, and read: none waits   *)
(* for the next edge.                                                      *)
(***************************************************************************)
EveryFrameIsHandled ==
  \A k \in 1..MaxFrames :
    Len(sent) >= k ~> Len(assembled) >= k /\ Len(delivered) + lost >= k

=============================================================================
