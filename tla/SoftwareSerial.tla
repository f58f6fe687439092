--------------------------- MODULE SoftwareSerial ---------------------------
(***************************************************************************)
(* Library SoftwareSerial: ports of which one at a time listens, and one   *)
(* ring.  A change on a pin starts an interrupt that stays for the whole   *)
(* frame and samples it by counting; write() sends a frame with interrupts *)
(* off.                                                                    *)
(*                                                                         *)
(* Time is counted in thirds of a bit.  The table of delays, tuned for     *)
(* each baud rate, is modelled by what it is for: into the middle of the   *)
(* start bit, then a bit each.  An interrupt that waits is served   *)
(* within MaxLatency.  The lines and the other ends of them are external.  *)
(* A port is used after its begin(), which comes once, with a baud rate of *)
(* the table, and before anything is on the lines.                         *)
(***************************************************************************)
EXTENDS Integers, Sequences, FiniteSets, SequencesExt, FiniteSetsExt

CONSTANTS
  Port,             \* the objects
  Inverted,         \* those with _inverse_logic
  DataBits,         \* 8 in the code
  _SS_MAX_RX_BUFF,  \* 160 in the code, at least 2
  Byte,             \* bytes that come and go, of 0..2^DataBits - 1
  MaxLatency,       \* in thirds of a bit; less than 2
  MaxEvents         \* bound: frames that come, and calls other than read()

ticks_per_bit == 3
rx_delay_centering == 1
StopBit == ticks_per_bit * (DataBits + 1)
FrameEnd == StopBit + ticks_per_bit
HIGH == 1
LOW == 0
Idle == -1
Nobody == "nobody"
Slot == 0..(_SS_MAX_RX_BUFF - 1)

VARIABLES
  rx,        \* by port, the frame on its line: [phase, byte, whole]
  pcif,      \* how long a pin change has waited, or Idle
  pcmsk,     \* ports whose pin changes count
  recv,      \* the interrupt: [phase, d, whole]
  active_object,
  _receive_buffer, _receive_buffer_head, _receive_buffer_tail,
  _buffer_overflow,
  pc, d,     \* the sketch: "open", "read", "overflow" or "write"; d is what read() holds
  writing,   \* the frame write() sends: [port, byte, phase]
  tx,        \* by port, the level of the transmit pin
  far,       \* who receives it: [phase, byte]
  quiet,     \* ports whose transmit line has been idle
  begun,     \* history: ports after begin()
  events,    \* what the bound counts
  due,       \* history: bytes that came whole to who listens and were not taken yet
  waiting,   \* history: bytes stored and not read
  full,      \* history: how many waited when one was dropped
  sent,      \* history: bytes that are to arrive at the other end
  wrong      \* history: another byte was taken, or arrived

ring == <<_receive_buffer, _receive_buffer_head, _receive_buffer_tail, waiting>>
interrupt == <<pcif, recv, full, due, wrong>>
sender == <<writing, tx, far, quiet, sent>>
ports == <<pcmsk, active_object, begun>>
vars == <<ring, rx, interrupt, sender, ports, pc, d, _buffer_overflow, events>>

NoFrame == [phase |-> Idle, byte |-> 0, whole |-> FALSE]
NoReceive == [phase |-> Idle, d |-> 0, whole |-> FALSE]
NoWrite == [port |-> Nobody, byte |-> 0, phase |-> Idle]
NoFar == [phase |-> Idle, byte |-> 0]

\* The constructor leaves the pin high, which is a start bit in inverse logic.
Init ==
  /\ rx = [p \in Port |-> NoFrame] /\ pcif = Idle /\ pcmsk = {} /\ recv = NoReceive
  /\ active_object = Nobody
  /\ _receive_buffer = [i \in Slot |-> 0]
  /\ _receive_buffer_head = 0 /\ _receive_buffer_tail = 0
  /\ _buffer_overflow = [p \in Port |-> FALSE]
  /\ pc = "open" /\ d = 0 /\ writing = NoWrite
  /\ tx = [p \in Port |-> HIGH] /\ far = NoFar /\ quiet = Port \ Inverted
  /\ begun = {} /\ events = 0
  /\ due = <<>> /\ waiting = <<>> /\ full = {} /\ sent = <<>> /\ wrong = FALSE

-----------------------------------------------------------------------------
(***************************************************************************)
(* Frames: a start bit, the data bits, lowest first, and a stop bit.       *)
(***************************************************************************)
Logical(phase, byte) ==
  IF phase = Idle \/ phase >= StopBit THEN HIGH
  ELSE IF phase < ticks_per_bit THEN LOW
  ELSE (byte \div 2^(phase \div ticks_per_bit - 1)) % 2
Wire(p, level) == IF p \in Inverted THEN 1 - level ELSE level
rx_pin_read(f, p) == Wire(p, Logical(f[p].phase, f[p].byte))

\* The value of the data bit in whose middle a receiver is, or 0.
DataBit(phase, level) ==
  LET t == phase - rx_delay_centering
  IN IF t % ticks_per_bit = 0 /\ t \div ticks_per_bit \in 1..DataBits
     THEN level * 2^(t \div ticks_per_bit - 1) ELSE 0

Receiving == recv.phase # Idle

\* Mutant: write() does not turn them off.
InterruptsStayOn == FALSE

InterruptsOff == writing.phase # Idle /\ writing.phase < StopBit
Enabled == ~Receiving /\ ~InterruptsOff

Event == events < MaxEvents /\ events' = events + 1

\* A frame comes whole to who listens if its beginning finds him waiting, and
\* he neither turns away nor writes before his interrupt is there.
FrameStarts(p, b) ==
  /\ Event /\ rx[p].phase = Idle /\ p \in begun
  /\ rx' = [rx EXCEPT ![p] = [phase |-> 0, byte |-> b,
                              whole |-> p = active_object /\ p \in pcmsk /\ Enabled]]
  /\ pcif' = IF p \in pcmsk /\ pcif = Idle THEN 0 ELSE pcif
  /\ UNCHANGED <<recv, full, due, wrong, ring, sender, ports, pc, d, _buffer_overflow>>

Missed == [p \in Port |-> [rx[p] EXCEPT !.whole = @ /\ rx[p].phase >= StopBit]]

-----------------------------------------------------------------------------
(***************************************************************************)
(* The interrupt.                                                          *)
(***************************************************************************)
\* handle_interrupt(), and recv() to the start bit.
PinChangeInterrupt ==
  /\ pcif # Idle /\ Enabled
  /\ pcif' = Idle
  /\ recv' = IF /\ active_object # Nobody
                /\ rx_pin_read(rx, active_object)
                     = IF active_object \in Inverted THEN HIGH ELSE LOW
             THEN [phase |-> 0, d |-> 0, whole |-> rx[active_object].whole]
             ELSE recv
  /\ UNCHANGED <<full, due, wrong, rx, ring, sender, ports, pc, d, _buffer_overflow, events>>

\* The end of recv().
After(i) == (i + 1) % _SS_MAX_RX_BUFF
Store(byte) ==
  IF After(_receive_buffer_tail) # _receive_buffer_head
  THEN /\ _receive_buffer' = [_receive_buffer EXCEPT ![_receive_buffer_tail] = byte]
       /\ _receive_buffer_tail' = After(_receive_buffer_tail)
       /\ waiting' = Append(waiting, byte)
       /\ UNCHANGED <<_receive_buffer_head, _buffer_overflow, full>>
  ELSE /\ _buffer_overflow' = [_buffer_overflow EXCEPT ![active_object] = TRUE]
       /\ full' = full \cup {Len(waiting)}
       /\ UNCHANGED ring

\* A third of a bit in recv(), with the frames f on the lines.
Sampled(f) ==
  [recv EXCEPT !.phase = @ + 1,
               !.d = @ + DataBit(recv.phase + 1, rx_pin_read(f, active_object))]
Ends == Receiving /\ recv.phase + 1 = StopBit + rx_delay_centering
ByteTaken(f) ==
  IF active_object \in Inverted THEN 2^DataBits - 1 - Sampled(f).d ELSE Sampled(f).d
Receive(f) ==
  IF Ends THEN recv' = NoReceive /\ Store(ByteTaken(f))
  ELSE /\ recv' = IF Receiving THEN Sampled(f) ELSE recv
       /\ UNCHANGED <<ring, _buffer_overflow, full>>

-----------------------------------------------------------------------------
(***************************************************************************)
(* write(): sets the pin and counts.  In the stop bit, when interrupts are *)
(* on again, one of them holds it up.                                      *)
(***************************************************************************)
Send ==
  IF writing = NoWrite \/ Receiving THEN UNCHANGED <<writing, tx, quiet, pc>>
  ELSE LET w == [writing EXCEPT !.phase = @ + 1]
       IN /\ tx' = [tx EXCEPT ![w.port] = Wire(w.port, Logical(w.phase, w.byte))]
          /\ IF w.phase < FrameEnd THEN writing' = w /\ UNCHANGED <<quiet, pc>>
             ELSE writing' = NoWrite /\ quiet' = quiet \cup {w.port} /\ pc' = "open"

\* The other end samples in the middle of the bits.
FarEnds == far # NoFar /\ far.phase + 1 = StopBit + rx_delay_centering
FarReceives ==
  /\ far' = IF far = NoFar \/ FarEnds THEN NoFar
            ELSE [phase |-> far.phase + 1,
                  byte |-> far.byte + DataBit(far.phase + 1, Wire(writing.port, tx'[writing.port]))]
  /\ sent' = IF FarEnds THEN <<>> ELSE sent

-----------------------------------------------------------------------------
(***************************************************************************)
(* A third of a bit passes.                                                *)
(***************************************************************************)
Moved(f) ==
  IF f.phase = Idle THEN f
  ELSE IF f.phase + 1 = FrameEnd THEN NoFrame ELSE [f EXCEPT !.phase = @ + 1]

Tick ==
  LET f == [p \in Port |-> Moved(rx[p])]
      changed == \E p \in pcmsk : rx_pin_read(f, p) # rx_pin_read(rx, p)
      whole == {p \in Port : f[p].phase = StopBit /\ f[p].whole}
      taken == Ends /\ recv.whole
  IN /\ ~(Enabled /\ pcif >= MaxLatency)
     /\ rx' = f
     /\ pcif' = IF pcif # Idle THEN (IF Enabled THEN pcif + 1 ELSE pcif)
                ELSE IF changed THEN 0 ELSE Idle
     /\ Receive(f) /\ Send /\ FarReceives
     /\ due' = IF taken THEN <<>> ELSE due \o SetToSeq({f[p].byte : p \in whole})
     /\ wrong' = \/ wrong
                 \/ taken /\ <<ByteTaken(f)>> # due
                 \/ FarEnds /\ (<<far.byte>> # sent \/ tx'[writing.port] # Wire(writing.port, HIGH))
     /\ UNCHANGED <<ports, d, events>>

-----------------------------------------------------------------------------
(***************************************************************************)
(* The sketch, which stands still during an interrupt.                     *)
(***************************************************************************)
Open == pc = "open" /\ ~Receiving

write(p, b) ==
  /\ Open /\ p \in begun /\ Event
  /\ pc' = "write"
  /\ writing' = [port |-> p, byte |-> b, phase |-> 0]
  /\ tx' = [tx EXCEPT ![p] = Wire(p, LOW)]
  /\ IF p \in quiet THEN far' = [phase |-> 0, byte |-> 0] /\ sent' = <<b>>
     ELSE UNCHANGED <<far, sent>>
  /\ rx' = Missed
  /\ UNCHANGED <<quiet, interrupt, ring, ports, d, _buffer_overflow>>

isListening(p) == p = active_object
Emptied == /\ _receive_buffer_head' = 0 /\ _receive_buffer_tail' = 0 /\ waiting' = <<>>
           /\ UNCHANGED _receive_buffer

\* listen(), and begin() that ends with it.
Listens(p) ==
  /\ IF isListening(p) THEN UNCHANGED <<ring, rx, _buffer_overflow, active_object>>
     ELSE /\ _buffer_overflow' = [_buffer_overflow EXCEPT ![p] = FALSE]
          /\ Emptied /\ active_object' = p /\ rx' = Missed
  /\ UNCHANGED <<interrupt, sender, pc, d>>

listen(p) == Open /\ p \in begun /\ Event /\ Listens(p) /\ UNCHANGED <<pcmsk, begun>>
begin(p) == /\ Open /\ p \notin begun /\ events = 0 /\ begun' = begun \cup {p}
            /\ pcmsk' = pcmsk \cup {p} /\ Listens(p) /\ UNCHANGED events

end(p) ==
  /\ Open /\ p \in begun /\ Event
  /\ pcmsk' = pcmsk \ {p}
  /\ UNCHANGED <<ring, rx, interrupt, sender, active_object, begun, pc, d, _buffer_overflow>>

\* read(): the byte is taken, then the head moved.
ReadTakes ==
  /\ Open /\ active_object # Nobody
  /\ _receive_buffer_head # _receive_buffer_tail
  /\ d' = _receive_buffer[_receive_buffer_head] /\ pc' = "read"
  /\ UNCHANGED <<ring, rx, interrupt, sender, ports, _buffer_overflow, events>>

ReadMoves ==
  /\ pc = "read" /\ ~Receiving
  /\ _receive_buffer_head' = After(_receive_buffer_head)
  /\ waiting' = Tail(waiting) /\ pc' = "open" /\ d' = 0
  /\ UNCHANGED <<_receive_buffer, _receive_buffer_tail, rx, interrupt, sender, ports,
                 _buffer_overflow, events>>

flush ==
  /\ Open /\ active_object # Nobody /\ Event
  /\ Emptied
  /\ UNCHANGED <<rx, interrupt, sender, ports, pc, d, _buffer_overflow>>

\* overflow(): what the interrupt sets between the two steps is lost.
OverflowAnswers ==
  /\ Open /\ begun # {} /\ Event /\ pc' = "overflow"
  /\ UNCHANGED <<ring, rx, interrupt, sender, ports, d, _buffer_overflow>>
OverflowClears(p) ==
  /\ pc = "overflow" /\ ~Receiving /\ p \in begun /\ pc' = "open"
  /\ _buffer_overflow' = [_buffer_overflow EXCEPT ![p] = FALSE]
  /\ UNCHANGED <<ring, rx, interrupt, sender, ports, d, events>>

available(p) ==
  IF ~isListening(p) THEN 0
  ELSE (_receive_buffer_tail + _SS_MAX_RX_BUFF - _receive_buffer_head) % _SS_MAX_RX_BUFF
\* The ring is of char, which is signed.
Char(b) == IF b < 2^(DataBits - 1) THEN b ELSE b - 2^DataBits
peek(p) ==
  IF ~isListening(p) \/ _receive_buffer_head = _receive_buffer_tail THEN -1
  ELSE Char(_receive_buffer[_receive_buffer_head])

Next ==
  \/ Tick \/ PinChangeInterrupt
  \/ ReadTakes \/ ReadMoves \/ flush \/ OverflowAnswers
  \/ \E p \in Port : begin(p) \/ listen(p) \/ end(p) \/ OverflowClears(p)
  \/ \E p \in Port, b \in Byte : FrameStarts(p, b) \/ write(p, b)

Spec == Init /\ [][Next]_vars

-----------------------------------------------------------------------------
\* Who listens, and is not interrupted in turning to the line, gets each
\* byte; it waits in the ring until it is read, and only a full ring drops
\* one.  What is written arrives, whatever comes in meanwhile, but for an
\* inverse line that was never idle before (recv, read, available, peek,
\* write, listen; SoftwareSerial.cpp).
PortsAreExact ==
  LET n == Len(waiting)
  IN /\ ~wrong
     /\ due # <<>> => Receiving /\ recv.whole
     /\ sent # <<>> => pc = "write"
     /\ n < _SS_MAX_RX_BUFF /\ full \subseteq {_SS_MAX_RX_BUFF - 1}
     /\ \A i \in 1..n :
          waiting[i] = _receive_buffer[(_receive_buffer_head + i - 1) % _SS_MAX_RX_BUFF]
     /\ \A p \in Port : /\ available(p) = IF isListening(p) THEN n ELSE 0
                        /\ peek(p) = IF isListening(p) /\ n > 0 THEN Char(waiting[1]) ELSE -1
                        /\ _buffer_overflow[p] => full # {}
     /\ pc = "read" => n > 0 /\ d = waiting[1]

=============================================================================
