---------------------------- MODULE UsartSender ----------------------------
(***************************************************************************)
(* The sending half of the USART driver (cores/oseam/HardwareSerial.cpp):  *)
(* write() puts characters into a ring, the interrupt "data register       *)
(* empty" moves them into UDR, flush() and end() wait.                     *)
(*                                                                         *)
(* The USART is external: a character moves from UDR into the shift        *)
(* register, and TXC is set when a frame ends with UDR empty.  Nothing     *)
(* else the interrupts of the logger do takes as long as a frame (0.3 ms   *)
(* at 38400 baud), so a pending interrupt is served, and write() gets from *)
(* moving the head to clearing TXC, before a frame that began meanwhile    *)
(* ends.  (If it did not, TXC would be cleared after the last frame, and   *)
(* flush() would wait for ever.)                                           *)
(***************************************************************************)
EXTENDS Integers, Sequences, SequencesExt

CONSTANTS
  SERIAL_TX_BUFFER_SIZE,  \* 64 in the build, at least 2
  Char,                   \* arguments of write()
  Modes,                  \* of begin(): 8 or 9 bits
  MaxChars                \* bound: characters written

Position == 0..(SERIAL_TX_BUFFER_SIZE - 1)
Empty == -1

VARIABLES
  tx_head, tx_tail, tx_buffer,
  ntx_buffer,    \* the ninth bits, by position; only write() changes them
  transmitting,
  nineBitMode,   \* _nineBitMode
  udrie, txen, txc, txb8, udr,  \* registers of the USART
  shift,         \* the frame on the line, or Empty
  young,         \* it began since write() moved the head
  pc, c,         \* the sketch in write(), flush() or end(); c is the argument
  written,       \* history: the characters write() was to send
  line           \* history: frames that have ended

ring == <<tx_head, tx_tail, tx_buffer, ntx_buffer>>
usart == <<txen, txc, txb8, udr, shift, young>>
history == <<written, line>>
vars == <<ring, transmitting, nineBitMode, udrie, usart, pc, c, history>>

Init ==
  /\ tx_head = 0 /\ tx_tail = 0
  /\ tx_buffer = [p \in Position |-> 0] /\ ntx_buffer = [p \in Position |-> 0]
  /\ transmitting = FALSE /\ nineBitMode = FALSE
  /\ udrie = FALSE /\ txen = FALSE /\ txc = FALSE /\ txb8 = 0
  /\ udr = Empty /\ shift = Empty /\ young = FALSE
  /\ pc = "closed" /\ c = 0
  /\ written = <<>> /\ line = <<>>

Clearing == pc \in {"enable", "mark", "clear"}
Pending == udrie /\ txen /\ udr = Empty

-----------------------------------------------------------------------------
(***************************************************************************)
(* The interrupt; and the USART.                                           *)
(***************************************************************************)
Load(char) ==
  IF shift = Empty
  THEN shift' = char /\ udr' = Empty /\ young' = Clearing
  ELSE udr' = char /\ UNCHANGED <<shift, young>>

\* Mutant: the ninth bit of the character before stays.
UdreInterruptKeepsBit ==
  /\ Pending
  /\ IF tx_head = tx_tail
     THEN udrie' = FALSE /\ UNCHANGED <<usart, ring>>
     ELSE /\ tx_tail' = (tx_tail + 1) % SERIAL_TX_BUFFER_SIZE
          /\ txb8' = IF ntx_buffer[tx_tail] = 1 THEN 1 ELSE txb8
          /\ Load(tx_buffer[tx_tail] + IF nineBitMode THEN 256 * txb8' ELSE 0)
          /\ UNCHANGED <<udrie, txen, txc, tx_head, tx_buffer, ntx_buffer>>
  /\ UNCHANGED <<transmitting, nineBitMode, pc, c, history>>

\* Mutant: with one character left the ring is taken for empty.
UdreInterruptLeavesOne ==
  /\ Pending
  /\ IF tx_head \in {tx_tail, (tx_tail + 1) % SERIAL_TX_BUFFER_SIZE}
     THEN udrie' = FALSE /\ UNCHANGED <<usart, ring>>
     ELSE /\ tx_tail' = (tx_tail + 1) % SERIAL_TX_BUFFER_SIZE
          /\ txb8' = ntx_buffer[tx_tail]
          /\ Load(tx_buffer[tx_tail] + IF nineBitMode THEN 256 * txb8' ELSE 0)
          /\ UNCHANGED <<udrie, txen, txc, tx_head, tx_buffer, ntx_buffer>>
  /\ UNCHANGED <<transmitting, nineBitMode, pc, c, history>>

UdreInterrupt ==
  /\ Pending
  /\ IF tx_head = tx_tail
     THEN udrie' = FALSE /\ UNCHANGED <<usart, ring>>
     ELSE /\ tx_tail' = (tx_tail + 1) % SERIAL_TX_BUFFER_SIZE
          /\ txb8' = ntx_buffer[tx_tail]
          /\ Load(tx_buffer[tx_tail] + IF nineBitMode THEN 256 * txb8' ELSE 0)
          /\ UNCHANGED <<udrie, txen, txc, tx_head, tx_buffer, ntx_buffer>>
  /\ UNCHANGED <<transmitting, nineBitMode, pc, c, history>>

\* A frame ends.  Disabled, the transmitter sends what it has in UDR.
FrameEnds ==
  /\ shift # Empty
  /\ Clearing => ~young
  /\ Pending => pc \in {"mark", "clear"}
  /\ line' = Append(line, shift)
  /\ shift' = udr /\ udr' = Empty
  /\ young' = (udr # Empty /\ Clearing)
  /\ txc' = (txc \/ udr = Empty)
  /\ UNCHANGED <<ring, transmitting, nineBitMode, udrie, txen, txb8, pc, c, written>>

-----------------------------------------------------------------------------
(***************************************************************************)
(* The sketch.  It does not get beyond one step while an interrupt is      *)
(* pending.                                                                *)
(***************************************************************************)
AfterHead == (tx_head + 1) % SERIAL_TX_BUFFER_SIZE

\* The line is quiet: begin() does not wait for what end() left in UDR.
begin ==
  /\ pc = "closed" /\ shift = Empty
  /\ \E mode \in Modes : nineBitMode' = (mode = 9)
  /\ txen' = TRUE /\ udrie' = FALSE
  /\ pc' = "open"
  /\ UNCHANGED <<ring, transmitting, txc, txb8, udr, shift, young, c, history>>

write ==
  /\ pc = "open" /\ Len(written) < MaxChars
  /\ \E char \in Char :
       /\ c' = char
       /\ written' = Append(written, IF nineBitMode THEN char ELSE char % 256)
  /\ pc' = "full"
  /\ UNCHANGED <<ring, transmitting, nineBitMode, udrie, usart, line>>

\* The wait for a place is over, and the character is put there.
WriteStores ==
  /\ pc = "full" /\ AfterHead # tx_tail /\ ~Pending
  /\ ntx_buffer' = IF nineBitMode THEN [ntx_buffer EXCEPT ![tx_head] = c \div 256] ELSE ntx_buffer
  /\ tx_buffer' = [tx_buffer EXCEPT ![tx_head] = c % 256]
  /\ pc' = "head"
  /\ UNCHANGED <<tx_head, tx_tail, transmitting, nineBitMode, udrie, usart, c, history>>

WriteMovesHead ==
  /\ pc = "head" /\ ~Pending
  /\ tx_head' = AfterHead /\ pc' = "enable"
  /\ UNCHANGED <<tx_tail, tx_buffer, ntx_buffer, transmitting, nineBitMode, udrie, usart, c, history>>

WriteEnables ==
  /\ pc = "enable" /\ ~Pending
  /\ udrie' = TRUE /\ pc' = "mark"
  /\ UNCHANGED <<ring, transmitting, nineBitMode, usart, c, history>>

WriteMarks ==
  /\ pc = "mark"
  /\ transmitting' = TRUE /\ pc' = "clear"
  /\ UNCHANGED <<ring, nineBitMode, udrie, usart, c, history>>

WriteClears ==
  /\ pc = "clear" /\ ~Pending
  /\ txc' = FALSE /\ pc' = "open" /\ young' = FALSE /\ c' = 0
  /\ UNCHANGED <<ring, transmitting, nineBitMode, udrie, txen, txb8, udr, shift, history>>

\* Mutant: flush() waits for the ring only.
FlushReturnsEarly ==
  /\ pc = "open" /\ ~Pending
  /\ ~transmitting \/ tx_head = tx_tail
  /\ transmitting' = FALSE /\ pc' = "flushed"
  /\ UNCHANGED <<ring, nineBitMode, udrie, usart, c, history>>

FlushReturns ==
  /\ pc = "open" /\ ~Pending
  /\ ~transmitting \/ txc
  /\ transmitting' = FALSE /\ pc' = "flushed"
  /\ UNCHANGED <<ring, nineBitMode, udrie, usart, c, history>>

GoesOn == /\ pc = "flushed" /\ pc' = "open"
          /\ UNCHANGED <<ring, transmitting, nineBitMode, udrie, usart, c, history>>

end ==
  /\ pc = "open" /\ ~Pending
  /\ tx_head = tx_tail
  /\ txen' = FALSE /\ udrie' = FALSE /\ pc' = "closed"
  /\ UNCHANGED <<ring, transmitting, nineBitMode, txc, txb8, udr, shift, young, c, history>>

Writing == WriteStores \/ WriteMovesHead \/ WriteEnables \/ WriteMarks \/ WriteClears

Next == \/ UdreInterrupt \/ FrameEnds
        \/ begin \/ write \/ Writing \/ FlushReturns \/ GoesOn \/ end

Spec == Init /\ [][Next]_vars

-----------------------------------------------------------------------------
\* Characters leave in the order they were written, each once and with its
\* own ninth bit, and flush() returns when the last frame has ended
\* (HardwareSerial::write, flush; the comment in flush(), HardwareSerial.cpp).
SentInOrder ==
  /\ IsPrefix(line, written)
  /\ pc = "flushed" => line = written

\* The wait for TXC cannot last for ever (flush()).
FlushCanReturn ==
  transmitting /\ ~txc => pc \in {"full", "head", "enable", "mark", "clear"} \/ Len(line) < Len(written)

-----------------------------------------------------------------------------
(***************************************************************************)
(* Why it is so: an inductive invariant.                                   *)
(***************************************************************************)
\* The ring has a place, and a character has nine bits.
UsartAssumption ==
  /\ SERIAL_TX_BUFFER_SIZE \in Nat /\ SERIAL_TX_BUFFER_SIZE >= 2
  /\ Char \subseteq 0..511

RingTypes ==
  /\ tx_head \in Position /\ tx_tail \in Position
  /\ tx_buffer \in [Position -> 0..255] /\ ntx_buffer \in [Position -> {0, 1}]
FlagTypes ==
  /\ transmitting \in BOOLEAN /\ nineBitMode \in BOOLEAN
  /\ udrie \in BOOLEAN /\ txen \in BOOLEAN /\ txc \in BOOLEAN /\ young \in BOOLEAN
RegisterTypes == udr \in {Empty} \cup 0..511 /\ shift \in {Empty} \cup 0..511 /\ txb8 \in {0, 1}
SketchTypes ==
  /\ pc \in {"closed", "open", "full", "head", "enable", "mark", "clear", "flushed"}
  /\ c \in 0..511
HistoryTypes == written \in Seq(0..511) /\ line \in Seq(0..511)
TypeOK == RingTypes /\ FlagTypes /\ RegisterTypes /\ SketchTypes /\ HistoryTypes

\* How many characters have come into the ring, and how many have left it.
Stored == IF pc \in {"full", "head"} THEN Len(written) - 1 ELSE Len(written)
Loaded == Len(line) + (IF shift = Empty THEN 0 ELSE 1) + (IF udr = Empty THEN 0 ELSE 1)

\* The character at a position, as it will be sent.
CharAt(p) == tx_buffer[p] + IF nineBitMode THEN 256 * ntx_buffer[p] ELSE 0

\* The ring holds what was written and not yet loaded, and the port is closed
\* only when that is nothing.
RingHolds ==
  /\ pc \in {"full", "head"} => Len(written) > 0
  /\ Loaded <= Stored /\ Stored < Loaded + SERIAL_TX_BUFFER_SIZE
  /\ tx_head = Stored % SERIAL_TX_BUFFER_SIZE /\ tx_tail = Loaded % SERIAL_TX_BUFFER_SIZE
  /\ \A k \in Loaded..(Stored - 1) : CharAt(k % SERIAL_TX_BUFFER_SIZE) = written[k + 1]
  /\ pc = "full" => written[Stored + 1] = IF nineBitMode THEN c ELSE c % 256
  /\ pc = "head" => CharAt(tx_head) = written[Stored + 1]
  /\ pc = "head" => Stored + 1 < Loaded + SERIAL_TX_BUFFER_SIZE
  /\ pc = "closed" => Loaded = Stored

\* The line, the shift register and UDR have them in the order they came.
LineHolds ==
  /\ udr # Empty => shift # Empty
  /\ \A i \in 1..Len(line) : line[i] = written[i]
  /\ shift # Empty => shift = written[Len(line) + 1]
  /\ udr # Empty => udr = written[Len(line) + 2]

\* Whoever waits in the ring is fetched.  TXC and "transmitting" tell whether
\* something is under way, except while write() is about to set them: then the
\* character it wrote has not been sent, because its frame is young.
FlagsTell ==
  /\ txen <=> pc # "closed"
  /\ Loaded < Stored /\ pc # "enable" => udrie
  /\ Clearing => /\ Len(line) < Len(written)
                 /\ shift # Empty /\ Len(line) + 1 = Len(written) => young
  /\ txc /\ ~Clearing => Len(line) = Stored
  /\ transmitting /\ ~Clearing /\ Len(line) = Stored => txc
  /\ pc = "clear" => transmitting
  /\ ~transmitting /\ ~Clearing => Len(line) = Stored
  /\ pc = "flushed" => Len(line) = Stored

SenderInv == TypeOK /\ RingHolds /\ LineHolds /\ FlagsTell

=============================================================================
