--------------------------- MODULE HardwareSerial ---------------------------
(***************************************************************************)
(* The receiving half of the USART driver of the logger's Arduino core     *)
(* (hardware/OSMLogger/avr/cores/oseam/HardwareSerial.cpp): a ring of      *)
(* RxSize characters, each with its ninth data bit in a separate bit       *)
(* array, filled by the receive interrupt and emptied by the sketch.       *)
(*                                                                         *)
(* The interrupt runs to completion between any two steps of the sketch;   *)
(* a step of the sketch is one access to a variable the interrupt also     *)
(* uses.  (The two indices are 16 bit wide and are loaded one byte at a    *)
(* time, but with RxSize <= 256 their high byte is always 0, so that a     *)
(* load cannot be torn.)  The USART itself is external: it assembles       *)
(* frames into a FIFO of HwDepth entries and loses a frame that finds it   *)
(* full.                                                                   *)
(*                                                                         *)
(* The sketch polls as testSerialA of OpenSeaMap.ino does: it calls        *)
(* available(), and read() when the answer is not 0.  It may also call     *)
(* read() without asking first, as timedRead() of Stream.cpp does.         *)
(***************************************************************************)
EXTENDS Integers, Sequences

CONSTANTS RxSize,       \* SERIAL_RX_BUFFER_SIZE, 128 in the build
          BitsPerByte,  \* bits of an element of nrx_buffer, 8 in the build
          HwDepth,      \* frames the USART can hold, 2 in an ATmega
          Byte,         \* the data bytes told apart
          Zero,         \* what initBuffer() fills rx_buffer with
          MaxChars      \* bound: characters the interrupt ever handles

ASSUME SerialAssumption ==
  /\ RxSize \in 2..256
  /\ BitsPerByte \in Nat \ {0}
  /\ HwDepth \in Nat \ {0}
  /\ Zero \in Byte
  /\ MaxChars \in Nat

Position == 0..(RxSize - 1)

Bit == {0, 1}

\* A character as the sketch sees it: its byte and its ninth bit.
Char == [byte : Byte, ninth : Bit]

\* A frame as the USART holds it: a character and its parity error flag.
Frame == [byte : Byte, ninth : Bit, parityError : BOOLEAN]

VARIABLES
  fifo,         \* frames in the USART, oldest first
  rx_buffer,    \* struct ring_buffer
  nrx_buffer,   \* ... the set of bits that are 1 in each byte
  rx_head,
  rx_tail,
  overflow,
  nineBitMode,  \* _nineBitMode
  enabled,      \* RXEN and RXCIE of UCSRB
  pc,           \* where the sketch is
  head,         \* rx_head as available() loaded it
  promised,     \* available() has answered more than 0 since
  c,            \* local variable c of read()
  accepted,     \* history: characters stored in the ring
  delivered,    \* history: characters read() returned
  lost          \* history: how many were dropped because the ring was full

ring     == <<rx_buffer, nrx_buffer, rx_head, rx_tail>>
port     == <<nineBitMode, enabled>>
program  == <<pc, head, promised, c>>
history  == <<accepted, delivered, lost>>
vars     == <<fifo, ring, overflow, port, program, history>>

(***************************************************************************)
(* The macros getIndex and getOffset, and the ninth bit of a position.     *)
(***************************************************************************)
getIndex(p)  == p \div BitsPerByte
getOffset(p) == p % BitsPerByte

NinthBit(p) == IF getOffset(p) \in nrx_buffer[getIndex(p)] THEN 1 ELSE 0

\* What the locals hold when no call is under way (they are dead then).
NoChar == [byte |-> Zero, ninth |-> 0]

(***************************************************************************)
(* The state after the constructor, which calls initBuffer().              *)
(***************************************************************************)
Init ==
  /\ fifo = <<>>
  /\ rx_buffer = [p \in Position |-> Zero]
  /\ nrx_buffer = [i \in 0..getIndex(RxSize - 1) |-> {}]
  /\ rx_head = 0 /\ rx_tail = 0
  /\ overflow = FALSE
  /\ nineBitMode = FALSE /\ enabled = FALSE
  /\ pc = "idle" /\ head = 0 /\ promised = FALSE
  /\ c = NoChar
  /\ accepted = <<>> /\ delivered = <<>>
  /\ lost = 0

-----------------------------------------------------------------------------
(***************************************************************************)
(* The USART.  A frame carries a ninth bit only in nine bit mode, and a    *)
(* frame that finds the FIFO full is lost.                                 *)
(***************************************************************************)
FrameArrives ==
  /\ enabled
  /\ \E f \in Frame :
       /\ f.ninth = 1 => nineBitMode
       /\ fifo' = IF Len(fifo) < HwDepth THEN Append(fifo, f) ELSE fifo
  /\ UNCHANGED <<ring, overflow, port, program, history>>

(***************************************************************************)
(* store_char(): the character is stored and the head moved, unless the    *)
(* head would reach the tail.                                              *)
(***************************************************************************)
AfterHead == (rx_head + 1) % RxSize

\* Mutant: the bit of an earlier character is not cleared.
WriteNinthBitOnlySets(ninth) ==
  nrx_buffer' = IF ninth = 1
                THEN [nrx_buffer EXCEPT ![getIndex(rx_head)] =
                        @ \cup {getOffset(rx_head)}]
                ELSE nrx_buffer

WriteNinthBit(ninth) ==
  LET i == getIndex(rx_head)
      bit == {getOffset(rx_head)}
  IN  nrx_buffer' = [nrx_buffer EXCEPT
                       ![i] = IF ninth = 1 THEN @ \cup bit ELSE @ \ bit]

\* Mutant: without the full test.
StoreCharEvenIfFull(ch) ==
  /\ rx_buffer' = [rx_buffer EXCEPT ![rx_head] = ch.byte]
  /\ WriteNinthBit(ch.ninth)
  /\ rx_head' = AfterHead
  /\ accepted' = Append(accepted, ch)
  /\ UNCHANGED <<rx_tail, overflow, delivered, lost>>

StoreChar(ch) ==
  /\ AfterHead # rx_tail
  /\ rx_buffer' = [rx_buffer EXCEPT ![rx_head] = ch.byte]
  /\ WriteNinthBit(ch.ninth)
  /\ rx_head' = AfterHead
  /\ accepted' = Append(accepted, ch)
  /\ UNCHANGED <<rx_tail, overflow, delivered, lost>>

DropChar ==
  /\ AfterHead = rx_tail
  /\ overflow' = TRUE
  /\ lost' = lost + 1
  /\ UNCHANGED <<ring, accepted, delivered>>

(***************************************************************************)
(* ISR(USART_RX_vect): parity error flag, then ninth bit, then data, which *)
(* takes the frame out of the FIFO.  A frame with a parity error is read   *)
(* and forgotten.                                                          *)
(***************************************************************************)
ReceivedChar == [byte |-> Head(fifo).byte, ninth |-> Head(fifo).ninth]

ReceiveInterrupt ==
  /\ enabled
  /\ fifo # <<>>
  /\ fifo' = Tail(fifo)
  /\ IF Head(fifo).parityError
     THEN UNCHANGED <<ring, overflow, history>>
     ELSE /\ Len(accepted) + lost < MaxChars
          /\ StoreChar(ReceivedChar) \/ DropChar
  /\ UNCHANGED <<port, program>>

-----------------------------------------------------------------------------
(***************************************************************************)
(* available(): rx_head is loaded, then rx_tail.                           *)
(***************************************************************************)
AvailableLoadsHead ==
  /\ pc = "idle"
  /\ pc' = "available"
  /\ head' = rx_head
  /\ UNCHANGED <<fifo, ring, overflow, port, promised, c, history>>

\* Mutant: the difference is not reduced modulo the size.
availableNotReduced == RxSize + head - rx_tail

available == (RxSize + head - rx_tail) % RxSize

\* Mutant: the last character is left waiting for another one.
AvailableAnswersOffByOne ==
  /\ pc = "available"
  /\ promised' = (available > 1)
  /\ pc' = IF available > 1 THEN "read" ELSE "idle"
  /\ head' = 0
  /\ UNCHANGED <<fifo, ring, overflow, port, c, history>>

AvailableAnswers ==
  /\ pc = "available"
  /\ promised' = (available > 0)
  /\ pc' = IF available > 0 THEN "read" ELSE "idle"
  /\ head' = 0
  /\ UNCHANGED <<fifo, ring, overflow, port, c, history>>

(***************************************************************************)
(* read(): the emptiness test, the load of the byte, the load of the ninth *)
(* bit in nine bit mode, the store of rx_tail, the store of overflow.      *)
(***************************************************************************)
CallRead ==
  /\ pc = "idle"
  /\ pc' = "read"
  /\ UNCHANGED <<fifo, ring, overflow, port, head, promised, c, history>>

ReadFindsNothing ==
  /\ pc = "read"
  /\ rx_head = rx_tail
  /\ pc' = "idle"
  /\ promised' = FALSE
  /\ UNCHANGED <<fifo, ring, overflow, port, head, c, history>>

ReadByte ==
  /\ pc = "read"
  /\ rx_head # rx_tail
  /\ pc' = "ninth"
  /\ c' = [byte |-> rx_buffer[rx_tail], ninth |-> 0]
  /\ UNCHANGED <<fifo, ring, overflow, port, head, promised, history>>

ReadNinth ==
  /\ pc = "ninth"
  /\ pc' = "tail"
  /\ c' = [byte |-> c.byte,
           ninth |-> IF nineBitMode THEN NinthBit(rx_tail) ELSE 0]
  /\ UNCHANGED <<fifo, ring, overflow, port, head, promised, history>>

\* Mutant: everything that waits is skipped.
MoveTailToHead ==
  /\ pc = "tail"
  /\ pc' = "clear"
  /\ rx_tail' = rx_head
  /\ promised' = FALSE
  /\ delivered' = Append(delivered, c)
  /\ UNCHANGED <<fifo, rx_buffer, nrx_buffer, rx_head, overflow, port, head, c,
                 accepted, lost>>

MoveTail ==
  /\ pc = "tail"
  /\ pc' = "clear"
  /\ rx_tail' = (rx_tail + 1) % RxSize
  /\ promised' = FALSE
  /\ delivered' = Append(delivered, c)
  /\ UNCHANGED <<fifo, rx_buffer, nrx_buffer, rx_head, overflow, port, head, c,
                 accepted, lost>>

ClearOverflow ==
  /\ pc = "clear"
  /\ pc' = "idle"
  /\ overflow' = FALSE
  /\ c' = NoChar
  /\ UNCHANGED <<fifo, ring, port, head, promised, history>>

(***************************************************************************)
(* begin(): the bit of the configuration that selects nine bit mode, and   *)
(* the receiver switched on.  The ring is not cleared.  The sketch begins  *)
(* a port that is not open.                                                *)
(***************************************************************************)
begin(config) ==
  /\ pc = "idle"
  /\ ~enabled
  /\ nineBitMode' = config
  /\ enabled' = TRUE
  /\ UNCHANGED <<fifo, ring, overflow, program, history>>

(***************************************************************************)
(* end(): the receiver and its interrupt are off, which empties the FIFO   *)
(* of the USART, before the head is set back to the tail; the interrupt    *)
(* cannot run in between.  What was not read is discarded.                 *)
(***************************************************************************)
end ==
  /\ pc = "idle"
  /\ enabled
  /\ enabled' = FALSE
  /\ fifo' = <<>>
  /\ rx_head' = rx_tail
  /\ accepted' = delivered
  /\ UNCHANGED <<rx_buffer, nrx_buffer, rx_tail, overflow, nineBitMode, program,
                 delivered, lost>>

Poll == AvailableLoadsHead \/ AvailableAnswers
ReadStep == ReadFindsNothing \/ ReadByte \/ ReadNinth \/ MoveTail \/ ClearOverflow

Next == \/ FrameArrives \/ ReceiveInterrupt
        \/ Poll \/ CallRead \/ ReadStep
        \/ (\E config \in BOOLEAN : begin(config)) \/ end

Spec == Init /\ [][Next]_vars

(***************************************************************************)
(* loop() polls the port in every turn, and a pending interrupt runs.      *)
(***************************************************************************)
FairSpec == Spec /\ WF_vars(ReceiveInterrupt) /\ WF_vars(Poll) /\ WF_vars(ReadStep)

-----------------------------------------------------------------------------
(***************************************************************************)
(* Every variable has its type (struct ring_buffer and the locals of       *)
(* available() and read()).                                                *)
(***************************************************************************)
TypeOK ==
  /\ fifo \in Seq(Frame)
  /\ rx_buffer \in [Position -> Byte]
  /\ nrx_buffer \in [0..getIndex(RxSize - 1) -> SUBSET (0..(BitsPerByte - 1))]
  /\ rx_head \in Position /\ rx_tail \in Position /\ head \in Position
  /\ overflow \in BOOLEAN /\ nineBitMode \in BOOLEAN /\ enabled \in BOOLEAN
  /\ promised \in BOOLEAN
  /\ pc \in {"idle", "available", "read", "ninth", "tail", "clear"}
  /\ c \in Char
  /\ accepted \in Seq(Char) /\ delivered \in Seq(Char) /\ lost \in Nat

Waiting == Len(accepted) - Len(delivered)

(***************************************************************************)
(* What read() has returned is what the interrupt stored, in that order    *)
(* and each byte with its own ninth bit, and no more characters wait than  *)
(* the ring can tell from an empty one: neither the emptiness test nor the *)
(* interrupt's full test ever confuses the two, however they interleave.   *)
(***************************************************************************)
InOrder ==
  /\ Waiting \in 0..(RxSize - 1)
  /\ \A k \in 1..Len(delivered) : delivered[k] = accepted[k]

(***************************************************************************)
(* testSerialA reads without looking at the result once available() is not *)
(* 0: although both indices may have been stale when it was computed, the  *)
(* ring is not empty when read() tests it.                                 *)
(***************************************************************************)
AvailableIsKept == promised /\ pc = "read" => rx_head # rx_tail

(***************************************************************************)
(* Every stored character is eventually returned by read(), unless end()   *)
(* discarded it, whatever the interrupt does between the steps of the      *)
(* sketch.                                                                 *)
(***************************************************************************)
EveryCharIsRead ==
  \A k \in 1..MaxChars :
    Len(accepted) >= k ~> (Len(delivered) >= k \/ Len(accepted) < k)

(***************************************************************************)
(* The ring with its interrupt behaves as the bounded queue of SerialQueue *)
(* does: a character is dropped only when RxSize - 1 others wait, and no   *)
(* character is lost, repeated or swapped otherwise.                       *)
(***************************************************************************)
Queue == INSTANCE SerialQueue WITH Capacity <- RxSize - 1

IsQueue == Queue!Spec

(***************************************************************************)
(* The argument for it, an inductive invariant: the indices are the        *)
(* numbers of characters stored and read, modulo the size of the ring, and *)
(* the slots in between hold the characters that wait.                     *)
(***************************************************************************)
SlotOf(k) == (k - 1) % RxSize

IndicesCount ==
  /\ rx_head = Len(accepted) % RxSize
  /\ rx_tail = Len(delivered) % RxSize

SlotsHoldWaiting ==
  \A k \in (Len(delivered) + 1)..Len(accepted) :
    /\ rx_buffer[SlotOf(k)] = accepted[k].byte
    /\ NinthBit(SlotOf(k)) = accepted[k].ninth
    /\ accepted[k].ninth = 1 => nineBitMode

LocalIsNext ==
  /\ pc \in {"ninth", "tail"} => Waiting > 0
  /\ pc = "ninth" => c = [byte |-> accepted[Len(delivered) + 1].byte,
                          ninth |-> 0]
  /\ pc = "tail" => c = accepted[Len(delivered) + 1]

ModeIsKept ==
  /\ ~enabled => Waiting = 0 /\ fifo = <<>>
  /\ \A i \in 1..Len(fifo) : fifo[i].ninth = 1 => nineBitMode

PromiseHolds ==
  /\ pc = "available" => \E h \in Len(delivered)..Len(accepted) : head = h % RxSize
  /\ promised => pc \in {"read", "ninth", "tail"} /\ Waiting > 0

RingInv == TypeOK /\ InOrder /\ IndicesCount /\ SlotsHoldWaiting /\ LocalIsNext
                  /\ ModeIsKept /\ PromiseHolds
=============================================================================
