-------------------------- MODULE MCAltSoftSerial --------------------------
(***************************************************************************)
(* The receiver of port B and the transmitters of both ports, "part" says  *)
(* which is run.  Port B: all bytes of two bits, so that the last bit, and *)
(* with it the interrupt that ends the frame, is either; a ring of two     *)
(* slots; a timer that goes round during the frames; interrupts up to half *)
(* a bit late.  Port A: characters with and without a ninth bit, a ring    *)
(* with one place.                                                         *)
(***************************************************************************)
EXTENDS AltSoftSerial

CONSTANTS Char, SERIAL_TX_BUFFER_SIZE, Modes, MaxChars

VARIABLES part,
  softTime, softCom, softOcie, softOcf, softOcr, softLevel, softState, softByte, softBit,
  softHead, softTail, softBuffer, softSketch, softArgument, softPhase, softSampled, softWritten,
  softReceived, softRushed,
  usartHead, usartTail, usartBuffer, usartNinth, usartMarked, usartNine, usartUdrie, usartTxen,
  usartTxc, usartTxb8, usartUdr, usartShift, usartYoung, usartSketch, usartArgument,
  usartWritten, usartLine

MCByte == [1..DataBits -> {0, 1}]

Soft == INSTANCE SoftSender WITH
  TX_BUFFER_SIZE <- RX_BUFFER_SIZE, MaxBytes <- MaxFrames,
  time <- softTime, com <- softCom, ocie <- softOcie, ocf <- softOcf, ocr <- softOcr,
  level <- softLevel, tx_state <- softState, tx_byte <- softByte, tx_bit <- softBit,
  tx_buffer_head <- softHead, tx_buffer_tail <- softTail, tx_buffer <- softBuffer,
  pc <- softSketch, b <- softArgument, phase <- softPhase, bits <- softSampled,
  written <- softWritten, received <- softReceived, rushed <- softRushed

Usart == INSTANCE UsartSender WITH
  tx_head <- usartHead, tx_tail <- usartTail, tx_buffer <- usartBuffer,
  ntx_buffer <- usartNinth, transmitting <- usartMarked, nineBitMode <- usartNine,
  udrie <- usartUdrie, txen <- usartTxen, txc <- usartTxc, txb8 <- usartTxb8,
  udr <- usartUdr, shift <- usartShift, young <- usartYoung, pc <- usartSketch,
  c <- usartArgument, written <- usartWritten, line <- usartLine

ASSUME SendersAssumption == Soft!SenderAssumption /\ Usart!UsartAssumption

softVars == <<softTime, softCom, softOcie, softOcf, softOcr, softLevel, softState, softByte,
  softBit, softHead, softTail, softBuffer, softSketch, softArgument, softPhase, softSampled,
  softWritten, softReceived, softRushed>>
usartVars == <<usartHead, usartTail, usartBuffer, usartNinth, usartMarked, usartNine, usartUdrie,
  usartTxen, usartTxc, usartTxb8, usartUdr, usartShift, usartYoung, usartSketch, usartArgument,
  usartWritten, usartLine>>
all == <<part, vars, softVars, usartVars>>

MCInit ==
  /\ part \in {"receiver", "soft", "usart"}
  /\ Init /\ Soft!Init /\ Usart!Init

Receives(A) == part = "receiver" /\ A /\ UNCHANGED <<part, softVars, usartVars>>
SoftSends(A) == part = "soft" /\ A /\ UNCHANGED <<part, vars, usartVars>>
UsartSends(A) == part = "usart" /\ A /\ UNCHANGED <<part, vars, softVars>>

MCNext == Receives(Next) \/ SoftSends(Soft!Next) \/ UsartSends(Usart!Next)

(***************************************************************************)
(* Time passes, interrupts are served, loop() polls, and a write gets on.  *)
(***************************************************************************)
MCSpec ==
  /\ MCInit /\ [][MCNext]_all
  /\ WF_all(Receives(Tick)) /\ WF_all(Receives(CaptureInterrupt))
  /\ WF_all(Receives(CompareInterrupt)) /\ WF_all(Receives(ReadStep))
  /\ WF_all(SoftSends(Soft!Tick)) /\ WF_all(SoftSends(Soft!CompareInterrupt))
  /\ WF_all(SoftSends(Soft!Writing))
  /\ WF_all(UsartSends(Usart!UdreInterrupt)) /\ WF_all(UsartSends(Usart!FrameEnds))
  /\ WF_all(UsartSends(Usart!Writing))

\* What the sketch writes leaves each port once, in order and with its ninth
\* bit, and is out when the wait for it is over, which it can be
\* (SoftSender!SentInOrder; UsartSender!SentInOrder, FlushCanReturn, SenderInv;
\* AltSoftSerial.cpp, HardwareSerial.cpp).
SentInOrder ==
  /\ Soft!SentInOrder /\ Soft!SenderInv
  /\ Usart!SentInOrder /\ Usart!FlushCanReturn /\ Usart!SenderInv

\* Every frame that comes in is handled, and everything written gets out: a
\* write to a full ring does not wait for ever (AltSoftSerial.cpp, writeByte;
\* HardwareSerial.cpp, write and its interrupt).
NothingWaits ==
  /\ EveryFrameIsHandled
  /\ \A k \in 1..MaxFrames : Len(softWritten) >= k ~> softRushed \/ Len(softReceived) >= k
  /\ \A k \in 1..MaxChars : Len(usartWritten) >= k ~> Len(usartLine) >= k

=============================================================================
