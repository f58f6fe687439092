----------------------------- MODULE MCFraming -----------------------------
(***************************************************************************)
(* "part" says what is run.  Framing: line ends and a letter on an NMEA    *)
(* port; command and data bytes that announce datagrams of three and four  *)
(* bytes in SeaTalk mode; a buffer of five characters and none that is     *)
(* longer than a datagram by chance.  And what the core has for texts: a   *)
(* heap of 16 bytes of which the stack may take two, with lengths that     *)
(* need a chunk of their own, share one, and come round; two strings of up *)
(* to three characters on a heap of 12 bytes, which is too small for what  *)
(* some operations need on the way; what is printed, and what is parsed of *)
(* input in bursts.  And two ports of SoftwareSerial, one of them with     *)
(* inverse logic.                                                          *)
(***************************************************************************)
EXTENDS Framing, Integers

CONSTANTS HeapStart, HeapEnd, MaxMargin, HeapWord, BlockLens, HeapBlocks, StringsEnd, MaxText,
          ParseCalls, SerialEvents

VARIABLES part, heap, held, noMemory, str, val, input, did, reads,
  libRx, libPcif, libPcmsk, libRecv, libActive, libBuffer, libHead, libTail, libOverflow,
  libSketch, libArgument, libWriting, libTx, libFar, libQuiet, libBegun, libEvents, libDue,
  libWaiting, libFull, libSent, libWrong

MCNmeaChar == {LF, CR, 65}
MCSeaTalkChar == {0, 1, 256}

Blocks == INSTANCE Heap WITH
  Limits <- {HeapEnd - MaxMargin, HeapEnd}, Word <- HeapWord, Lens <- BlockLens,
  MaxBlocks <- HeapBlocks, refused <- noMemory

Texts == INSTANCE Strings WITH
  Limits <- {StringsEnd}, Word <- HeapWord, Lens <- {}, MaxBlocks <- 0, refused <- noMemory,
  Names <- {"s", "t"}, Texts <- {<<97>>, <<97, 32>>}, Sizes <- {2}, MaxLen <- MaxText

Seqs(C, n) == UNION {[1..k -> C] : k \in 0..n}

\* Directories of entries of every kind, two and three deep.
Entries(kinds, subs) == {[kind |-> k] : k \in kinds} \cup {[kind |-> "dir", sub |-> d] : d \in subs}
Listings ==
  {<<a, b, c>> : a \in Seqs(Entries({"free", "deleted", "file", "label"}, {2, 3}), 2)
                        \cup [1..3 -> Entries({"free", "file"}, {2})],
                 b \in {<<[kind |-> "dot"]>> \o t : t \in Seqs(Entries({"file"}, {3}), 2)},
                 c \in {<<>>, <<[kind |-> "dot"], [kind |-> "file"]>>}}

\* Digits, letters and silences.
Printing == INSTANCE PrintStream WITH
  Bits <- 11, Overflow <- 10000,
  Inputs <- Seqs({49, 45, 46, 44, 97, 98, -1}, 3) \cup Seqs({0, 97, 98, -1}, 4)
              \cup Seqs({49, 44, 46, -1}, 4),
  Longs <- {0, 9, 10, 63, 1023, 1024, 2047, -1, -1024}, Bases <- {0, 1, 2, 8, 10, 16},
  Reals <- {0, 5, -4, -999, 1995, -9994, 10000, 10001}, Precisions <- {0, 1, 2},
  Dates <- [year : {1980, 2014, 2107}, month : {1, 9, 12}, day : {1, 31}],
  Times <- [hour : {0, 23}, minute : {0, 59}, second : {0, 59}], Trees <- Listings,
  Targets <- {<<97>>, <<97, 98>>}, Ends <- {<<49>>, <<98>>}, MaxReads <- ParseCalls

\* One port with inverse logic; bytes whose bits differ.
Library == INSTANCE SoftwareSerial WITH
  Port <- {"p", "q"}, Inverted <- {"q"}, Byte <- {1, 2}, DataBits <- 2,
  _SS_MAX_RX_BUFF <- 2, MaxLatency <- 1, MaxEvents <- SerialEvents,
  rx <- libRx, pcif <- libPcif, pcmsk <- libPcmsk, recv <- libRecv, active_object <- libActive,
  _receive_buffer <- libBuffer, _receive_buffer_head <- libHead,
  _receive_buffer_tail <- libTail, _buffer_overflow <- libOverflow, pc <- libSketch,
  d <- libArgument, writing <- libWriting, tx <- libTx, far <- libFar, quiet <- libQuiet,
  begun <- libBegun, events <- libEvents, due <- libDue, waiting <- libWaiting, full <- libFull,
  sent <- libSent, wrong <- libWrong

heapVars == <<heap, held, noMemory, str, val>>
printVars == <<input, did, reads>>
serialVars == <<libRx, libPcif, libPcmsk, libRecv, libActive, libBuffer, libHead, libTail,
  libOverflow, libSketch, libArgument, libWriting, libTx, libFar, libQuiet, libBegun, libEvents,
  libDue, libWaiting, libFull, libSent, libWrong>>

MCInit ==
  /\ part \in {"framing", "heap", "strings", "print", "library"}
  /\ Init
  /\ IF part = "heap" THEN Blocks!Init /\ str = <<>> /\ val = <<>>
     ELSE held = <<>> /\ noMemory = {}
  /\ IF part = "strings" THEN Texts!SInit
     ELSE part # "heap" => heap = <<>> /\ str = <<>> /\ val = <<>>
  /\ IF part = "print" THEN Printing!PsInit ELSE input = <<>> /\ did = <<>> /\ reads = 0
  /\ IF part = "library" THEN Library!Init ELSE
     /\ libRx = <<>> /\ libPcif = <<>> /\ libPcmsk = <<>> /\ libRecv = <<>> /\ libActive = <<>>
     /\ libBuffer = <<>> /\ libHead = <<>> /\ libTail = <<>> /\ libOverflow = <<>> /\ libSketch = <<>>
     /\ libArgument = <<>> /\ libWriting = <<>> /\ libTx = <<>> /\ libFar = <<>> /\ libQuiet = <<>>
     /\ libBegun = <<>> /\ libEvents = <<>> /\ libDue = <<>> /\ libWaiting = <<>> /\ libFull = <<>>
     /\ libSent = <<>> /\ libWrong = <<>>
  /\ part # "framing" => ~seatalkActive

MCNext ==
  \/ part = "framing" /\ Next /\ UNCHANGED <<part, heapVars, printVars, serialVars>>
  \/ part = "heap" /\ Blocks!Next /\ UNCHANGED <<part, vars, str, val, printVars, serialVars>>
  \/ part = "strings" /\ Texts!SNext /\ UNCHANGED <<part, vars, held, noMemory, printVars, serialVars>>
  \/ part = "print" /\ Printing!PsNext /\ UNCHANGED <<part, vars, heapVars, serialVars>>
  \/ part = "library" /\ Library!Next /\ UNCHANGED <<part, vars, heapVars, printVars>>

MCSpec == MCInit /\ [][MCNext]_<<part, vars, heapVars, printVars, serialVars>>

\* A block of the heap belongs to one caller and keeps what he writes; a
\* string holds the text its operations promise, also when there was no
\* memory for one of them; what is printed is what its reader finds there,
\* and every call that parses takes what it returns, and nothing behind it;
\* and of the ports in software the one that listens gets what comes, and
\* what is written arrives (HeapSound, StringsAreExact, PrintsAndParses,
\* PortsAreExact; malloc.c, realloc.c, WString.cpp, Print.cpp, Stream.cpp,
\* SoftwareSerial.cpp).
LibrariesAreExact ==
  /\ part = "heap" => Blocks!HeapSound
  /\ part = "strings" => Texts!StringsAreExact
  /\ part = "print" => Printing!PrintsAndParses
  /\ part = "library" => Library!PortsAreExact

=============================================================================
