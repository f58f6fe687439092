------------------------------ MODULE Framing ------------------------------
(***************************************************************************)
(* How the characters of the two ports become records of the data file     *)
(* (SketchBook/OpenSeaMap/OpenSeaMap.ino): testSerialA() and testSerialB() *)
(* read the ports in turn; NMEAInputA() and NMEAInputB() collect lines,    *)
(* SeaTalkInputA() collects datagrams, whose first character has the ninth *)
(* bit set.                                                                *)
(*                                                                         *)
(* One action handles one character.  What arrives is not known before it  *)
(* is read, so any character may be the next one.  A character is a number *)
(* of nine bits.  Time is told by the characters: each one is read at a    *)
(* time of its own.                                                        *)
(***************************************************************************)
EXTENDS Naturals, Sequences, FiniteSets

CONSTANTS
  MAX_NMEA_BUFFER,     \* 80 in the code
  NmeaChar,            \* characters an NMEA port may deliver
  SeaTalkChar,         \* characters port A may deliver in SeaTalk mode
  MaxSteps,            \* bound: characters read, and changes of the data file
  MaxCharsB,           \* bound: characters of these that port B delivers
  MaxChanges           \* bound: how often the data file is closed or opened

LF == 10
CR == 13
lowByte(c) == c % 256
IsCommand(c) == c >= 256          \* incomingByte & 0x0100
DatagramLength(c) == 3 + (c % 16) \* 3 + (incomingByte & 0x0F)

\* Nine bits; and every length a datagram can announce fits the buffer.
ASSUME FramingAssumption ==
  /\ MAX_NMEA_BUFFER \in Nat \ {0}
  /\ MaxSteps \in Nat /\ MaxCharsB \in Nat /\ MaxChanges \in Nat
  /\ NmeaChar \subseteq 0..511 /\ SeaTalkChar \subseteq 0..511
  /\ \A c \in SeaTalkChar : DatagramLength(c) < MAX_NMEA_BUFFER

Port == {"A", "B"}
Slots == 0..(MAX_NMEA_BUFFER - 1)

VARIABLES
  seatalkActive,   \* port A speaks SeaTalk
  isOpen,          \* dataFile.isOpen()
  buffer,          \* bufferA and bufferB
  index,           \* indexA and indexB
  start,           \* startA and startB
  dataLength,      \* of the datagram that is being collected
  turn,            \* which part of loop() runs: "A", "B" or "rest"
  written,         \* records in the data file
  changes,         \* what MaxChanges counts
  got              \* history: per port, what was read, when, and whether a
                   \* file was open

vars == <<seatalkActive, isOpen, buffer, index, start, dataLength, turn,
          written, changes, got>>

Init ==
  /\ seatalkActive \in BOOLEAN
  /\ isOpen = TRUE
  /\ buffer = [p \in Port |-> [i \in Slots |-> 0]]
  /\ index = [p \in Port |-> 0]
  /\ start = [p \in Port |-> 0]
  /\ dataLength = 0
  /\ turn = "A"
  /\ written = <<>> /\ changes = 0
  /\ got = [p \in Port |-> <<>>]

-----------------------------------------------------------------------------
\* Time passes from one character to the next.
clock == Len(got["A"]) + Len(got["B"])

\* The first n characters of a buffer.
Contents(b, n) == [i \in 1..n |-> b[i - 1]]

\* A record goes into the file if one is open.
Write(p, s, data) ==
  written' = IF isOpen
             THEN Append(written, [port |-> p, start |-> s, data |-> data])
             ELSE written

\* startA = millis() when a line or datagram begins.
StartOf(p) == IF index[p] = 0 THEN clock ELSE start[p]

NextTurn(p) == IF p = "A" THEN "B" ELSE "rest"

(***************************************************************************)
(* One character of an NMEA port.  A line ends with a line feed, or when   *)
(* the buffer is full; a carriage return is skipped.                       *)
(***************************************************************************)
\* Mutant: the time stamp is taken for every character.
NMEAInputStampsAll(p, c) ==
  LET in == lowByte(c)
      ending == in = LF
      text == in # LF /\ in # CR
      n == IF text THEN index[p] + 1 ELSE index[p]
      b == IF text THEN [buffer[p] EXCEPT ![index[p]] = in] ELSE buffer[p]
      full == ending \/ n >= MAX_NMEA_BUFFER
  IN /\ buffer' = [buffer EXCEPT ![p] = b]
     /\ start' = [start EXCEPT ![p] = clock]
     /\ IF full /\ n > 0 THEN Write(p, clock, Contents(b, n))
                         ELSE UNCHANGED written
     /\ index' = [index EXCEPT ![p] = IF full THEN 0 ELSE n]
     /\ turn' = IF ending THEN NextTurn(p) ELSE turn
     /\ UNCHANGED dataLength

NMEAInput(p, c) ==
  LET in == lowByte(c)
      ending == in = LF
      text == in # LF /\ in # CR
      n == IF text THEN index[p] + 1 ELSE index[p]
      b == IF text THEN [buffer[p] EXCEPT ![index[p]] = in] ELSE buffer[p]
      full == ending \/ n >= MAX_NMEA_BUFFER
  IN /\ buffer' = [buffer EXCEPT ![p] = b]
     /\ start' = [start EXCEPT ![p] = StartOf(p)]
     /\ IF full /\ n > 0 THEN Write(p, StartOf(p), Contents(b, n))
                         ELSE UNCHANGED written
     /\ index' = [index EXCEPT ![p] = IF full THEN 0 ELSE n]
     /\ turn' = IF ending THEN NextTurn(p) ELSE turn
     /\ UNCHANGED dataLength

(***************************************************************************)
(* One character in SeaTalk mode: a command byte ends the datagram before  *)
(* it, which is written if it has the length its second byte announced     *)
(* (writeDatagram()), and begins the next one.                             *)
(***************************************************************************)
\* Mutant: the length is not checked.
DatagramNotEmpty == index["A"] > 0

DatagramComplete == index["A"] = dataLength

SeaTalkInput(c) ==
  LET n == IF IsCommand(c) THEN 0 ELSE index["A"]
  IN /\ IF IsCommand(c) /\ DatagramComplete
        THEN Write("A", StartOf("A"), Contents(buffer["A"], index["A"]))
        ELSE UNCHANGED written
     /\ start' = [start EXCEPT !["A"] = IF IsCommand(c) THEN clock ELSE StartOf("A")]
     /\ dataLength' = IF n = 1 THEN DatagramLength(c) ELSE dataLength
     /\ IF n < MAX_NMEA_BUFFER
        THEN /\ buffer' = [buffer EXCEPT !["A"][n] = lowByte(c)]
             /\ index' = [index EXCEPT !["A"] = n + 1]
        ELSE /\ index' = [index EXCEPT !["A"] = n]
             /\ UNCHANGED buffer
     /\ turn' = IF IsCommand(c) THEN "B" ELSE turn

-----------------------------------------------------------------------------
\* The characters a port may deliver.
Offered(p) == IF p = "A" /\ seatalkActive THEN SeaTalkChar ELSE NmeaChar

\* testSerialA() or testSerialB() reads one more character.
ReadChar(p) ==
  /\ turn = p
  /\ clock + changes < MaxSteps
  /\ p = "B" => Len(got[p]) < MaxCharsB
  /\ \E c \in Offered(p) :
       /\ got' = [got EXCEPT ![p] = Append(@, [char |-> c, at |-> clock,
                                               open |-> isOpen])]
       /\ IF p = "A" /\ seatalkActive THEN SeaTalkInput(c) ELSE NMEAInput(p, c)
  /\ UNCHANGED <<seatalkActive, isOpen, changes>>

\* available() answers 0: the loop goes on to the next port.
NothingAvailable ==
  /\ turn \in Port
  /\ turn' = NextTurn(turn)
  /\ UNCHANGED <<seatalkActive, isOpen, buffer, index, start, dataLength,
                 written, changes, got>>

\* The rest of loop() may close the data file or open one.
RestOfLoop ==
  /\ turn = "rest"
  /\ turn' = "A"
  /\ \/ UNCHANGED <<isOpen, changes>>
     \/ /\ changes < MaxChanges /\ clock + changes < MaxSteps
        /\ changes' = changes + 1
        /\ isOpen' = ~isOpen
  /\ UNCHANGED <<seatalkActive, buffer, index, start, dataLength, written,
                 got>>

Next == (\E p \in Port : ReadChar(p)) \/ NothingAvailable \/ RestOfLoop

Spec == Init /\ [][Next]_vars

-----------------------------------------------------------------------------
(***************************************************************************)
(* Types.  An index never points behind its buffer when a character comes  *)
(* (NMEA), and never gets past the end (SeaTalk).                          *)
(***************************************************************************)
RecordType == [port : Port, start : Nat, data : Seq(0..255)]

IndexInBuffer ==
  /\ index["B"] < MAX_NMEA_BUFFER
  /\ index["A"] <= MAX_NMEA_BUFFER
  /\ ~seatalkActive => index["A"] < MAX_NMEA_BUFFER

TypeOK ==
  /\ seatalkActive \in BOOLEAN /\ isOpen \in BOOLEAN
  /\ buffer \in [Port -> [Slots -> 0..255]]
  /\ index \in [Port -> Nat] /\ start \in [Port -> Nat]
  /\ dataLength \in 0..18 /\ turn \in Port \cup {"rest"}
  /\ written \in Seq(RecordType) /\ changes \in Nat
  /\ IndexInBuffer

-----------------------------------------------------------------------------
(***************************************************************************)
(* The reference: which records the characters read on a port amount to.   *)
(***************************************************************************)
Newest(S) == CHOOSE m \in S : \A n \in S : n <= m

\* The last position of a set before the n-th, or 0.
LastBefore(S, n) == Newest({0} \cup {m \in S : m < n})

\* The i-th position of a set, and what a function has at its positions in order.
Nth(S, i) ==
  LET ranked == {n \in S : Cardinality({m \in S : m <= n}) = i}
  IN CHOOSE n \in ranked : TRUE

InOrder(f) == [i \in 1..Cardinality(DOMAIN f) |-> f[Nth(DOMAIN f, i)]]

\* The records of a port in the file.
RecordsOf(p) == InOrder([i \in {j \in 1..Len(written) : written[j].port = p} |-> written[i]])

IsFeed(x) == lowByte(x.char) = LF
IsText(x) == lowByte(x.char) # LF /\ lowByte(x.char) # CR
TextBetween(g, m, n) == {i \in (m + 1)..n : IsText(g[i])}

\* A line is over with a line feed, and whenever the text since the last one
\* has filled the buffer.
Feeds(g) == {n \in 1..Len(g) : IsFeed(g[n])}
Fills(g, n) ==
  /\ IsText(g[n])
  /\ Cardinality(TextBetween(g, LastBefore(Feeds(g), n), n)) % MAX_NMEA_BUFFER = 0

LineEnds(g) == {n \in 1..Len(g) : IsFeed(g[n]) \/ Fills(g, n)}

\* The text of the line that ends at n, or is under way there.
TextOf(g, n) == TextBetween(g, LastBefore(LineEnds(g), n), n)
Chars(g, T) == InOrder([i \in T |-> lowByte(g[i].char)])

Line(p, g, n) ==
  [port |-> p, start |-> g[Nth(TextOf(g, n), 1)].at, data |-> Chars(g, TextOf(g, n))]

WholeLines(g) == {n \in LineEnds(g) : g[n].open /\ TextOf(g, n) # {}}

ExpectedLines(p) == InOrder([n \in WholeLines(got[p]) |-> Line(p, got[p], n)])

\* The command bytes end what came before them; what precedes the first one
\* is the tail of a datagram that was under way.
Commands(g) == {n \in 1..Len(g) : IsCommand(g[n].char)}
First(g, n) == LET q == LastBefore(Commands(g), n) IN IF q = 0 THEN 1 ELSE q
Announced(g, n) ==
  IF n - First(g, n) >= 2 THEN DatagramLength(g[First(g, n) + 1].char) ELSE 0

Datagram(g, n) ==
  [port |-> "A",
   start |-> g[First(g, n)].at,
   data |-> [i \in 1..(n - First(g, n)) |-> lowByte(g[First(g, n) + i - 1].char)]]

WholeDatagrams(g) == {n \in Commands(g) : g[n].open /\ n - First(g, n) = Announced(g, n)}

ExpectedDatagrams == InOrder([n \in WholeDatagrams(got["A"]) |-> Datagram(got["A"], n)])

(***************************************************************************)
(* The file holds exactly the lines that came on an NMEA port while it was *)
(* open, each whole, in order, with the time of its first character; a     *)
(* line longer than the buffer in pieces.  It matters that the two ports   *)
(* take turns, that either may be left in the middle of a line, and that   *)
(* the file may be closed meanwhile (NMEAInputA(), NMEAInputB()).  Neither *)
(* buffer is written past its end (TypeOK).                                *)
(***************************************************************************)
FileHoldsTheLines ==
  /\ TypeOK
  /\ \A p \in IF seatalkActive THEN {"B"} ELSE Port : RecordsOf(p) = ExpectedLines(p)

(***************************************************************************)
(* The file holds exactly the SeaTalk datagrams that have the length they  *)
(* announce, with the time of their command byte; but before the first     *)
(* command byte an empty one, or the tail of one under way, may pass for a *)
(* datagram (SeaTalkInputA(), writeDatagram()).                            *)
(***************************************************************************)
FileHoldsTheDatagrams == seatalkActive => RecordsOf("A") = ExpectedDatagrams

=============================================================================
