------------------------------- MODULE Config -------------------------------
(***************************************************************************)
(* The configuration of the logger (SketchBook/OpenSeaMap/OpenSeaMap.ino): *)
(* getParameters() takes the parameters from the EEPROM, then character by *)
(* character from config.dat if the card has one, and saves what changed;  *)
(* outputParameter() writes them to oseamlog.cnf; initSerials() opens the  *)
(* ports.  config.dat is what WebConfig/config.php makes of a form, or is  *)
(* written by hand.                                                        *)
(*                                                                         *)
(* The power may go at any time, also between two EEPROM cells and while a *)
(* cell is being programmed; the card may be pulled.  A character is its   *)
(* code, the number of the vessel its bytes from the lowest.               *)
(***************************************************************************)
EXTENDS Integers, Sequences

CONSTANTS
  VesselBytes,     \* 4 in the code: sizeof(vesselID)
  Forms,           \* what can be filled in: see FormType
  OtherTexts,      \* files no form describes
  MaxEvents        \* bound: power cuts, cards pulled, cards changed

Byte == 0..255
CR == 13
LF == 10
Zero == 48         \* '0'
Small_s == 115     \* 's'
Erased == 255
Vessel == [1..VesselBytes -> Byte]

\* What a configuration file says: codes for the baud rates, the two bits of
\* the outputs, the vessel, and how its lines end.
FormType == [seatalk : BOOLEAN, baudA : 0..6, baudB : 0..4, outputs : 0..3,
             vessel : Vessel, eol : {<<CR, LF>>, <<LF>>}]

ASSUME ConfigAssumption ==
  /\ VesselBytes \in Nat \ {0}
  /\ Forms \subseteq FormType
  /\ OtherTexts \subseteq Seq(Byte)
  /\ MaxEvents \in Nat

NoForm == [form |-> "none"]
Foreign == [form |-> "foreign"]   \* the form of OtherTexts
NoText == <<>>
Closed == [baud |-> 0, bits |-> 0]

\* const int BAUDRATES[]
BAUDRATES == <<1200, 2400, 4800, 9600, 19200, 38400>>

VARIABLES
  pc,          \* place in setup()
  eeprom,      \* cells
  todo,        \* EEPROM writes of the last statement that are still to come
  l,           \* locals of getParameters(), position and cache of config.dat
  g,           \* variables of the sketch, and how the two ports were opened
  card,        \* text of config.dat, form it stands for, oseamlog.cnf
  mounted,     \* the card that sd.begin() found is still there
  events,      \* what MaxEvents counts
  source,      \* history: the form this start reads
  tainted      \* history: something was read that no form says

environment == <<card, mounted, events>>
vars == <<pc, eeprom, todo, l, g, environment, source, tainted>>

\* EEPROM storage positions
EEPROM_BAUD_A == 16
EEPROM_BAUD_B == 17
EEPROM_SEATALK == 18
EEPROM_OUTPUT == 19
EEPROM_VESSELID == 20
Cells == EEPROM_BAUD_A..(EEPROM_VESSELID + VesselBytes - 1)

-----------------------------------------------------------------------------
(***************************************************************************)
(* The file: config.php prints the form, four lines.                       *)
(***************************************************************************)
HexDigit(d) == IF d < 10 THEN Zero + d ELSE 97 + d - 10

\* sprintf("%'08x", ...): two digits for every byte, the highest first.  Digit j
\* is counted from the lowest.
HexDigitOf(v, j) == IF j % 2 = 0 THEN v[j \div 2 + 1] % 16 ELSE v[j \div 2 + 1] \div 16
HexText(v) ==
  [i \in 1..(2 * VesselBytes) |-> HexDigit(HexDigitOf(v, 2 * VesselBytes - i))]

Download(f) ==
  (IF f.seatalk THEN <<Small_s>> ELSE <<>>) \o <<Zero + f.baudA>> \o f.eol
  \o <<Zero + f.baudB>> \o f.eol \o <<Zero + f.outputs>> \o f.eol
  \o HexText(f.vessel) \o f.eol

\* How many characters come before the first one of a set.
Before(s, stops) ==
  CHOOSE n \in 0..Len(s) : /\ \A i \in 1..n : s[i] \notin stops
                           /\ n = Len(s) \/ s[n + 1] \in stops

(***************************************************************************)
(* strtoul(filename, NULL, 16): the hexadecimal digits at the beginning;   *)
(* what does not fit gives the largest number.                             *)
(***************************************************************************)
DigitOf(c) == IF c \in 48..57 THEN c - 48
              ELSE IF c \in 97..102 THEN c - 87
              ELSE IF c \in 65..70 THEN c - 55 ELSE 16
NoDigit == {c \in Byte : DigitOf(c) = 16}

strtoul(s) ==
  LET n == Before(s, NoDigit)
      Digit(j) == IF j < n THEN DigitOf(s[n - j]) ELSE 0
  IN IF \E j \in (2 * VesselBytes)..(n - 1) : Digit(j) # 0
     THEN [k \in 1..VesselBytes |-> 255]
     ELSE [k \in 1..VesselBytes |-> 16 * Digit(2 * k - 1) + Digit(2 * k - 2)]

\* EEPROM_writeStruct() and EEPROM_readStruct(): the low byte first.
VesselCell(k) == EEPROM_VESSELID + k - 1
VesselWrites(v) == [k \in 1..VesselBytes |-> <<VesselCell(k), v[k]>>]
VesselIn(e) == [k \in 1..VesselBytes |-> e[VesselCell(k)]]

-----------------------------------------------------------------------------
NewCard(text, form) == [text |-> text, form |-> form, cnf |-> NoForm]

Cards == {NewCard(NoText, NoForm)}
         \cup {NewCard(Download(f), f) : f \in Forms}
         \cup {NewCard(t, Foreign) : t \in OtherTexts}

Hex06 == 6
AcceptedA(x) == IF x > Hex06 THEN 3 ELSE x
AcceptedB(x) == IF x > 4 THEN 3 ELSE x

\* getParameters() when it has read the EEPROM.
LocalsFrom(e) ==
  [baudA |-> AcceptedA(e[EEPROM_BAUD_A]), baudB |-> AcceptedB(e[EEPROM_BAUD_B]),
   seatalk |-> e[EEPROM_SEATALK], outputs |-> e[EEPROM_OUTPUT],
   vesselID |-> VesselIn(e), paramCount |-> 1, lastCR |-> FALSE,
   position |-> 0, cached |-> FALSE]

GlobalsFrom(e) ==
  [seatalkActive |-> e[EEPROM_SEATALK] \in 1..5,
   firstSerial |-> TRUE, secondSerial |-> TRUE,
   outputVcc |-> FALSE, outputGyro |-> TRUE,
   port |-> [p \in {"A", "B"} |-> Closed]]

\* A board from the factory: nothing in the EEPROM.
Init ==
  /\ pc = "off"
  /\ eeprom = [x \in Cells |-> Erased]
  /\ todo = <<>>
  /\ l = LocalsFrom(eeprom) /\ g = GlobalsFrom(eeprom)
  /\ card \in Cards /\ mounted = FALSE /\ events = 0
  /\ source = NoForm /\ tainted = FALSE

\* setup() up to getParameters().
ReadEEPROM ==
  /\ pc = "off" /\ pc' = "open"
  /\ l' = LocalsFrom(eeprom) /\ g' = GlobalsFrom(eeprom)
  /\ mounted' = TRUE
  /\ source' = NoForm
  /\ UNCHANGED <<eeprom, todo, card, events, tainted>>

\* sd.exists() and open(): without a file the EEPROM it is.
OpenConfig ==
  /\ pc = "open"
  /\ IF mounted /\ card.text # NoText
     THEN /\ g' = [g EXCEPT !.firstSerial = FALSE, !.secondSerial = FALSE]
          /\ source' = card.form
          /\ tainted' = (tainted \/ card.form = Foreign)
          /\ pc' = "parse"
     ELSE /\ pc' = "outputs"
          /\ UNCHANGED <<g, source, tainted>>
  /\ UNCHANGED <<eeprom, todo, l, environment>>

-----------------------------------------------------------------------------
(***************************************************************************)
(* The loop over the characters of config.dat.                             *)
(***************************************************************************)
Parsing == pc = "parse" /\ todo = <<>> /\ l.position < Len(card.text)

LineEnds == {CR, LF}

\* dataFile.read(): -1 as a byte at the end of the file.
CharAt(i) == IF i <= Len(card.text) THEN card.text[i] ELSE 255
Next1 == CharAt(l.position + 1)

Code(c) == (c - Zero) % 256

\* A read answers if the block is in memory or the card is there.
ReadSucceeds == l.cached \/ mounted

\* Mutants: every line end counts; a second line end is not read.
EveryLineEnd(r) == [r EXCEPT !.paramCount = (@ + 1) % 256, !.lastCR = TRUE,
                             !.position = @ + 1, !.cached = TRUE]
FirstLineEnd(r) == IF r.lastCR THEN r ELSE EveryLineEnd(r)

\* CR and LF together end one line.
LineEnded(r) == [r EXCEPT !.paramCount = IF r.lastCR THEN @ ELSE (@ + 1) % 256,
                          !.lastCR = TRUE, !.position = @ + 1, !.cached = TRUE]

LineEnd ==
  /\ Parsing /\ ReadSucceeds /\ Next1 \in LineEnds
  /\ l' = LineEnded(l)
  /\ UNCHANGED <<pc, eeprom, todo, g, environment, source, tainted>>

\* Only what differs from the EEPROM is written.
Changed(cell, new, old) == IF new = old THEN <<>> ELSE << <<cell, new>> >>

\* Mutant: an erased cell passes for a set one.
SeatalkWritesIfChanged(active) ==
  IF (l.seatalk > 0) # active
  THEN << <<EEPROM_SEATALK, IF active THEN 1 ELSE 0>> >>
  ELSE <<>>

\* The seatalk flag is compared with the cell as it was at the start.
SeatalkWrites(active) ==
  IF l.seatalk > Hex06 \/ (l.seatalk > 0) # active
  THEN << <<EEPROM_SEATALK, IF active THEN 1 ELSE 0>> >>
  ELSE <<>>

\* l after n characters were read.
Advanced(n) == [l EXCEPT !.lastCR = FALSE, !.cached = TRUE, !.position = @ + n]

Parameter1(active, baud, n) ==
  /\ g' = [g EXCEPT !.seatalkActive = active]
  /\ l' = [Advanced(n) EXCEPT !.baudA = baud]
  /\ todo' = Changed(EEPROM_BAUD_A, baud, l.baudA) \o SeatalkWrites(active)

\* Mutant: the character itself is saved.
Parameter2Raw(baud) ==
  /\ l' = [Advanced(1) EXCEPT !.baudB = baud]
  /\ todo' = Changed(EEPROM_BAUD_B, (baud + Zero) % 256, l.baudB)
  /\ UNCHANGED g

Parameter2(baud) ==
  /\ l' = [Advanced(1) EXCEPT !.baudB = baud]
  /\ todo' = Changed(EEPROM_BAUD_B, baud, l.baudB)
  /\ UNCHANGED g

Parameter3(out) ==
  /\ l' = [Advanced(1) EXCEPT !.outputs = out]
  /\ todo' = Changed(EEPROM_OUTPUT, out, l.outputs)
  /\ UNCHANGED g

\* The vessel: what is left of the line, and the first character of its end.
Parameter4 ==
  LET rest == SubSeq(card.text, l.position + 1, Len(card.text))
      n == Before(rest, LineEnds)
      vesselID == strtoul(SubSeq(rest, 1, n))
  IN /\ l' = [Advanced(IF n < Len(rest) THEN n + 1 ELSE n) EXCEPT !.vesselID = vesselID]
     /\ todo' = VesselWrites(vesselID)
     /\ UNCHANGED g

\* Any other character belongs to the parameter of its line.
ConfigChar ==
  /\ Parsing /\ ReadSucceeds /\ Next1 \notin LineEnds
  /\ \/ /\ l.paramCount = 1 /\ Next1 = Small_s
        /\ Parameter1(TRUE, Code(CharAt(l.position + 2)), 2)
     \/ /\ l.paramCount = 1 /\ Next1 # Small_s
        /\ Parameter1(FALSE, Code(Next1), 1)
     \/ l.paramCount = 2 /\ Parameter2(Code(Next1))
     \/ l.paramCount = 3 /\ Parameter3(Code(Next1))
     \/ l.paramCount = 4 /\ Parameter4
     \/ /\ l.paramCount \notin 1..4
        /\ l' = Advanced(1)
        /\ UNCHANGED <<todo, g>>
  /\ UNCHANGED <<pc, eeprom, environment, source, tainted>>

\* The card is gone before the first block was read: read() answers -1 for
\* ever, which is taken for a character; available() stays positive.
ReadFails ==
  /\ Parsing /\ ~ReadSucceeds
  /\ g' = [g EXCEPT !.seatalkActive = FALSE]
  /\ l' = [l EXCEPT !.lastCR = FALSE, !.baudA = Code(255)]
  /\ todo' = Changed(EEPROM_BAUD_A, Code(255), l.baudA) \o SeatalkWrites(FALSE)
  /\ tainted' = TRUE
  /\ UNCHANGED <<pc, eeprom, environment, source>>

\* eeprom_write_byte()
EEPROMWrite ==
  /\ pc = "parse" /\ todo # <<>>
  /\ eeprom' = [eeprom EXCEPT ![todo[1][1]] = todo[1][2]]
  /\ todo' = Tail(todo)
  /\ UNCHANGED <<pc, l, g, environment, source, tainted>>

CloseConfig ==
  /\ pc = "parse" /\ todo = <<>> /\ l.position >= Len(card.text)
  /\ pc' = "outputs"
  /\ UNCHANGED <<eeprom, todo, l, g, environment, source, tainted>>

-----------------------------------------------------------------------------
\* The bits of outputs, unless it is erased.
Outputs ==
  /\ pc = "outputs" /\ pc' = "remove"
  /\ g' = IF l.outputs < 128
          THEN [g EXCEPT !.outputVcc = (l.outputs % 2 = 1),
                         !.outputGyro = ((l.outputs \div 2) % 2 = 1)]
          ELSE g
  /\ UNCHANGED <<eeprom, todo, l, environment, source, tainted>>

\* outputParameter(): the old file goes, the new one is written and closed.
\* What becomes of it when the power goes in between is SdFile's matter.
RemoveCnf ==
  /\ pc = "remove" /\ pc' = "cnf"
  /\ card' = IF mounted THEN [card EXCEPT !.cnf = NoForm] ELSE card
  /\ UNCHANGED <<eeprom, todo, l, g, mounted, events, source, tainted>>

WriteCnf ==
  /\ pc = "cnf" /\ pc' = "ports"
  /\ card' = IF mounted
             THEN [card EXCEPT !.cnf =
                     [seatalk |-> g.seatalkActive, baudA |-> l.baudA,
                      baudB |-> l.baudB, outputs |-> l.outputs,
                      vessel |-> l.vesselID]]
             ELSE card
  /\ UNCHANGED <<eeprom, todo, l, g, mounted, events, source, tainted>>

\* initSerials(), for each port its own begin() with the baud rate, SeaTalk
\* always with 4800 baud and nine bits.
OpenPorts ==
  /\ pc = "ports" /\ pc' = "run"
  /\ LET openA == l.baudA \in 1..5
         openB == l.baudB \in 1..3
         asA == IF g.seatalkActive
                THEN [baud |-> 4800, bits |-> 9]
                ELSE [baud |-> BAUDRATES[l.baudA], bits |-> 8]
         asB == [baud |-> BAUDRATES[l.baudB], bits |-> 8]
     IN g' = [g EXCEPT !.firstSerial = @ \/ openA, !.secondSerial = @ \/ openB,
                       !.port = [A |-> IF openA THEN asA ELSE Closed,
                                 B |-> IF openB THEN asB ELSE Closed]]
  /\ UNCHANGED <<eeprom, todo, l, environment, source, tainted>>

-----------------------------------------------------------------------------
(***************************************************************************)
(* The environment.                                                        *)
(***************************************************************************)
CountEvent == events < MaxEvents /\ events' = events + 1

\* The power goes; a cell that is being programmed may be left erased.
PowerCut ==
  /\ pc # "off" /\ CountEvent
  /\ pc' = "off"
  /\ todo' = <<>>
  /\ \/ UNCHANGED eeprom
     \/ /\ todo # <<>>
        /\ eeprom' = [eeprom EXCEPT ![todo[1][1]] = Erased]
  /\ UNCHANGED <<l, g, card, mounted, source, tainted>>

CardPulled ==
  /\ pc # "off" /\ mounted /\ CountEvent
  /\ mounted' = FALSE
  /\ UNCHANGED <<pc, eeprom, todo, l, g, card, source, tainted>>

\* Another card, or the same with another config.dat.
ChangeCard ==
  /\ pc = "off" /\ CountEvent
  /\ card' \in Cards
  /\ UNCHANGED <<pc, eeprom, todo, l, g, mounted, source, tainted>>

Program ==
  \/ OpenConfig \/ LineEnd \/ ConfigChar \/ ReadFails \/ EEPROMWrite
  \/ CloseConfig \/ Outputs \/ RemoveCnf \/ WriteCnf \/ OpenPorts

Next == ReadEEPROM \/ Program \/ PowerCut \/ CardPulled \/ ChangeCard

\* A processor that has power runs.
Spec == Init /\ [][Next]_vars /\ WF_vars(Program)

-----------------------------------------------------------------------------
(***************************************************************************)
(* Types: every parameter fits its cell.                                   *)
(***************************************************************************)
LocalsType ==
  [baudA : Byte, baudB : Byte, seatalk : Byte, outputs : Byte, vesselID : Vessel,
   paramCount : Byte, lastCR : BOOLEAN, position : Nat, cached : BOOLEAN]
PortType == [baud : Nat, bits : {0, 8, 9}]
GlobalsType ==
  [seatalkActive : BOOLEAN, firstSerial : BOOLEAN, secondSerial : BOOLEAN,
   outputVcc : BOOLEAN, outputGyro : BOOLEAN, port : [{"A", "B"} -> PortType]]

\* The file on the card is empty or missing, or one that is known.
CardOK ==
  /\ card = [text |-> card.text, form |-> card.form, cnf |-> card.cnf]
  /\ \/ card.text = NoText /\ card.form = NoForm
     \/ card.form \in Forms /\ card.text = Download(card.form)
     \/ card.form = Foreign /\ card.text \in OtherTexts

TypeOK ==
  /\ pc \in {"off", "open", "parse", "outputs", "remove", "cnf", "ports", "run"}
  /\ eeprom \in [Cells -> Byte]
  /\ todo \in Seq(Cells \X Byte)
  /\ l \in LocalsType /\ g \in GlobalsType
  /\ mounted \in BOOLEAN /\ tainted \in BOOLEAN
  /\ events \in 0..MaxEvents
  /\ source \in Forms \cup {NoForm, Foreign}
  /\ CardOK

-----------------------------------------------------------------------------
(***************************************************************************)
(* How far a start has come with a config.dat of form f: it has read k     *)
(* parameters, and j characters of the line end after the last of them.    *)
(***************************************************************************)
EolLen(f) == Len(f.eol)

\* Where the k-th parameter ends.
EndOf(f, k) ==
  (IF f.seatalk THEN 1 ELSE 0) + (k - 1) * EolLen(f)
    + (IF k = 4 THEN 3 + 2 * VesselBytes ELSE k)

\* The first character of the last line end is read with the vessel.
ReadUpTo(f, k, j) ==
  /\ j \in (IF k = 4 THEN 1..EolLen(f) ELSE 0..EolLen(f))
  /\ l.position = EndOf(f, k) + j
  /\ l.lastCR <=> j > (IF k = 4 THEN 1 ELSE 0)
  /\ l.paramCount = IF l.lastCR THEN k + 1 ELSE k

Agrees(f, k) ==
  /\ k >= 1 => l.baudA = f.baudA /\ g.seatalkActive = f.seatalk
  /\ k >= 2 => l.baudB = f.baudB
  /\ k >= 3 => l.outputs = f.outputs
  /\ k = 4 => l.vesselID = f.vessel

NothingRead ==
  /\ l.position = 0 /\ l.paramCount = 1 /\ ~l.lastCR
  /\ todo = <<>> /\ l.seatalk = eeprom[EEPROM_SEATALK]
ReadSoFar(f) == NothingRead \/ \E k \in 1..4, j \in 0..2 : ReadUpTo(f, k, j) /\ Agrees(f, k)

\* The card was pulled before the first block was read: no way out.
Stuck == pc = "parse" /\ ~l.cached /\ ~mounted

After == {"outputs", "remove", "cnf", "ports", "run"}

FollowsFile ==
  /\ ~l.cached => l.position = 0
  /\ pc # "parse" => todo = <<>>
  /\ pc = "open" => source = NoForm /\ NothingRead
  /\ pc = "parse" => source = card.form /\ card.text # NoText
  /\ pc = "parse" /\ source \in Forms => ReadSoFar(source) \/ Stuck
  /\ pc \in After /\ source \in Forms => Agrees(source, 4)

\* What the sketch has made of the parameters.
OutputsFrom(o) ==
  /\ g.outputVcc <=> o < 128 /\ o % 2 = 1
  /\ g.outputGyro <=> (o < 128 => (o \div 2) % 2 = 1)

PortFor(code, last, nine) ==
  IF code \notin 1..last THEN Closed
  ELSE IF nine THEN [baud |-> 4800, bits |-> 9]
  ELSE [baud |-> BAUDRATES[code], bits |-> 8]

UsesParameters ==
  /\ pc \in {"open", "parse", "outputs"} => ~g.outputVcc /\ g.outputGyro
  /\ pc \in {"remove", "cnf", "ports", "run"} => OutputsFrom(l.outputs)
  /\ pc \in {"open", "parse", "outputs", "remove", "cnf", "ports"} =>
       /\ g.firstSerial <=> source = NoForm
       /\ g.secondSerial <=> source = NoForm
  /\ pc = "run" =>
       /\ g.port = [A |-> PortFor(l.baudA, 5, g.seatalkActive),
                    B |-> PortFor(l.baudB, 3, FALSE)]
       /\ g.firstSerial <=> source = NoForm \/ l.baudA \in 1..5
       /\ g.secondSerial <=> source = NoForm \/ l.baudB \in 1..3

(***************************************************************************)
(* A logger that has read config.dat to the end runs as the form says,     *)
(* whatever the EEPROM held and however an earlier start was cut short:    *)
(* ports, SeaTalk, outputs, vessel (getParameters(), initSerials()).  For  *)
(* the values the form offers.                                             *)
(***************************************************************************)
RunsAsTheFormSays ==
  pc = "run" /\ source \in Forms =>
    /\ g.port["A"] = PortFor(source.baudA, 5, source.seatalk)
    /\ g.port["B"] = PortFor(source.baudB, 3, FALSE)
    /\ g.firstSerial <=> g.port["A"] # Closed
    /\ g.secondSerial <=> g.port["B"] # Closed
    /\ g.seatalkActive = source.seatalk
    /\ g.outputVcc <=> source.outputs \in {1, 3}
    /\ g.outputGyro <=> source.outputs \in {2, 3}
    /\ l.vesselID = source.vessel

OpenedAsConfigured == FollowsFile /\ UsesParameters /\ RunsAsTheFormSays

-----------------------------------------------------------------------------
(***************************************************************************)
(* What a cell will hold when the writes of this statement are done.       *)
(***************************************************************************)
Will(x, v) ==
  \/ \E i \in DOMAIN todo : todo[i] = <<x, v>>
  \/ eeprom[x] = v /\ \A i \in DOMAIN todo : todo[i][1] # x

OnceEach == \A i, j \in DOMAIN todo : todo[i][1] = todo[j][1] => i = j

\* The flag is never 6, which would be read as 0 and compared as 1.
SeatalkCell ==
  /\ eeprom[EEPROM_SEATALK] \in {0, 1, Erased}
  /\ \A i \in DOMAIN todo : todo[i][1] = EEPROM_SEATALK => todo[i][2] \in {0, 1}

Saved ==
  /\ \E v \in Byte : Will(EEPROM_BAUD_A, v) /\ AcceptedA(v) = l.baudA
  /\ \E v \in Byte : Will(EEPROM_BAUD_B, v) /\ AcceptedB(v) = l.baudB
  /\ \E v \in Byte : Will(EEPROM_SEATALK, v) /\ (g.seatalkActive <=> v \in 1..5)
  /\ Will(EEPROM_OUTPUT, l.outputs)
  /\ \A k \in 1..VesselBytes : Will(VesselCell(k), l.vesselID[k])

SavesWhatItUses ==
  /\ OnceEach /\ SeatalkCell
  /\ pc # "off" /\ source # Foreign => Saved \/ Stuck

(***************************************************************************)
(* "save changed parameters to EEPROM": a start without config.dat would   *)
(* give what this start gave, although only differences are written and    *)
(* the cells are compared as they were, or corrected, at the beginning.    *)
(***************************************************************************)
RunsAsSaved ==
  pc = "run" /\ source # Foreign =>
      LET a == AcceptedA(eeprom[EEPROM_BAUD_A])
          b == AcceptedB(eeprom[EEPROM_BAUD_B])
          s == eeprom[EEPROM_SEATALK] \in 1..5
      IN /\ g.port = [A |-> PortFor(a, 5, s), B |-> PortFor(b, 3, FALSE)]
         /\ g.seatalkActive <=> s
         /\ OutputsFrom(eeprom[EEPROM_OUTPUT])
         /\ l.vesselID = VesselIn(eeprom)

RestartKeepsSettings == SavesWhatItUses /\ RunsAsSaved

(***************************************************************************)
(* A power cut leaves no setting nobody chose: each cell is erased or      *)
(* holds what some form says.  Not so once a read of config.dat has        *)
(* failed, and not for files no form describes.                            *)
(***************************************************************************)
CellsOf(f) ==
  {<<EEPROM_BAUD_A, f.baudA>>, <<EEPROM_BAUD_B, f.baudB>>, <<EEPROM_OUTPUT, f.outputs>>,
   <<EEPROM_SEATALK, IF f.seatalk THEN 1 ELSE 0>>}
  \cup {VesselWrites(f.vessel)[k] : k \in 1..VesselBytes}

CellsChosen ==
  \A x \in Cells : eeprom[x] = Erased \/ \E f \in Forms : <<x, eeprom[x]>> \in CellsOf(f)

WritesChosen ==
  /\ pc = "parse" => source \in Forms
  /\ \A i \in DOMAIN todo : todo[i] \in CellsOf(source)

ChosenOrErased == TypeOK /\ (tainted \/ (CellsChosen /\ WritesChosen))

(***************************************************************************)
(* A start comes to its end, whatever config.dat holds, unless the power   *)
(* goes or the card is pulled: then available() may answer 1 for ever.     *)
(***************************************************************************)
StartEnds == pc = "open" ~> pc \in {"run", "off"} \/ ~mounted

(***************************************************************************)
(* Comment at OpenSeaMap.ino:34, "6 = 38400 Baud (only NMEA A)": a         *)
(* configuration with this code opens port A with 38400 baud.              *)
(***************************************************************************)
DocumentedBaudRates ==
  pc = "run" /\ source \in Forms /\ ~g.seatalkActive =>
    g.port["A"].baud = IF source.baudA = 0 THEN 0 ELSE BAUDRATES[source.baudA]

=============================================================================
