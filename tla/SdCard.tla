------------------------------- MODULE SdCard -------------------------------
(***************************************************************************)
(* The driver of the card (libraries/SdFat/Sd2Card.cpp) below module       *)
(* SdFile, with a card as the driver uses it.  The card may be pulled at   *)
(* any command or in the middle of a block, be slower than the driver      *)
(* waits, refuse a block, and be exchanged for one of another kind.        *)
(*                                                                         *)
(* A call is a function from the state it finds to the set of states it    *)
(* may leave; "ok" is its result.  USE_SD_CRC and CHECK_PROGRAMMING are 0, *)
(* so nobody looks at what arrives once the start token was seen.          *)
(***************************************************************************)
EXTENDS Integers

CONSTANTS
  Models,       \* cards: kind, CSD register
  Blocks,       \* number of blocks that are looked at
  BlockBytes,   \* 512 in the code
  SectorMask    \* erase sector in blocks, less one

\* The fields of the two versions of the CSD register.
CsdV1 == [csd_ver : {0}, c_size_high : 0..3, c_size_mid : 0..255, c_size_low : 0..3,
          c_size_mult_high : 0..3, c_size_mult_low : 0..1, read_bl_len : 9..11]
CsdV2 == [csd_ver : {1}, c_size_high : 0..63, c_size_mid : 0..255, c_size_low : 0..255]
CardModel == [kind : {"SD1", "SD2", "SDHC"}, eraseSingle : BOOLEAN, csd : CsdV1 \cup CsdV2]

SdCardAssumption ==
  /\ Models \subseteq CardModel /\ Models # {}
  /\ Blocks \in Nat \ {0} /\ BlockBytes \in Nat \ {0} /\ SectorMask \in Nat

Block == 0..(Blocks - 1)
None == -1
CSD == -2
Old(b) == <<"old", b>>
New == <<"new", 0>>        \* what the calls write
Erased == <<"erased", 0>>
Torn == <<"torn", 0>>      \* what is read from a card that is pulled

NoCard == [in |-> FALSE, model |-> CHOOSE m \in Models : TRUE, mode |-> "off", app |-> FALSE,
           sends |-> None, takes |-> None, busy |-> FALSE, from |-> None, to |-> None,
           preErase |-> 0, block |-> [b \in Block |-> Old(b)]]

VARIABLES
  card,    \* the card in the slot: see Obeys
  type,    \* m_type
  stage,   \* the command begin() is at; "begun" once it has returned true
  seq,     \* history: the multi-block sequence under way, and its next block
  slow     \* history: since begin(), the card was busy for longer than waited for

vars == <<card, type, stage, seq, slow>>

NoSeq == [op |-> "none", next |-> None]
Start(c, ty) == [card |-> c, type |-> ty, ok |-> TRUE, r1 |-> 0, reply |-> "none",
                 got |-> Torn, slow |-> FALSE, torn |-> FALSE]
Ok(s) == [s EXCEPT !.ok = TRUE]
Fail(s) == [s EXCEPT !.ok = FALSE]
Then(S, Next1(_)) == UNION {IF s.ok THEN Next1(s) ELSE {s} : s \in S}

-----------------------------------------------------------------------------
(***************************************************************************)
(* The card (external).  mode is "off" before CMD0, "idle" before ACMD41,  *)
(* "ready", or "reading" and "writing" in a multi-block sequence.          *)
(***************************************************************************)
Answer(s, r1) == [s EXCEPT !.r1 = r1, !.reply = "none", !.card.app = FALSE]
BlockOf(s, arg) ==
  IF s.card.model.kind = "SDHC" THEN arg
  ELSE IF arg % BlockBytes = 0 THEN arg \div BlockBytes ELSE None

\* Commands of a card that is ready; the others it only refuses.
Transfer(s, cmd, arg) ==
  LET b == BlockOf(s, arg)
      size == IF s.card.model.eraseSingle THEN 1 ELSE SectorMask + 1
      Low == size * (s.card.from \div size)
      High == size * (s.card.to \div size) + size - 1
      Wipe(t, lo, hi) == [t EXCEPT !.card.block = [x \in Block |-> IF x \in lo..hi THEN Erased ELSE @[x]]]
  IN IF s.card.mode # "ready" \/ (cmd \in {"CMD17", "CMD18", "CMD24", "CMD25", "CMD32", "CMD33"}
                                  /\ b \notin Block)
     THEN {Answer(s, 4)}
     ELSE CASE cmd = "CMD9"  -> {[Answer(s, 0) EXCEPT !.card.sends = CSD]}
            [] cmd = "CMD17" -> {[Answer(s, 0) EXCEPT !.card.sends = b]}
            [] cmd = "CMD18" -> {[Answer(s, 0) EXCEPT !.card.sends = b, !.card.mode = "reading"]}
            [] cmd = "CMD24" -> {[Answer(s, 0) EXCEPT !.card.takes = b]}
            [] cmd = "CMD25" ->
                 {[t EXCEPT !.card.takes = b, !.card.mode = "writing", !.card.preErase = 0] :
                    t \in {Answer(s, 0), Wipe(Answer(s, 0), b, b + s.card.preErase - 1)}}
            [] cmd = "ACMD23" -> {[Answer(s, 0) EXCEPT !.card.preErase = arg]}
            [] cmd = "CMD32" -> {[Answer(s, 0) EXCEPT !.card.from = b]}
            [] cmd = "CMD33" -> {[Answer(s, 0) EXCEPT !.card.to = b]}
            [] cmd = "CMD38" -> {[Wipe(Answer(s, 0), Low, High) EXCEPT !.card.busy = busy] :
                                   busy \in BOOLEAN}

\* Commands of a card that was started.
Follows(s, cmd, arg) ==
  LET R1 == IF s.card.mode = "idle" THEN 1 ELSE 0
      Refuses == Answer(s, R1 + 4)
      Grown == s.card.model.kind # "SDHC" \/ arg = "HCS"
  IN CASE cmd = "CMD55" -> {[Answer(s, R1) EXCEPT !.card.app = TRUE]}
       [] cmd = "CMD8" ->
            {IF s.card.model.kind = "SD1" THEN Refuses ELSE [Answer(s, R1) EXCEPT !.reply = "AA"]}
       [] cmd = "ACMD41" ->
            IF ~s.card.app THEN {Refuses}
            ELSE {Answer(s, R1)}
                 \cup (IF Grown THEN {[Answer(s, 0) EXCEPT !.card.mode = "ready"]} ELSE {})
       [] cmd = "CMD58" ->
            {[Answer(s, R1) EXCEPT !.reply = IF s.card.model.kind = "SDHC" THEN "CCS" ELSE "none"]}
       [] cmd = "CMD12" ->
            {IF s.card.mode # "reading" THEN Refuses
             ELSE [Answer(s, 0) EXCEPT !.card.mode = "ready", !.card.sends = None]}
       [] cmd = "ACMD23" -> IF ~s.card.app THEN {Refuses} ELSE Transfer(s, cmd, arg)
       [] OTHER -> Transfer(s, cmd, arg)

Obeys(s, cmd, arg) ==
  IF cmd = "CMD0"
  THEN {[Answer(s, 1) EXCEPT !.card.mode = "idle", !.card.sends = None, !.card.takes = None]}
  ELSE IF s.card.mode = "off" THEN {Answer(s, 255)}
  ELSE Follows(s, cmd, arg)

\* The card may be pulled before the next byte.
Pulled(s) == {s, [s EXCEPT !.card = NoCard]}

-----------------------------------------------------------------------------
(***************************************************************************)
(* Sd2Card.                                                                *)
(***************************************************************************)
waitNotBusy(s) ==
  IF s.card.busy THEN {[Ok(s) EXCEPT !.card.busy = FALSE], [Fail(s) EXCEPT !.slow = TRUE]}
  ELSE {Ok(s)}

\* Deselected, a card gives up the single block it was to send.
chipSelectHigh(s) ==
  [s EXCEPT !.card.sends = IF s.card.mode = "reading" THEN @ ELSE None]

\* Whether the card is still busy is not looked at; it then holds the line
\* low, which reads as the answer 0.  ok is left TRUE; r1 has the answer.
cardCommand(s, cmd, arg) ==
  LET Answers(t) == IF ~t.card.in THEN {Answer(t, 255)}
                    ELSE IF t.card.busy THEN {Answer(t, 0)}
                    ELSE Obeys(t, cmd, arg)
  IN {Ok(t) : t \in UNION {Answers(u) : u \in UNION {Pulled(w) : w \in waitNotBusy(s)}}}

cardAcmd(s, cmd, arg) == UNION {cardCommand(t, cmd, arg) : t \in cardCommand(s, "CMD55", 0)}

\* The answer must be 0.
Must(S) == {IF t.r1 = 0 THEN Ok(t) ELSE Fail(chipSelectHigh(t)) : t \in S}
Command(s, cmd, arg) == Must(cardCommand(s, cmd, arg))

Address(s, b) == IF s.type = "SDHC" THEN b ELSE b * BlockBytes

\* Mutant: whatever comes in the place of the start token is taken for it.
readDataAnyToken(s) ==
  LET Sent(t) == [t EXCEPT !.got = IF t.card.sends \in Block THEN t.card.block[t.card.sends] ELSE Torn,
                           !.card.sends = IF t.card.mode = "reading" THEN @ + 1 ELSE None]
      Lost(t) == [t EXCEPT !.card = NoCard, !.got = Torn, !.torn = TRUE]
  IN {chipSelectHigh(t) :
        t \in IF s.card.busy THEN {[Ok(s) EXCEPT !.got = Torn]}
              ELSE IF ~s.card.in \/ s.card.sends \notin Block \cup {CSD} THEN {Fail(s)}
              ELSE {Ok(Sent(s)), Ok(Lost(s)), Fail(s)}}

\* No token comes, an error token or, from a busy card, zeros; or the data.
readData(s) ==
  LET Sent(t) == [t EXCEPT !.got = IF t.card.sends \in Block THEN t.card.block[t.card.sends] ELSE Torn,
                           !.card.sends = IF t.card.mode = "reading" THEN @ + 1 ELSE None]
      Lost(t) == [t EXCEPT !.card = NoCard, !.got = Torn, !.torn = TRUE]
  IN {chipSelectHigh(t) :
        t \in IF ~s.card.in \/ s.card.busy \/ s.card.sends \notin Block \cup {CSD} THEN {Fail(s)}
              ELSE {Ok(Sent(s)), Ok(Lost(s)), Fail(s)}}

readBlock(s, b) == Then(Command(s, "CMD17", Address(s, b)), readData)
readStart(s, b) == {chipSelectHigh(t) : t \in Command(s, "CMD18", Address(s, b))}
readStop(s) == {chipSelectHigh(t) : t \in Command(s, "CMD12", 0)}
readCSD(s) == Then(Command(s, "CMD9", 0), readData)

\* One block after its token; the card accepts it, or refuses it, or does not
\* know what it is: a sequence has a token of its own.
sendData(s, single) ==
  LET Stored(t, v) == [t EXCEPT !.card.block = IF t.card.takes \in Block
                                               THEN [@ EXCEPT ![t.card.takes] = v] ELSE @,
                                !.card.takes = IF t.card.mode = "writing" THEN @ + 1 ELSE None]
  IN {chipSelectHigh(t) :
        t \in IF ~s.card.in \/ s.card.busy \/ s.card.takes \notin Block
                 \/ single # (s.card.mode # "writing")
              THEN {Fail(s)}
              ELSE {[Ok(Stored(s, New)) EXCEPT !.card.busy = busy] : busy \in BOOLEAN}
                   \cup {Fail([s EXCEPT !.card.takes = IF s.card.mode = "writing" THEN @ ELSE None])}
                   \cup {Fail([s EXCEPT !.card = NoCard])}}

writeBlock(s, b) ==
  LET Send(t) == sendData(t, TRUE)
  IN Then(Command(s, "CMD24", Address(s, b)), Send)
writeStart(s, b, count) ==
  LET Begin(t) == Command(t, "CMD25", Address(t, b))
  IN {chipSelectHigh(t) : t \in Then(Must(cardAcmd(s, "ACMD23", count)), Begin)}

writeData(s) ==
  LET Send(t) == sendData(t, FALSE)
  IN Then(waitNotBusy(s), Send)
writeStop(s) ==
  LET Token(t) ==
        IF t.card.in /\ t.card.mode = "writing"
        THEN {[t EXCEPT !.card.mode = "ready", !.card.takes = None, !.card.busy = busy] :
                busy \in BOOLEAN}
        ELSE {t}
  IN {chipSelectHigh(t) : t \in Then(Then(waitNotBusy(s), Token), waitNotBusy)}

erase(s, first, last) ==
  LET Fits(t) == IF \/ t.card.model.eraseSingle
                    \/ first % (SectorMask + 1) = 0 /\ (last + 1) % (SectorMask + 1) = 0
                 THEN {t} ELSE {Fail(t)}
      From(t) == Command(t, "CMD32", Address(t, first))
      To(t) == Command(t, "CMD33", Address(t, last))
      Erase(t) == Command(t, "CMD38", 0)
  IN {chipSelectHigh(t) :
        t \in Then(Then(Then(Then(Then(readCSD(s), Fits), From), To), Erase), waitNotBusy)}

\* The size in blocks, from the fields of the CSD register.
cardSize(csd) ==
  LET c_size1 == (csd.c_size_high * 1024 + csd.c_size_mid * 4 + csd.c_size_low) % 65536
      c_size_mult == csd.c_size_mult_high * 2 + csd.c_size_mult_low
      c_size2 == 65536 * csd.c_size_high + 256 * csd.c_size_mid + csd.c_size_low
  IN IF csd.csd_ver = 0 THEN (c_size1 + 1) * 2^(c_size_mult + csd.read_bl_len - 7)
     ELSE IF csd.csd_ver = 1 THEN (c_size2 + 1) * 1024 ELSE 0

-----------------------------------------------------------------------------
Call(op, first, last) == [op |-> op, first |-> first, last |-> last]
Calls ==
  {Call(op, 0, 0) : op \in {"readData", "readStop", "writeData", "writeStop", "cardSize"}}
  \cup {Call(op, b, b) : op \in {"readBlock", "readStart", "writeBlock"}, b \in Block}
  \cup {Call(op, b, e) : op \in {"erase", "writeStart"}, b \in Block, e \in Block}

Legal(c) ==
  /\ stage = "begun"
  /\ CASE c.op \in {"readData", "readStop"} -> seq.op = "read"
       [] c.op \in {"writeData", "writeStop"} -> seq.op = "write"
       [] OTHER -> seq.op = "none" /\ c.first <= c.last

Do(s, c) ==
  CASE c.op = "readBlock" -> readBlock(s, c.first)
    [] c.op = "readStart" -> readStart(s, c.first)
    [] c.op = "readData" -> readData(s)
    [] c.op = "readStop" -> readStop(s)
    [] c.op = "writeBlock" -> writeBlock(s, c.first)
    [] c.op = "writeStart" -> writeStart(s, c.first, c.last - c.first + 1)
    [] c.op = "writeData" -> writeData(s)
    [] c.op = "writeStop" -> writeStop(s)
    [] c.op = "erase" -> erase(s, c.first, c.last)
    [] c.op = "cardSize" -> readCSD(s)

After(c, ok) ==
  CASE c.op = "readStart" /\ ok -> [op |-> "read", next |-> c.first]
    [] c.op = "writeStart" /\ ok -> [op |-> "write", next |-> c.first]
    [] c.op \in {"readData", "writeData"} /\ ok -> [seq EXCEPT !.next = @ + 1]
    [] c.op \in {"readStop", "writeStop"} -> NoSeq
    [] OTHER -> seq

Init == card = NoCard /\ type = "none" /\ stage = "none" /\ seq = NoSeq /\ slow = FALSE

Insert == /\ ~card.in
          /\ card' \in {[NoCard EXCEPT !.in = TRUE, !.model = m] : m \in Models}
          /\ UNCHANGED <<type, stage, seq, slow>>
Remove == card.in /\ card' = NoCard /\ UNCHANGED <<type, stage, seq, slow>>

(***************************************************************************)
(* begin(), a turn of its loops at a time.  A loop goes on until the       *)
(* answer is a wanted one, or the time is up; the sketch then calls        *)
(* begin() again.                                                          *)
(***************************************************************************)
StartBegin == /\ stage \in {"none", "begun"}
              /\ type' = "none" /\ stage' = "CMD0" /\ seq' = NoSeq
              /\ UNCHANGED <<card, slow>>

Goes(t, ty, to) ==
  /\ card' = (IF to \in {"none", "begun"} THEN chipSelectHigh(t) ELSE t).card
  /\ type' = ty /\ stage' = to
  /\ slow' = (slow /\ to # "begun")
  /\ UNCHANGED seq

GoIdle ==
  /\ stage = "CMD0"
  /\ \E t \in cardCommand(Start(card, type), "CMD0", 0) :
       IF t.r1 = 1 THEN Goes(t, type, "CMD8") ELSE Goes(t, type, "CMD0") \/ Goes(t, type, "none")

Version ==
  /\ stage = "CMD8"
  /\ \E t \in cardCommand(Start(card, type), "CMD8", "1AA") :
       IF t.r1 = 5 THEN Goes(t, "SD1", "ACMD41")
       ELSE IF t.reply = "AA" THEN Goes(t, "SD2", "ACMD41")
       ELSE Goes(t, type, "CMD8") \/ Goes(t, type, "none")

Initialize ==
  /\ stage = "ACMD41"
  /\ \E t \in cardAcmd(Start(card, type), "ACMD41", IF type = "SD2" THEN "HCS" ELSE "0") :
       IF t.r1 = 0 THEN Goes(t, type, IF type = "SD2" THEN "CMD58" ELSE "begun")
       ELSE Goes(t, type, "ACMD41") \/ Goes(t, type, "none")

HighCapacity ==
  /\ stage = "CMD58"
  /\ \E t \in cardCommand(Start(card, type), "CMD58", 0) :
       IF t.r1 = 0 THEN Goes(t, IF t.reply = "CCS" THEN "SDHC" ELSE type, "begun")
       ELSE Goes(t, type, "none")

begin == StartBegin \/ GoIdle \/ Version \/ Initialize \/ HighCapacity

Carry(c) == /\ Legal(c)
            /\ \E t \in Do(Start(card, type), c) :
                 card' = t.card /\ seq' = After(c, t.ok) /\ slow' = (slow \/ t.slow)
            /\ UNCHANGED <<type, stage>>

Next == Insert \/ Remove \/ begin \/ (\E c \in Calls : Carry(c))

Spec == Init /\ [][Next]_vars

-----------------------------------------------------------------------------
(***************************************************************************)
(* What holds between the calls.                                           *)
(***************************************************************************)
CardState == [in : BOOLEAN, model : Models, app : BOOLEAN, busy : BOOLEAN,
              mode : {"off", "idle", "ready", "reading", "writing"},
              sends : Int, takes : Int, from : Int, to : Int, preErase : Int,
              block : [Block -> {Old(b) : b \in Block} \cup {New, Erased}]]

\* A card that has not been started does nothing.
SoundCard(c) ==
  /\ c \in CardState
  /\ c.in \/ c.mode = "off"
  /\ c.mode \in {"off", "idle"} => ~c.busy
  /\ c.mode = "off" => c.sends = None /\ c.takes = None

TypeOK ==
  /\ SoundCard(card)
  /\ type \in {"none", "SD1", "SD2", "SDHC"}
  /\ stage \in {"none", "CMD0", "CMD8", "ACMD41", "CMD58", "begun"}
  /\ seq \in [op : {"none", "read", "write"}, next : Int]
  /\ slow \in BOOLEAN

\* begin() knows the card it talks to, or finds it gone.
Known ==
  /\ stage \in {"CMD8", "ACMD41"} => card.mode \in {"off", "idle"}
  /\ stage = "ACMD41" =>
       /\ type \in {"SD1", "SD2"}
       /\ card.mode # "off" => (type = "SD1" <=> card.model.kind = "SD1")
  /\ stage = "CMD58" =>
       /\ type = "SD2" /\ card.mode \in {"off", "ready"} /\ ~card.busy
       /\ card.mode # "off" => card.model.kind # "SD1"
  /\ stage = "begun" /\ card.mode # "off" => card.mode # "idle" /\ type = card.model.kind

\* Driver and card are at the same block of a sequence.
InStep(c, q) ==
  CASE q.op = "none" -> c.mode = "ready"
    [] q.op = "read" -> c.mode = "reading" /\ c.sends = q.next
    [] q.op = "write" -> c.mode = "writing" /\ c.takes = q.next

Sequence ==
  /\ stage # "begun" => seq = NoSeq
  /\ seq.op # "none" => seq.next \in Nat
  /\ stage = "begun" /\ ~slow /\ card.mode # "off" => InStep(card, seq)

CardInv == TypeOK /\ Known /\ Sequence

-----------------------------------------------------------------------------
\* Bytes of a card by the register, in blocks.
Capacity(csd) ==
  IF csd.csd_ver = 0
  THEN ((csd.c_size_low + 4 * csd.c_size_mid + 1024 * csd.c_size_high + 1)
        * 2^(csd.c_size_mult_low + 2 * csd.c_size_mult_high + 2) * 2^csd.read_bl_len) \div 512
  ELSE (csd.c_size_low + 256 * csd.c_size_mid + 65536 * csd.c_size_high + 1) * 1024

\* The blocks a call may change.
Targets(c) ==
  CASE c.op = "writeBlock" -> {c.first}
    [] c.op = "writeData" -> {seq.next}
    [] c.op \in {"erase", "writeStart"} -> c.first..c.last
    [] OTHER -> {}

\* What the call says it does, and no more.
Exact(c, t) ==
  LET done == t.ok /\ ~t.torn
      mine == Targets(c)
  IN /\ t.card.in => \A b \in Block \ mine : t.card.block[b] = card.block[b]
     /\ done /\ c.op = "readBlock" => t.got = card.block[c.first]
     /\ done /\ c.op = "readData" => seq.next \in Block /\ t.got = card.block[seq.next]
     /\ done /\ c.op \in {"writeBlock", "writeData"} =>
          mine \subseteq Block /\ \A b \in mine : t.card.block[b] = New
     /\ done /\ c.op = "erase" /\ t.card.in => \A b \in mine : t.card.block[b] = Erased
     /\ done /\ c.op = "cardSize" => cardSize(card.model.csd) = Capacity(card.model.csd)

\* Whatever cards were in the slot and whatever failed before: a call that
\* answers TRUE has done what it says, to the blocks it was given, and no
\* call changes another block.  Two things are left out that the driver
\* cannot see: a card pulled within a block that is read (torn); and, for
\* sequences and erase(), a card that was busy for longer than it may be
\* (slow), whose zeros are taken for the answer to a command.
BlocksAreExact ==
  \A c \in Calls : Legal(c) =>
    \A t \in Do(Start(card, type), c) :
      c.op \in {"readBlock", "writeBlock", "cardSize"} \/ ~(slow \/ t.slow) => Exact(c, t)

=============================================================================
