----------------------------- MODULE CardProofs -----------------------------
(***************************************************************************)
(* The card.  First its driver: a call that answers TRUE has done what it  *)
(* says, for every number and size of blocks, every erase sector, and      *)
(* every card; the invariant is what driver and card know of each other    *)
(* between the calls and between the steps of begin().  Then its           *)
(* formatter: every card below 64 GB is laid out so that the logger and    *)
(* the boot loader mount it; the invariant says of each step that what was *)
(* written until then follows from the size of the card.                   *)
(***************************************************************************)
EXTENDS SdDriver, Formatter, RingLemmas, FiniteSetTheorems

Content == {Sd!Old(b) : b \in Sd!Block} \cup {Sd!New, Sd!Erased, Sd!Torn}

\* What a call finds and leaves.
State ==
  [card : Sd!CardState, type : {"none", "SD1", "SD2", "SDHC"}, ok : BOOLEAN, r1 : Int,
   reply : {"none", "AA", "CCS"}, got : Content, slow : BOOLEAN, torn : BOOLEAN]
Sound(s) == s \in State /\ Sd!SoundCard(s.card)

\* The driver knows the kind of a card that was started.
Fit(s) == /\ Sound(s)
          /\ s.card.mode # "off" => s.card.mode # "idle" /\ s.type = s.card.model.kind

\* From s to t nothing happened that the driver may not know of: the card is
\* the same, or gone.
SameCard(s, t) ==
  /\ t.type = s.type /\ (s.slow => t.slow) /\ (t.card.in => s.card.in)
  /\ t.card.mode = "off" \/ (s.card.mode # "off" /\ t.card.model = s.card.model)

Untouched(s, t) == t.card.in => t.card.block = s.card.block

\* Nor has it moved within a sequence.
Still(s, t) ==
  \/ t.card.mode = "off"
  \/ /\ t.card.mode = s.card.mode /\ t.card.takes = s.card.takes
     /\ t.card.mode = "reading" => t.card.sends = s.card.sends

\* What a card does at a command it obeys.
Sends(w, b) == [w EXCEPT !.card.sends = b]
Reads(w, b) == [w EXCEPT !.card.sends = b, !.card.mode = "reading"]
Takes(w, b) == [w EXCEPT !.card.takes = b]
Writes(w, b) == [w EXCEPT !.card.takes = b, !.card.mode = "writing", !.card.preErase = 0]
From(w, b) == [w EXCEPT !.card.from = b]
To(w, b) == [w EXCEPT !.card.to = b]
Busy(w, busy) == [w EXCEPT !.card.busy = busy]
AppNext(w) == [w EXCEPT !.card.app = TRUE]
Cleared(w) == [w EXCEPT !.card.mode = "ready", !.card.sends = Sd!None]
Erasing(w, count) == [w EXCEPT !.card.preErase = count]
Wiped(t, lo, hi) ==
  [t EXCEPT !.card.block = [x \in Sd!Block |-> IF x \in lo..hi THEN Sd!Erased ELSE @[x]]]

\* t differs from s in its card at most, and in how the call went.
Like(s, t) == t \in State /\ t.type = s.type /\ t.torn = s.torn /\ t.slow = s.slow

-----------------------------------------------------------------------------
(***************************************************************************)
(* The state of a call.                                                    *)
(***************************************************************************)
LEMMA NewCard ==
  ASSUME NEW u \in State, NEW c \in Sd!CardState, NEW t, t = [u EXCEPT !.card = c]
  PROVE  Like(u, t) /\ t.r1 = u.r1 /\ t.reply = u.reply /\ t.ok = u.ok /\ t.got = u.got /\ t.card = c
BY DEF State, Like

LEMMA Answering ==
  ASSUME NEW u \in State, NEW r1 \in Int
  PROVE  LET t == Sd!Answer(u, r1)
             c == t.card
         IN /\ Like(u, t) /\ t.r1 = r1 /\ t.reply = "none" /\ t.ok = u.ok /\ c \in Sd!CardState
            /\ c.in = u.card.in /\ c.model = u.card.model /\ ~c.app
            /\ c.busy = u.card.busy /\ c.mode = u.card.mode /\ c.sends = u.card.sends
            /\ c.takes = u.card.takes /\ c.from = u.card.from /\ c.to = u.card.to
            /\ c.preErase = u.card.preErase /\ c.block = u.card.block
<1>1. /\ Like(u, Sd!Answer(u, r1)) /\ Sd!Answer(u, r1).r1 = r1
      /\ Sd!Answer(u, r1).reply = "none" /\ Sd!Answer(u, r1).ok = u.ok
      /\ Sd!Answer(u, r1).card = [u.card EXCEPT !.app = FALSE]
      /\ Sd!Answer(u, r1).card \in Sd!CardState
  BY DEF State, Sd!CardState, Sd!Answer, Like
<1>2. u.card \in Sd!CardState
  BY DEF State
<1> QED BY <1>1, <1>2 DEF Sd!CardState

LEMMA Succeeding ==
  ASSUME NEW u \in State
  PROVE  /\ Like(u, Sd!Ok(u)) /\ Sd!Ok(u).r1 = u.r1 /\ Sd!Ok(u).reply = u.reply /\ Sd!Ok(u).ok
         /\ Sd!Ok(u).got = u.got /\ Sd!Ok(u).card = u.card
BY DEF State, Sd!CardState, Sd!Ok, Like

LEMMA Failing ==
  ASSUME NEW u \in State
  PROVE  /\ Like(u, Sd!Fail(u)) /\ Sd!Fail(u).r1 = u.r1 /\ Sd!Fail(u).reply = u.reply
         /\ ~Sd!Fail(u).ok /\ Sd!Fail(u).got = u.got /\ Sd!Fail(u).card = u.card
BY DEF State, Sd!CardState, Sd!Fail, Like

\* chipSelectHigh(), and what it leaves of a card.
LEMMA Deselecting ==
  ASSUME NEW u \in State
  PROVE  /\ Like(u, Sd!chipSelectHigh(u)) /\ Sd!chipSelectHigh(u).r1 = u.r1
         /\ Sd!chipSelectHigh(u).reply = u.reply /\ Sd!chipSelectHigh(u).ok = u.ok
         /\ Sd!chipSelectHigh(u).got = u.got
         /\ LET c == Sd!chipSelectHigh(u).card
            IN /\ c.in = u.card.in /\ c.busy = u.card.busy /\ c.mode = u.card.mode
               /\ c.takes = u.card.takes /\ c.model = u.card.model /\ c.block = u.card.block
               /\ c.from = u.card.from /\ c.to = u.card.to /\ c.preErase = u.card.preErase
               /\ c.app = u.card.app
               /\ c.sends = (IF u.card.mode = "reading" THEN u.card.sends ELSE Sd!None)
<1>1. Sd!None \in Int
  BY DEF Sd!None
<1>2. u.card \in Sd!CardState
  BY DEF State
<1> DEFINE c == [u.card EXCEPT !.sends = IF u.card.mode = "reading" THEN @ ELSE Sd!None]
<1>3. c \in Sd!CardState
  BY <1>1, <1>2 DEF Sd!CardState
<1>4. Sd!chipSelectHigh(u) = [u EXCEPT !.card = c]
  BY <1>2 DEF State, Sd!CardState, Sd!chipSelectHigh
<1>5. /\ c.in = u.card.in /\ c.busy = u.card.busy /\ c.mode = u.card.mode
      /\ c.takes = u.card.takes /\ c.model = u.card.model /\ c.block = u.card.block
      /\ c.from = u.card.from /\ c.to = u.card.to /\ c.preErase = u.card.preErase
      /\ c.app = u.card.app
      /\ c.sends = (IF u.card.mode = "reading" THEN u.card.sends ELSE Sd!None)
  BY <1>2 DEF Sd!CardState
<1> HIDE DEF c
<1>6. /\ Like(u, Sd!chipSelectHigh(u)) /\ Sd!chipSelectHigh(u).r1 = u.r1
      /\ Sd!chipSelectHigh(u).reply = u.reply /\ Sd!chipSelectHigh(u).ok = u.ok
      /\ Sd!chipSelectHigh(u).got = u.got /\ Sd!chipSelectHigh(u).card = c
  BY <1>3, <1>4, NewCard
<1> QED BY <1>5, <1>6

\* Deselecting the card changes nothing the driver relies on.
LEMMA Deselected ==
  ASSUME NEW s, NEW u, Fit(u), SameCard(s, u), Untouched(s, u)
  PROVE  /\ Fit(Sd!chipSelectHigh(u)) /\ SameCard(s, Sd!chipSelectHigh(u))
         /\ Untouched(s, Sd!chipSelectHigh(u))
         /\ Still(s, u) => Still(s, Sd!chipSelectHigh(u))
<1>1. u \in State
  BY DEF Fit, Sound
<1> DEFINE t == Sd!chipSelectHigh(u)
<1>2. /\ Like(u, t)
      /\ t.card.in = u.card.in /\ t.card.busy = u.card.busy /\ t.card.mode = u.card.mode
      /\ t.card.takes = u.card.takes /\ t.card.model = u.card.model /\ t.card.block = u.card.block
      /\ t.card.sends = (IF u.card.mode = "reading" THEN u.card.sends ELSE Sd!None)
  BY <1>1, Deselecting
<1> HIDE DEF t
<1>3. t.card \in Sd!CardState
  BY <1>2 DEF Like, State
<1>4. Fit(t)
  BY <1>2, <1>3 DEF Fit, Sound, Sd!SoundCard, Like
<1>5. SameCard(s, t) /\ Untouched(s, t) /\ (Still(s, u) => Still(s, t))
  BY <1>2 DEF SameCard, Untouched, Still, Like
<1> QED BY <1>4, <1>5 DEF t

-----------------------------------------------------------------------------
(***************************************************************************)
(* The card.                                                               *)
(***************************************************************************)

\* An empty slot is a sound card that is off.
LEMMA Empty ==
  /\ Sd!SoundCard(Sd!NoCard) /\ ~Sd!NoCard.in /\ Sd!NoCard.mode = "off"
  /\ ~Sd!NoCard.busy /\ ~Sd!NoCard.app
<1>1. (CHOOSE m \in CardModels : TRUE) \in CardModels
  BY CardAssumption DEF Sd!SdCardAssumption
<1>2. [b \in Sd!Block |-> Sd!Old(b)] \in
        [Sd!Block -> {Sd!Old(b) : b \in Sd!Block} \cup {Sd!New, Sd!Erased}]
  OBVIOUS
<1>3. Sd!None \in Int
  BY DEF Sd!None
<1> HIDE DEF Sd!None
<1> QED BY <1>1, <1>2, <1>3 DEF Sd!SoundCard, Sd!CardState, Sd!NoCard

\* waitNotBusy() leaves a card that is not busy, or has waited too long.
LEMMA Waits ==
  ASSUME NEW s, Sound(s), NEW t \in Sd!waitNotBusy(s)
  PROVE  /\ Sound(t) /\ SameCard(s, t) /\ t.torn = s.torn /\ Untouched(s, t)
         /\ t.card = [s.card EXCEPT !.busy = t.card.busy]
         /\ \/ t.ok /\ ~t.card.busy /\ t.slow = s.slow
            \/ ~t.ok /\ t.slow /\ s.card.busy /\ t.card.busy
<1>1. CASE s.card.busy /\ t = [Sd!Ok(s) EXCEPT !.card.busy = FALSE]
  <2>1. t = [s EXCEPT !.ok = TRUE, !.card = [s.card EXCEPT !.busy = FALSE]]
    BY <1>1 DEF Sd!Ok, Sound, State
  <2>2. t.card = [s.card EXCEPT !.busy = FALSE] /\ t.ok /\ t.type = s.type /\ t.slow = s.slow
        /\ t.torn = s.torn /\ t \in State
    BY <2>1 DEF Sound, State, Sd!CardState
  <2> QED BY ZenonT(60), <2>2, <1>1 DEF Sound, State, Sd!CardState, Sd!SoundCard, SameCard, Untouched
<1>2. CASE s.card.busy /\ t = [Sd!Fail(s) EXCEPT !.slow = TRUE]
  <2>1. t = [s EXCEPT !.ok = FALSE, !.slow = TRUE]
    BY <1>2 DEF Sd!Fail, Sound, State
  <2>2. t.card = s.card /\ ~t.ok /\ t.type = s.type /\ t.slow = TRUE /\ t.torn = s.torn /\ t \in State
    BY <2>1 DEF Sound, State
  <2> QED BY <2>2, <1>2 DEF Sound, State, Sd!CardState, Sd!SoundCard, SameCard, Untouched
<1>3. CASE ~s.card.busy /\ t = Sd!Ok(s)
  <2>2. t.card = s.card /\ t.ok /\ t.type = s.type /\ t.slow = s.slow /\ t.torn = s.torn /\ t \in State
    BY <1>3 DEF Sd!Ok, Sound, State
  <2> QED BY <2>2, <1>3 DEF Sound, State, Sd!CardState, Sd!SoundCard, SameCard, Untouched
<1> QED BY <1>1, <1>2, <1>3 DEF Sd!waitNotBusy

\* A card that hears a command is in the slot and not busy.
Hears(s, u) ==
  /\ Sound(u) /\ u.card.in /\ ~u.card.busy /\ u.card = [s.card EXCEPT !.busy = FALSE]
  /\ u.type = s.type /\ u.torn = s.torn /\ u.slow = s.slow

\* The answer 255 of an empty slot, the 0 of a busy card, or what the card does.
LEMMA Answers ==
  ASSUME NEW s, Sound(s), NEW cmd, NEW arg, NEW t \in Sd!cardCommand(s, cmd, arg)
  PROVE  \/ /\ Sound(t) /\ SameCard(s, t) /\ t.torn = s.torn /\ Untouched(s, t) /\ t.ok
            /\ t.reply = "none"
            /\ \/ ~t.card.in /\ t.card.mode = "off" /\ ~t.card.busy /\ t.r1 = 255
               \/ s.card.busy /\ t.card.busy /\ t.slow /\ t.r1 = 0
                  /\ t.card.mode = s.card.mode /\ t.card.in = s.card.in
         \/ \E u : Hears(s, u) /\ \E v \in Sd!Obeys(u, cmd, arg) : t = Sd!Ok(v)
<1>1. PICK w \in Sd!waitNotBusy(s) : \E u \in Sd!Pulled(w) : \E v \in
        (IF ~u.card.in THEN {Sd!Answer(u, 255)}
         ELSE IF u.card.busy THEN {Sd!Answer(u, 0)} ELSE Sd!Obeys(u, cmd, arg)) : t = Sd!Ok(v)
  BY DEF Sd!cardCommand
<1>2. PICK u \in Sd!Pulled(w) : \E v \in
        (IF ~u.card.in THEN {Sd!Answer(u, 255)}
         ELSE IF u.card.busy THEN {Sd!Answer(u, 0)} ELSE Sd!Obeys(u, cmd, arg)) : t = Sd!Ok(v)
  BY <1>1
<1>3. /\ Sound(w) /\ SameCard(s, w) /\ w.torn = s.torn /\ Untouched(s, w)
      /\ w.card = [s.card EXCEPT !.busy = w.card.busy]
      /\ \/ w.ok /\ ~w.card.busy /\ w.slow = s.slow
         \/ ~w.ok /\ w.slow /\ s.card.busy /\ w.card.busy
  BY Waits
<1>4. /\ Sound(u) /\ SameCard(s, u) /\ u.torn = s.torn /\ Untouched(s, u) /\ u.slow = w.slow
      /\ u.card = w.card \/ u.card = Sd!NoCard
  <2>1. CASE u = w
    BY <2>1, <1>3
  <2>2. CASE u = [w EXCEPT !.card = Sd!NoCard]
    <3>1. Sd!NoCard \in Sd!CardState
      BY Empty DEF Sd!SoundCard
    <3>2. /\ u.card = Sd!NoCard /\ u \in State /\ u.type = w.type /\ u.torn = w.torn
          /\ u.slow = w.slow
      BY <2>2, <1>3, <3>1 DEF Sound, State
    <3> QED BY <3>2, <1>3, Empty DEF Sound, SameCard, Untouched
  <2> QED BY <2>1, <2>2 DEF Sd!Pulled
<1>5. ASSUME NEW r1 \in Int, t = Sd!Ok(Sd!Answer(u, r1))
      PROVE  /\ Sound(t) /\ SameCard(s, t) /\ t.torn = s.torn /\ Untouched(s, t) /\ t.ok
             /\ t.reply = "none" /\ t.r1 = r1 /\ t.slow = u.slow
             /\ t.card.in = u.card.in /\ t.card.busy = u.card.busy /\ t.card.mode = u.card.mode
  <2>1. t = [u EXCEPT !.ok = TRUE, !.r1 = r1, !.reply = "none",
                      !.card = [u.card EXCEPT !.app = FALSE]]
    BY <1>5, <1>4 DEF Sd!Ok, Sd!Answer, Sound, State
  <2>2. /\ t.card = [u.card EXCEPT !.app = FALSE] /\ t \in State /\ t.ok /\ t.reply = "none"
        /\ t.r1 = r1 /\ t.type = u.type /\ t.torn = u.torn /\ t.slow = u.slow
    BY ZenonT(60), <2>1, <1>4 DEF Sound, State, Sd!CardState
  <2>3. u.card \in Sd!CardState
    BY <1>4 DEF Sound, State
  <2>4. /\ t.card.in = u.card.in /\ t.card.busy = u.card.busy /\ t.card.mode = u.card.mode
        /\ t.card.sends = u.card.sends /\ t.card.takes = u.card.takes
        /\ t.card.model = u.card.model /\ t.card.block = u.card.block /\ t.card \in Sd!CardState
    BY <2>2, <2>3 DEF Sd!CardState
  <2>5. Sound(t)
    BY <2>2, <2>4, <1>4 DEF Sound, Sd!SoundCard
  <2> QED BY <2>2, <2>4, <2>5, <1>4 DEF SameCard, Untouched
<1>6. CASE ~u.card.in
  <2>1. t = Sd!Ok(Sd!Answer(u, 255))
    BY <1>2, <1>6
  <2> QED BY <2>1, <1>4, <1>5, <1>6 DEF Sound, Sd!SoundCard
<1>7. CASE u.card.in /\ u.card.busy
  <2>1. t = Sd!Ok(Sd!Answer(u, 0))
    BY <1>2, <1>7
  <2>2. u.card = w.card
    BY <1>7, <1>4, Empty
  <2>3. s.card \in Sd!CardState
    BY DEF Sound, State
  <2>4. u.card.mode = s.card.mode /\ u.card.in = s.card.in
    BY <2>2, <2>3, <1>3 DEF Sd!CardState
  <2>5. s.card.busy /\ w.slow
    BY <2>2, <1>3, <1>7
  <2>6. /\ Sound(t) /\ SameCard(s, t) /\ t.torn = s.torn /\ Untouched(s, t) /\ t.ok
        /\ t.reply = "none" /\ t.r1 = 0 /\ t.slow = u.slow
        /\ t.card.in = u.card.in /\ t.card.busy = u.card.busy /\ t.card.mode = u.card.mode
    BY <2>1, <1>5
  <2> QED BY <2>4, <2>5, <2>6, <1>4, <1>7
<1>8. CASE u.card.in /\ ~u.card.busy
  <2>1. \E v \in Sd!Obeys(u, cmd, arg) : t = Sd!Ok(v)
    BY <1>2, <1>8
  <2>2. u.card = w.card
    BY <1>8, <1>4, Empty
  <2>3. u.slow = s.slow /\ u.type = s.type
    BY <2>2, <1>3, <1>4, <1>8 DEF SameCard
  <2>4. u.card = [s.card EXCEPT !.busy = FALSE]
    BY <2>2, <1>3, <1>8 DEF Sound, State, Sd!CardState
  <2> QED BY <2>1, <2>3, <2>4, <1>4, <1>8 DEF Hears
<1> QED BY <1>6, <1>7, <1>8

-----------------------------------------------------------------------------
(***************************************************************************)
(* What the card does at each command of a started driver.                 *)
(***************************************************************************)

\* A command that only a ready card obeys, to a card that is not idle.
LEMMA OnlyReady ==
  ASSUME NEW u, u.card.mode # "idle", NEW arg,
         NEW cmd \in {"CMD9", "CMD17", "CMD18", "CMD24", "CMD25", "CMD32", "CMD33", "CMD38"},
         NEW v \in Sd!Obeys(u, cmd, arg)
  PROVE  v = Sd!Answer(u, 255) \/ v \in Sd!Transfer(u, cmd, arg)
BY DEF Sd!Obeys, Sd!Follows

\* The address of a block is the card's own, when the driver knows its kind.
LEMMA Addressed ==
  ASSUME NEW u, NEW s, NEW b \in Nat, u.card.mode # "off",
         s.type = u.card.model.kind
  PROVE  Sd!BlockOf(u, Sd!Address(s, b)) = b
<1>1. BlockBytes \in Nat \ {0}
  BY CardAssumption DEF Sd!SdCardAssumption
<1>2. (b * BlockBytes) % BlockBytes = 0 /\ (b * BlockBytes) \div BlockBytes = b
  <2>1. b * BlockBytes = BlockBytes * b /\ BlockBytes * b \in Int
    BY <1>1
  <2>2. (BlockBytes * b + 0) % BlockBytes = 0
    BY <1>1, IntModUnique
  <2>3. (b * BlockBytes) % BlockBytes = 0
    BY <2>1, <2>2
  <2> DEFINE q == (b * BlockBytes) \div BlockBytes
  <2>4. q \in Int /\ b * BlockBytes = BlockBytes * q + 0
    BY <1>1, <2>1, <2>3, IntMod
  <2>5. BlockBytes * (b - q) = 0
    BY <1>1, <2>1, <2>4
  <2>6. b - q = 0
    BY <1>1, <2>4, <2>5
  <2> QED BY <2>3, <2>4, <2>6
<1> QED BY <1>2 DEF Sd!BlockOf, Sd!Address

\* A command is heard by a ready card, and for a block it has; or refused.
LEMMA Transfers ==
  ASSUME NEW u, NEW arg,
         NEW cmd \in {"CMD9", "CMD17", "CMD18", "CMD24", "CMD25", "CMD32", "CMD33", "CMD38"},
         NEW v \in Sd!Transfer(u, cmd, arg)
  PROVE  \/ v = Sd!Answer(u, 4)
         \/ /\ u.card.mode = "ready"
            /\ cmd \notin {"CMD9", "CMD38"} => Sd!BlockOf(u, arg) \in Sd!Block
            /\ cmd = "CMD9" => v = Sends(Sd!Answer(u, 0), Sd!CSD)
            /\ cmd = "CMD17" => v = Sends(Sd!Answer(u, 0), Sd!BlockOf(u, arg))
            /\ cmd = "CMD18" => v = Reads(Sd!Answer(u, 0), Sd!BlockOf(u, arg))
            /\ cmd = "CMD24" => v = Takes(Sd!Answer(u, 0), Sd!BlockOf(u, arg))
            /\ cmd = "CMD25" => \E w \in {Sd!Answer(u, 0),
                                 Wiped(Sd!Answer(u, 0), Sd!BlockOf(u, arg),
                                       Sd!BlockOf(u, arg) + u.card.preErase - 1)} :
                 v = Writes(w, Sd!BlockOf(u, arg))
            /\ cmd = "CMD38" => \E busy \in BOOLEAN :
                 LET size == IF u.card.model.eraseSingle THEN 1 ELSE SectorMask + 1
                 IN v = Busy(Wiped(Sd!Answer(u, 0), size * (u.card.from \div size),
                               size * (u.card.to \div size) + size - 1), busy)
            /\ cmd = "CMD32" => v = From(Sd!Answer(u, 0), Sd!BlockOf(u, arg))
            /\ cmd = "CMD33" => v = To(Sd!Answer(u, 0), Sd!BlockOf(u, arg))
BY DEF Sd!Transfer, Sends, Reads, Takes, Writes, From, To, Busy, Wiped

\* A refused command leaves the card as it was.
LEMMA Refused ==
  ASSUME NEW s, Fit(s), NEW u, Hears(s, u), NEW r1 \in Int,
         NEW t, t = Sd!Fail(Sd!chipSelectHigh(Sd!Ok(Sd!Answer(u, r1))))
  PROVE  /\ Fit(t) /\ SameCard(s, t) /\ t.torn = s.torn /\ Untouched(s, t) /\ Still(s, t)
         /\ ~t.ok /\ t.slow = s.slow
<1>1. u.card \in Sd!CardState /\ s.card \in Sd!CardState /\ Sd!None \in Int
  <2>1. u \in State /\ s \in State
    BY DEF Fit, Hears, Sound
  <2> QED BY <2>1 DEF State, Sd!None
<1> DEFINE c == [u.card EXCEPT !.app = FALSE,
                               !.sends = IF u.card.mode = "reading" THEN @ ELSE Sd!None]
<1>2. t = [u EXCEPT !.ok = FALSE, !.r1 = r1, !.reply = "none", !.card = c]
  BY <1>1 DEF Sd!Fail, Sd!chipSelectHigh, Sd!Ok, Sd!Answer, Hears, Sound, State, Sd!CardState
<1>3. /\ c.in = u.card.in /\ c.busy = u.card.busy /\ c.mode = u.card.mode
      /\ c.takes = u.card.takes /\ c.model = u.card.model /\ c.block = u.card.block
      /\ c.sends = (IF u.card.mode = "reading" THEN u.card.sends ELSE Sd!None)
      /\ c \in Sd!CardState
  BY <1>1 DEF Sd!CardState
<1>4. /\ u.card.in = s.card.in /\ u.card.mode = s.card.mode /\ u.card.takes = s.card.takes
      /\ u.card.model = s.card.model /\ u.card.block = s.card.block
      /\ u.card.sends = s.card.sends
  BY <1>1 DEF Hears, Sd!CardState
<1> HIDE DEF c
<1>5. /\ t.card = c /\ t \in State /\ ~t.ok /\ t.type = u.type /\ t.torn = u.torn
      /\ t.slow = u.slow
  BY <1>2, <1>3 DEF Hears, Sound, State
<1>6. Sound(t)
  BY <1>3, <1>5 DEF Hears, Sound, Sd!SoundCard
<1> QED BY <1>3, <1>4, <1>5, <1>6 DEF Fit, Hears, SameCard, Untouched, Still

\* An obeyed one leaves a card that is started.
LEMMA Obeyed ==
  ASSUME NEW s, Fit(s), s.card.mode # "off", NEW u, Hears(s, u),
         NEW t, Like(u, t), Sd!SoundCard(t.card), t.card.model = s.card.model,
         t.card.mode \notin {"off", "idle"}
  PROVE  Fit(t) /\ SameCard(s, t) /\ t.torn = s.torn /\ t.slow = s.slow
BY DEF Fit, Sound, SameCard, Like, Hears, Sd!SoundCard

\* A command of the driver fails and changes nothing, or a busy card's zeros
\* are taken for the answer, or the card has obeyed.
LEMMA Commanded ==
  ASSUME NEW s, Fit(s), NEW cmd, NEW arg, NEW t \in Sd!Command(s, cmd, arg),
         \A u : Hears(s, u) => \A v \in Sd!Obeys(u, cmd, arg) :
                  (v \in State /\ v.r1 = 0) \/ \E r1 \in Int : v = Sd!Answer(u, r1)
  PROVE  \/ /\ Fit(t) /\ SameCard(s, t) /\ t.torn = s.torn /\ Untouched(s, t)
            /\ \/ /\ ~t.ok /\ Still(s, t)
                  /\ \/ t.card.mode = "off"
                     \/ \E u : Hears(s, u) /\ \E v \in Sd!Obeys(u, cmd, arg) : v.r1 # 0
               \/ t.ok /\ t.slow /\ s.card.busy /\ t.card.busy /\ t.card.mode = s.card.mode
         \/ \E u : Hears(s, u) /\ \E v \in Sd!Obeys(u, cmd, arg) : v.r1 = 0 /\ t = Sd!Ok(v)
<1>1. PICK p \in Sd!cardCommand(s, cmd, arg) :
        t = IF p.r1 = 0 THEN Sd!Ok(p) ELSE Sd!Fail(Sd!chipSelectHigh(p))
  BY DEF Sd!Command, Sd!Must
<1>2. CASE /\ Sound(p) /\ SameCard(s, p) /\ p.torn = s.torn /\ Untouched(s, p) /\ p.ok
           /\ p.reply = "none"
           /\ ~p.card.in /\ p.card.mode = "off" /\ ~p.card.busy /\ p.r1 = 255
  <2>1. t = Sd!Fail(Sd!chipSelectHigh(p))
    BY <1>1, <1>2
  <2>2. p \in State /\ p.card \in Sd!CardState /\ Sd!None \in Int
    BY <1>2 DEF Sound, State, Sd!None
  <2> DEFINE c == [p.card EXCEPT !.sends = IF p.card.mode = "reading" THEN @ ELSE Sd!None]
  <2>3. t = [p EXCEPT !.ok = FALSE, !.card = c]
    BY <2>1, <2>2 DEF Sd!Fail, Sd!chipSelectHigh, State, Sd!CardState
  <2>4. /\ c.in = p.card.in /\ c.busy = p.card.busy /\ c.mode = p.card.mode
        /\ c.takes = p.card.takes /\ c.sends = Sd!None /\ c \in Sd!CardState
    BY <2>2, <1>2 DEF Sd!CardState
  <2> HIDE DEF c
  <2>5. /\ t.card = c /\ t \in State /\ ~t.ok /\ t.type = p.type /\ t.torn = p.torn
        /\ t.slow = p.slow
    BY <2>2, <2>3, <2>4 DEF State
  <2>6. Sound(t)
    BY <2>4, <2>5, <1>2 DEF Sound, Sd!SoundCard
  <2> QED BY <2>4, <2>5, <2>6, <1>2 DEF Fit, SameCard, Untouched, Still
<1>3. CASE /\ Sound(p) /\ SameCard(s, p) /\ p.torn = s.torn /\ Untouched(s, p) /\ p.ok
           /\ s.card.busy /\ p.card.busy /\ p.slow /\ p.r1 = 0
           /\ p.card.mode = s.card.mode /\ p.card.in = s.card.in
  <2>1. p \in State
    BY <1>3 DEF Sound
  <2>2. t = p
    BY <1>1, <1>3, <2>1 DEF Sd!Ok, State
  <2>3. Fit(t)
    BY <1>3, <2>2 DEF Fit, SameCard
  <2> QED BY <1>3, <2>2, <2>3
<1>4. CASE \E u : Hears(s, u) /\ \E v \in Sd!Obeys(u, cmd, arg) : p = Sd!Ok(v)
  <2>1. PICK u : Hears(s, u) /\ \E v \in Sd!Obeys(u, cmd, arg) : p = Sd!Ok(v)
    BY <1>4
  <2>2. PICK v \in Sd!Obeys(u, cmd, arg) : p = Sd!Ok(v)
    BY <2>1
  <2>3. CASE \E r1 \in Int : v = Sd!Answer(u, r1)
    <3>1. PICK r1 \in Int : v = Sd!Answer(u, r1)
      BY <2>3
    <3>2. u \in State
      BY <2>1 DEF Hears, Sound
    <3>3. v.r1 = r1 /\ p.r1 = r1 /\ Sd!Ok(p) = p
      BY <2>2, <3>1, <3>2 DEF Sd!Ok, Sd!Answer, State
    <3>4. CASE r1 = 0
      <4>1. t = Sd!Ok(v) /\ v.r1 = 0
        BY <1>1, <2>2, <3>3, <3>4
      <4> QED BY <4>1, <2>1
    <3>5. CASE r1 # 0
      <4>1. t = Sd!Fail(Sd!chipSelectHigh(Sd!Ok(Sd!Answer(u, r1))))
        BY <1>1, <2>2, <3>1, <3>3, <3>5
      <4>2. v.r1 # 0
        BY <3>3, <3>5
      <4> QED BY <4>1, <4>2, <2>1, Refused
    <3> QED BY <3>4, <3>5
  <2>4. CASE v \in State /\ v.r1 = 0
    <3>1. p.r1 = 0 /\ Sd!Ok(p) = p
      BY <2>2, <2>4 DEF Sd!Ok, State
    <3> QED BY <1>1, <2>1, <2>2, <2>4, <3>1
  <2> QED BY <2>1, <2>2, <2>3, <2>4
<1>5. Sound(s)
  BY DEF Fit
<1> QED BY <1>2, <1>3, <1>4, <1>5, Answers

-----------------------------------------------------------------------------
(***************************************************************************)
(* The effects of the commands, field by field.                            *)
(***************************************************************************)
LEMMA Sending ==
  ASSUME NEW w \in State, NEW b \in Int
  PROVE  LET t == Sends(w, b)
             c == t.card
         IN /\ Like(w, t) /\ t.r1 = w.r1 /\ t.ok = w.ok /\ t.reply = w.reply /\ c \in Sd!CardState
            /\ c.in = w.card.in /\ c.model = w.card.model /\ c.app = w.card.app
            /\ c.busy = w.card.busy /\ c.mode = w.card.mode /\ c.sends = b
            /\ c.takes = w.card.takes /\ c.from = w.card.from /\ c.to = w.card.to
            /\ c.preErase = w.card.preErase /\ c.block = w.card.block
<1> DEFINE c == [w.card EXCEPT !.sends = b]
<1>1. w.card \in Sd!CardState /\ 0 \in Int /\ Sd!None \in Int
  BY DEF State, Sd!None
<1>2. /\ c \in Sd!CardState
      /\ c.in = w.card.in /\ c.model = w.card.model /\ c.app = w.card.app
      /\ c.busy = w.card.busy /\ c.mode = w.card.mode /\ c.sends = b
      /\ c.takes = w.card.takes /\ c.from = w.card.from /\ c.to = w.card.to
      /\ c.preErase = w.card.preErase /\ c.block = w.card.block
  BY <1>1 DEF Sd!CardState
<1>3. Sends(w, b) = [w EXCEPT !.card = c]
  BY <1>1 DEF State, Sd!CardState, Sends
<1> HIDE DEF c
<1>4. /\ Like(w, Sends(w, b)) /\ Sends(w, b).r1 = w.r1 /\ Sends(w, b).reply = w.reply
      /\ Sends(w, b).ok = w.ok /\ Sends(w, b).card = c
  BY <1>2, <1>3, NewCard
<1> QED BY <1>2, <1>4

LEMMA Reading ==
  ASSUME NEW w \in State, NEW b \in Int
  PROVE  LET t == Reads(w, b)
             c == t.card
         IN /\ Like(w, t) /\ t.r1 = w.r1 /\ t.ok = w.ok /\ t.reply = w.reply /\ c \in Sd!CardState
            /\ c.in = w.card.in /\ c.model = w.card.model /\ c.app = w.card.app
            /\ c.busy = w.card.busy /\ c.mode = "reading" /\ c.sends = b
            /\ c.takes = w.card.takes /\ c.from = w.card.from /\ c.to = w.card.to
            /\ c.preErase = w.card.preErase /\ c.block = w.card.block
<1> DEFINE c == [w.card EXCEPT !.sends = b, !.mode = "reading"]
<1>1. w.card \in Sd!CardState /\ 0 \in Int /\ Sd!None \in Int
  BY DEF State, Sd!None
<1>2. /\ c \in Sd!CardState
      /\ c.in = w.card.in /\ c.model = w.card.model /\ c.app = w.card.app
      /\ c.busy = w.card.busy /\ c.mode = "reading" /\ c.sends = b
      /\ c.takes = w.card.takes /\ c.from = w.card.from /\ c.to = w.card.to
      /\ c.preErase = w.card.preErase /\ c.block = w.card.block
  BY <1>1 DEF Sd!CardState
<1>3. Reads(w, b) = [w EXCEPT !.card = c]
  BY <1>1 DEF State, Sd!CardState, Reads
<1> HIDE DEF c
<1>4. /\ Like(w, Reads(w, b)) /\ Reads(w, b).r1 = w.r1 /\ Reads(w, b).reply = w.reply
      /\ Reads(w, b).ok = w.ok /\ Reads(w, b).card = c
  BY <1>2, <1>3, NewCard
<1> QED BY <1>2, <1>4

LEMMA Taking ==
  ASSUME NEW w \in State, NEW b \in Int
  PROVE  LET t == Takes(w, b)
             c == t.card
         IN /\ Like(w, t) /\ t.r1 = w.r1 /\ t.ok = w.ok /\ t.reply = w.reply /\ c \in Sd!CardState
            /\ c.in = w.card.in /\ c.model = w.card.model /\ c.app = w.card.app
            /\ c.busy = w.card.busy /\ c.mode = w.card.mode /\ c.sends = w.card.sends
            /\ c.takes = b /\ c.from = w.card.from /\ c.to = w.card.to
            /\ c.preErase = w.card.preErase /\ c.block = w.card.block
<1> DEFINE c == [w.card EXCEPT !.takes = b]
<1>1. w.card \in Sd!CardState /\ 0 \in Int /\ Sd!None \in Int
  BY DEF State, Sd!None
<1>2. /\ c \in Sd!CardState
      /\ c.in = w.card.in /\ c.model = w.card.model /\ c.app = w.card.app
      /\ c.busy = w.card.busy /\ c.mode = w.card.mode /\ c.sends = w.card.sends
      /\ c.takes = b /\ c.from = w.card.from /\ c.to = w.card.to
      /\ c.preErase = w.card.preErase /\ c.block = w.card.block
  BY <1>1 DEF Sd!CardState
<1>3. Takes(w, b) = [w EXCEPT !.card = c]
  BY <1>1 DEF State, Sd!CardState, Takes
<1> HIDE DEF c
<1>4. /\ Like(w, Takes(w, b)) /\ Takes(w, b).r1 = w.r1 /\ Takes(w, b).reply = w.reply
      /\ Takes(w, b).ok = w.ok /\ Takes(w, b).card = c
  BY <1>2, <1>3, NewCard
<1> QED BY <1>2, <1>4

LEMMA Writing ==
  ASSUME NEW w \in State, NEW b \in Int
  PROVE  LET t == Writes(w, b)
             c == t.card
         IN /\ Like(w, t) /\ t.r1 = w.r1 /\ t.ok = w.ok /\ t.reply = w.reply /\ c \in Sd!CardState
            /\ c.in = w.card.in /\ c.model = w.card.model /\ c.app = w.card.app
            /\ c.busy = w.card.busy /\ c.mode = "writing" /\ c.sends = w.card.sends
            /\ c.takes = b /\ c.from = w.card.from /\ c.to = w.card.to
            /\ c.preErase = 0 /\ c.block = w.card.block
<1> DEFINE c == [w.card EXCEPT !.takes = b, !.mode = "writing", !.preErase = 0]
<1>1. w.card \in Sd!CardState /\ 0 \in Int /\ Sd!None \in Int
  BY DEF State, Sd!None
<1>2. /\ c \in Sd!CardState
      /\ c.in = w.card.in /\ c.model = w.card.model /\ c.app = w.card.app
      /\ c.busy = w.card.busy /\ c.mode = "writing" /\ c.sends = w.card.sends
      /\ c.takes = b /\ c.from = w.card.from /\ c.to = w.card.to
      /\ c.preErase = 0 /\ c.block = w.card.block
  BY <1>1 DEF Sd!CardState
<1>3. Writes(w, b) = [w EXCEPT !.card = c]
  BY <1>1 DEF State, Sd!CardState, Writes
<1> HIDE DEF c
<1>4. /\ Like(w, Writes(w, b)) /\ Writes(w, b).r1 = w.r1 /\ Writes(w, b).reply = w.reply
      /\ Writes(w, b).ok = w.ok /\ Writes(w, b).card = c
  BY <1>2, <1>3, NewCard
<1> QED BY <1>2, <1>4

LEMMA SettingFrom ==
  ASSUME NEW w \in State, NEW b \in Int
  PROVE  LET t == From(w, b)
             c == t.card
         IN /\ Like(w, t) /\ t.r1 = w.r1 /\ t.ok = w.ok /\ t.reply = w.reply /\ c \in Sd!CardState
            /\ c.in = w.card.in /\ c.model = w.card.model /\ c.app = w.card.app
            /\ c.busy = w.card.busy /\ c.mode = w.card.mode /\ c.sends = w.card.sends
            /\ c.takes = w.card.takes /\ c.from = b /\ c.to = w.card.to
            /\ c.preErase = w.card.preErase /\ c.block = w.card.block
<1> DEFINE c == [w.card EXCEPT !.from = b]
<1>1. w.card \in Sd!CardState /\ 0 \in Int /\ Sd!None \in Int
  BY DEF State, Sd!None
<1>2. /\ c \in Sd!CardState
      /\ c.in = w.card.in /\ c.model = w.card.model /\ c.app = w.card.app
      /\ c.busy = w.card.busy /\ c.mode = w.card.mode /\ c.sends = w.card.sends
      /\ c.takes = w.card.takes /\ c.from = b /\ c.to = w.card.to
      /\ c.preErase = w.card.preErase /\ c.block = w.card.block
  BY <1>1 DEF Sd!CardState
<1>3. From(w, b) = [w EXCEPT !.card = c]
  BY <1>1 DEF State, Sd!CardState, From
<1> HIDE DEF c
<1>4. /\ Like(w, From(w, b)) /\ From(w, b).r1 = w.r1 /\ From(w, b).reply = w.reply
      /\ From(w, b).ok = w.ok /\ From(w, b).card = c
  BY <1>2, <1>3, NewCard
<1> QED BY <1>2, <1>4

LEMMA SettingTo ==
  ASSUME NEW w \in State, NEW b \in Int
  PROVE  LET t == To(w, b)
             c == t.card
         IN /\ Like(w, t) /\ t.r1 = w.r1 /\ t.ok = w.ok /\ t.reply = w.reply /\ c \in Sd!CardState
            /\ c.in = w.card.in /\ c.model = w.card.model /\ c.app = w.card.app
            /\ c.busy = w.card.busy /\ c.mode = w.card.mode /\ c.sends = w.card.sends
            /\ c.takes = w.card.takes /\ c.from = w.card.from /\ c.to = b
            /\ c.preErase = w.card.preErase /\ c.block = w.card.block
<1> DEFINE c == [w.card EXCEPT !.to = b]
<1>1. w.card \in Sd!CardState /\ 0 \in Int /\ Sd!None \in Int
  BY DEF State, Sd!None
<1>2. /\ c \in Sd!CardState
      /\ c.in = w.card.in /\ c.model = w.card.model /\ c.app = w.card.app
      /\ c.busy = w.card.busy /\ c.mode = w.card.mode /\ c.sends = w.card.sends
      /\ c.takes = w.card.takes /\ c.from = w.card.from /\ c.to = b
      /\ c.preErase = w.card.preErase /\ c.block = w.card.block
  BY <1>1 DEF Sd!CardState
<1>3. To(w, b) = [w EXCEPT !.card = c]
  BY <1>1 DEF State, Sd!CardState, To
<1> HIDE DEF c
<1>4. /\ Like(w, To(w, b)) /\ To(w, b).r1 = w.r1 /\ To(w, b).reply = w.reply
      /\ To(w, b).ok = w.ok /\ To(w, b).card = c
  BY <1>2, <1>3, NewCard
<1> QED BY <1>2, <1>4

LEMMA BeingBusy ==
  ASSUME NEW w \in State, NEW busy \in BOOLEAN
  PROVE  LET t == Busy(w, busy)
             c == t.card
         IN /\ Like(w, t) /\ t.r1 = w.r1 /\ t.ok = w.ok /\ t.reply = w.reply /\ c \in Sd!CardState
            /\ c.in = w.card.in /\ c.model = w.card.model /\ c.app = w.card.app
            /\ c.busy = busy /\ c.mode = w.card.mode /\ c.sends = w.card.sends
            /\ c.takes = w.card.takes /\ c.from = w.card.from /\ c.to = w.card.to
            /\ c.preErase = w.card.preErase /\ c.block = w.card.block
<1> DEFINE c == [w.card EXCEPT !.busy = busy]
<1>1. w.card \in Sd!CardState /\ 0 \in Int /\ Sd!None \in Int
  BY DEF State, Sd!None
<1>2. /\ c \in Sd!CardState
      /\ c.in = w.card.in /\ c.model = w.card.model /\ c.app = w.card.app
      /\ c.busy = busy /\ c.mode = w.card.mode /\ c.sends = w.card.sends
      /\ c.takes = w.card.takes /\ c.from = w.card.from /\ c.to = w.card.to
      /\ c.preErase = w.card.preErase /\ c.block = w.card.block
  BY <1>1 DEF Sd!CardState
<1>3. Busy(w, busy) = [w EXCEPT !.card = c]
  BY <1>1 DEF State, Sd!CardState, Busy
<1> HIDE DEF c
<1>4. /\ Like(w, Busy(w, busy)) /\ Busy(w, busy).r1 = w.r1 /\ Busy(w, busy).reply = w.reply
      /\ Busy(w, busy).ok = w.ok /\ Busy(w, busy).card = c
  BY <1>2, <1>3, NewCard
<1> QED BY <1>2, <1>4

LEMMA Clearing ==
  ASSUME NEW w \in State
  PROVE  LET t == Cleared(w)
             c == t.card
         IN /\ Like(w, t) /\ t.r1 = w.r1 /\ t.ok = w.ok /\ t.reply = w.reply /\ c \in Sd!CardState
            /\ c.in = w.card.in /\ c.model = w.card.model /\ c.app = w.card.app
            /\ c.busy = w.card.busy /\ c.mode = "ready" /\ c.sends = Sd!None
            /\ c.takes = w.card.takes /\ c.from = w.card.from /\ c.to = w.card.to
            /\ c.preErase = w.card.preErase /\ c.block = w.card.block
<1> DEFINE c == [w.card EXCEPT !.mode = "ready", !.sends = Sd!None]
<1>1. w.card \in Sd!CardState /\ 0 \in Int /\ Sd!None \in Int
  BY DEF State, Sd!None
<1>2. /\ c \in Sd!CardState
      /\ c.in = w.card.in /\ c.model = w.card.model /\ c.app = w.card.app
      /\ c.busy = w.card.busy /\ c.mode = "ready" /\ c.sends = Sd!None
      /\ c.takes = w.card.takes /\ c.from = w.card.from /\ c.to = w.card.to
      /\ c.preErase = w.card.preErase /\ c.block = w.card.block
  BY <1>1 DEF Sd!CardState
<1>3. Cleared(w) = [w EXCEPT !.card = c]
  BY <1>1 DEF State, Sd!CardState, Cleared
<1> HIDE DEF c
<1>4. /\ Like(w, Cleared(w)) /\ Cleared(w).r1 = w.r1 /\ Cleared(w).reply = w.reply
      /\ Cleared(w).ok = w.ok /\ Cleared(w).card = c
  BY <1>2, <1>3, NewCard
<1> QED BY <1>2, <1>4

LEMMA PreErasing ==
  ASSUME NEW w \in State, NEW count \in Int
  PROVE  LET t == Erasing(w, count)
             c == t.card
         IN /\ Like(w, t) /\ t.r1 = w.r1 /\ t.ok = w.ok /\ t.reply = w.reply /\ c \in Sd!CardState
            /\ c.in = w.card.in /\ c.model = w.card.model /\ c.app = w.card.app
            /\ c.busy = w.card.busy /\ c.mode = w.card.mode /\ c.sends = w.card.sends
            /\ c.takes = w.card.takes /\ c.from = w.card.from /\ c.to = w.card.to
            /\ c.preErase = count /\ c.block = w.card.block
<1> DEFINE c == [w.card EXCEPT !.preErase = count]
<1>1. w.card \in Sd!CardState /\ 0 \in Int /\ Sd!None \in Int
  BY DEF State, Sd!None
<1>2. /\ c \in Sd!CardState
      /\ c.in = w.card.in /\ c.model = w.card.model /\ c.app = w.card.app
      /\ c.busy = w.card.busy /\ c.mode = w.card.mode /\ c.sends = w.card.sends
      /\ c.takes = w.card.takes /\ c.from = w.card.from /\ c.to = w.card.to
      /\ c.preErase = count /\ c.block = w.card.block
  BY <1>1 DEF Sd!CardState
<1>3. Erasing(w, count) = [w EXCEPT !.card = c]
  BY <1>1 DEF State, Sd!CardState, Erasing
<1> HIDE DEF c
<1>4. /\ Like(w, Erasing(w, count)) /\ Erasing(w, count).r1 = w.r1 /\ Erasing(w, count).reply = w.reply
      /\ Erasing(w, count).ok = w.ok /\ Erasing(w, count).card = c
  BY <1>2, <1>3, NewCard
<1> QED BY <1>2, <1>4

LEMMA Wiping ==
  ASSUME NEW w \in State, NEW lo \in Int, NEW hi \in Int
  PROVE  LET t == Wiped(w, lo, hi)
             c == t.card
         IN /\ Like(w, t) /\ t.r1 = w.r1 /\ t.ok = w.ok /\ t.reply = w.reply /\ c \in Sd!CardState
            /\ c.in = w.card.in /\ c.model = w.card.model /\ c.app = w.card.app
            /\ c.busy = w.card.busy /\ c.mode = w.card.mode /\ c.sends = w.card.sends
            /\ c.takes = w.card.takes /\ c.from = w.card.from /\ c.to = w.card.to
            /\ c.preErase = w.card.preErase /\ c.block = [x \in Sd!Block |-> IF x \in lo..hi THEN Sd!Erased ELSE w.card.block[x]]
<1> DEFINE c == [w.card EXCEPT !.block = [x \in Sd!Block |-> IF x \in lo..hi THEN Sd!Erased ELSE w.card.block[x]]]
<1>1. w.card \in Sd!CardState /\ 0 \in Int /\ Sd!None \in Int
  BY DEF State, Sd!None
<1>w. [x \in Sd!Block |-> IF x \in lo..hi THEN Sd!Erased ELSE w.card.block[x]]
        \in [Sd!Block -> {Sd!Old(b) : b \in Sd!Block} \cup {Sd!New, Sd!Erased}]
  <2>1. w.card.block \in [Sd!Block -> {Sd!Old(b) : b \in Sd!Block} \cup {Sd!New, Sd!Erased}]
    BY <1>1 DEF Sd!CardState
  <2> QED BY <2>1
<1>2. /\ c \in Sd!CardState
      /\ c.in = w.card.in /\ c.model = w.card.model /\ c.app = w.card.app
      /\ c.busy = w.card.busy /\ c.mode = w.card.mode /\ c.sends = w.card.sends
      /\ c.takes = w.card.takes /\ c.from = w.card.from /\ c.to = w.card.to
      /\ c.preErase = w.card.preErase /\ c.block = [x \in Sd!Block |-> IF x \in lo..hi THEN Sd!Erased ELSE w.card.block[x]]
  BY <1>1, <1>w DEF Sd!CardState
<1>3. Wiped(w, lo, hi) = [w EXCEPT !.card = c]
  BY <1>1 DEF State, Sd!CardState, Wiped
<1> HIDE DEF c
<1>4. /\ Like(w, Wiped(w, lo, hi)) /\ Wiped(w, lo, hi).r1 = w.r1 /\ Wiped(w, lo, hi).reply = w.reply
      /\ Wiped(w, lo, hi).ok = w.ok /\ Wiped(w, lo, hi).card = c
  BY <1>2, <1>3, NewCard
<1> QED BY <1>2, <1>4

\* What a ready card does leaves a call's state.
LEMMA TransferStates ==
  ASSUME NEW u \in State, NEW arg,
         NEW cmd \in {"CMD9", "CMD17", "CMD18", "CMD24", "CMD25", "CMD32", "CMD33", "CMD38"},
         NEW v \in Sd!Transfer(u, cmd, arg)
  PROVE  v = Sd!Answer(u, 4) \/ (v \in State /\ v.r1 = 0)
<1> DEFINE w == Sd!Answer(u, 0)
           b == Sd!BlockOf(u, arg)
<1>1. w \in State /\ w.r1 = 0 /\ Sd!CSD \in Int
  BY Answering DEF Like, Sd!CSD
<1>2. u.card \in Sd!CardState /\ SectorMask \in Nat /\ CardBlocks \in Nat
  BY CardAssumption DEF State, Sd!SdCardAssumption
<1>3. u.card.from \in Int /\ u.card.to \in Int /\ u.card.preErase \in Int
  BY <1>2 DEF Sd!CardState
<1>4. ASSUME b \in Sd!Block PROVE b \in Int
  BY <1>2, <1>4 DEF Sd!Block
<1> DEFINE size == IF u.card.model.eraseSingle THEN 1 ELSE SectorMask + 1
           low == size * (u.card.from \div size)
           high == size * (u.card.to \div size) + size - 1
<1>5. low \in Int /\ high \in Int
  <2>1. size \in Nat \ {0}
    BY <1>2
  <2> HIDE DEF size
  <2>2. u.card.from \div size \in Int /\ u.card.to \div size \in Int
    BY <1>3, <2>1, IntMod
  <2> QED BY <2>1, <2>2
<1> HIDE DEF w, b, low, high
<1>6. /\ Sends(w, Sd!CSD) \in State /\ Sends(w, Sd!CSD).r1 = 0
      /\ b \in Int => /\ Sends(w, b) \in State /\ Sends(w, b).r1 = 0
                      /\ Reads(w, b) \in State /\ Reads(w, b).r1 = 0
                      /\ Takes(w, b) \in State /\ Takes(w, b).r1 = 0
                      /\ From(w, b) \in State /\ From(w, b).r1 = 0
                      /\ To(w, b) \in State /\ To(w, b).r1 = 0
  <2>1. Sends(w, Sd!CSD) \in State /\ Sends(w, Sd!CSD).r1 = 0
    BY <1>1, Sending DEF Like
  <2>2. ASSUME b \in Int
        PROVE  /\ Sends(w, b) \in State /\ Sends(w, b).r1 = 0
               /\ Reads(w, b) \in State /\ Reads(w, b).r1 = 0
               /\ Takes(w, b) \in State /\ Takes(w, b).r1 = 0
    <3>1. Sends(w, b) \in State /\ Sends(w, b).r1 = 0
      BY <1>1, <2>2, Sending DEF Like
    <3>2. Reads(w, b) \in State /\ Reads(w, b).r1 = 0
      BY <1>1, <2>2, Reading DEF Like
    <3>3. Takes(w, b) \in State /\ Takes(w, b).r1 = 0
      BY <1>1, <2>2, Taking DEF Like
    <3> QED BY <3>1, <3>2, <3>3
  <2>3. ASSUME b \in Int
        PROVE  /\ From(w, b) \in State /\ From(w, b).r1 = 0
               /\ To(w, b) \in State /\ To(w, b).r1 = 0
    BY <1>1, <2>3, SettingFrom, SettingTo DEF Like
  <2> QED BY <2>1, <2>2, <2>3
<1>7. ASSUME NEW busy \in BOOLEAN
      PROVE  Busy(Wiped(w, low, high), busy) \in State /\ Busy(Wiped(w, low, high), busy).r1 = 0
  <2>1. Wiped(w, low, high) \in State /\ Wiped(w, low, high).r1 = 0
    BY ZenonT(60), <1>1, <1>5, Wiping DEF Like
  <2> QED BY <2>1, BeingBusy DEF Like
<1>8. ASSUME b \in Int, NEW x \in {w, Wiped(w, b, b + u.card.preErase - 1)}
      PROVE  Writes(x, b) \in State /\ Writes(x, b).r1 = 0
  <2>1. b + u.card.preErase - 1 \in Int
    BY <1>3, <1>8
  <2>2. \A hi \in Int : Wiped(w, b, hi) \in State /\ Wiped(w, b, hi).r1 = 0
    <3>1. w \in State /\ w.r1 = 0 /\ b \in Int
      BY <1>1, <1>8
    <3> TAKE hi \in Int
    <3>2. Like(w, Wiped(w, b, hi)) /\ Wiped(w, b, hi).r1 = w.r1
      BY ZenonT(60), <3>1, Wiping
    <3> QED BY <3>1, <3>2 DEF Like
  <2>3. x \in State /\ x.r1 = 0
    BY <1>1, <1>8, <2>1, <2>2
  <2> QED BY <2>3, <1>8, Writing DEF Like
<1>9. \/ v = Sd!Answer(u, 4)
      \/ /\ cmd \notin {"CMD9", "CMD38"} => b \in Int
         /\ cmd = "CMD9" => v = Sends(w, Sd!CSD)
         /\ cmd = "CMD17" => v = Sends(w, b)
         /\ cmd = "CMD18" => v = Reads(w, b)
         /\ cmd = "CMD24" => v = Takes(w, b)
         /\ cmd = "CMD25" => \E x \in {w, Wiped(w, b, b + u.card.preErase - 1)} : v = Writes(x, b)
         /\ cmd = "CMD32" => v = From(w, b)
         /\ cmd = "CMD33" => v = To(w, b)
         /\ cmd = "CMD38" => \E busy \in BOOLEAN : v = Busy(Wiped(w, low, high), busy)
  BY <1>4, Transfers DEF w, b, low, high
<1> QED BY <1>6, <1>7, <1>8, <1>9

Fails(s, t) == ~t.ok /\ Still(s, t)
Deaf(s, t) == t.ok /\ t.slow /\ s.card.busy /\ t.card.busy /\ t.card.mode = s.card.mode

\* The cards before and after the wait for it.
LEMMA HeardCard ==
  ASSUME NEW s, Fit(s), NEW u, Hears(s, u)
  PROVE  /\ u \in State /\ u.card \in Sd!CardState /\ u.card.mode # "idle" /\ s.card.in
         /\ ~u.card.busy /\ u.card.in = s.card.in /\ u.card.model = s.card.model
         /\ u.card.app = s.card.app /\ u.card.mode = s.card.mode /\ u.card.sends = s.card.sends
         /\ u.card.takes = s.card.takes /\ u.card.from = s.card.from /\ u.card.to = s.card.to
         /\ u.card.preErase = s.card.preErase /\ u.card.block = s.card.block
<1>1. s.card \in Sd!CardState /\ u \in State /\ u.card \in Sd!CardState
  BY DEF Fit, Hears, Sound, State
<1>2. /\ u.card.in = s.card.in /\ u.card.model = s.card.model
      /\ u.card.app = s.card.app /\ u.card.mode = s.card.mode /\ u.card.sends = s.card.sends
      /\ u.card.takes = s.card.takes /\ u.card.from = s.card.from /\ u.card.to = s.card.to
      /\ u.card.preErase = s.card.preErase /\ u.card.block = s.card.block
  BY <1>1 DEF Hears, Sd!CardState
<1> QED BY <1>1, <1>2 DEF Fit, Hears, Sound, Sd!SoundCard

\* A command for a ready card is obeyed, or fails, or is not heard.
LEMMA Ordered ==
  ASSUME NEW s, Fit(s), NEW arg,
         NEW cmd \in {"CMD9", "CMD17", "CMD18", "CMD24", "CMD25", "CMD32", "CMD33", "CMD38"},
         NEW t \in Sd!Command(s, cmd, arg)
  PROVE  \/ /\ Fit(t) /\ SameCard(s, t) /\ t.torn = s.torn /\ Untouched(s, t)
            /\ Fails(s, t) \/ Deaf(s, t)
         \/ /\ s.card.mode = "ready"
            /\ \E u : Hears(s, u) /\ \E v \in Sd!Transfer(u, cmd, arg) :
                 v.r1 = 0 /\ v # Sd!Answer(u, 4) /\ t = Sd!Ok(v)
<1>1. ASSUME NEW u, Hears(s, u), NEW v \in Sd!Obeys(u, cmd, arg)
      PROVE  \/ v = Sd!Answer(u, 255) \/ v = Sd!Answer(u, 4)
             \/ v \in Sd!Transfer(u, cmd, arg) /\ v \in State /\ v.r1 = 0 /\ s.card.mode = "ready"
  <2>1. u \in State /\ u.card.mode # "idle" /\ u.card.mode = s.card.mode
    BY <1>1, HeardCard
  <2>2. v = Sd!Answer(u, 255) \/ v \in Sd!Transfer(u, cmd, arg)
    BY <1>1, <2>1, OnlyReady
  <2>3. v \in Sd!Transfer(u, cmd, arg) => v = Sd!Answer(u, 4) \/ u.card.mode = "ready"
    BY Transfers
  <2>4. v \in Sd!Transfer(u, cmd, arg) => v = Sd!Answer(u, 4) \/ (v \in State /\ v.r1 = 0)
    BY <2>1, TransferStates
  <2> QED BY <2>1, <2>2, <2>3, <2>4
<1>2. 4 \in Int /\ 255 \in Int
  OBVIOUS
<1>3. \A u : Hears(s, u) => \A v \in Sd!Obeys(u, cmd, arg) :
        (v \in State /\ v.r1 = 0) \/ \E r1 \in Int : v = Sd!Answer(u, r1)
  BY <1>1, <1>2
<1>4. CASE \E u : Hears(s, u) /\ \E v \in Sd!Obeys(u, cmd, arg) : v.r1 = 0 /\ t = Sd!Ok(v)
  <2>1. PICK u, v : Hears(s, u) /\ v \in Sd!Obeys(u, cmd, arg) /\ v.r1 = 0 /\ t = Sd!Ok(v)
    BY <1>4
  <2>2. u \in State
    BY <2>1, HeardCard
  <2>3. Sd!Answer(u, 4).r1 = 4 /\ Sd!Answer(u, 255).r1 = 255
    BY <2>2, Answering
  <2>4. v # Sd!Answer(u, 4) /\ v # Sd!Answer(u, 255)
    BY <2>1, <2>3
  <2> QED BY <1>1, <2>1, <2>4
<1> QED BY <1>3, <1>4, Commanded DEF Fails, Deaf

\* What the driver is left with when a ready card has obeyed.
LEMMA Done ==
  ASSUME NEW s, Fit(s), NEW u, Hears(s, u), s.card.mode # "off",
         NEW v, Like(u, v), v.card \in Sd!CardState,
         v.card.in = u.card.in, v.card.model = u.card.model,
         v.card.mode \in {"ready", "reading", "writing"}
  PROVE  /\ Fit(Sd!Ok(v)) /\ SameCard(s, Sd!Ok(v)) /\ Sd!Ok(v).torn = s.torn
         /\ Sd!Ok(v).slow = s.slow /\ Sd!Ok(v).ok /\ Sd!Ok(v).card = v.card
<1>1. v \in State
  BY DEF Like
<1>2. Like(v, Sd!Ok(v)) /\ Sd!Ok(v).ok /\ Sd!Ok(v).card = v.card
  BY <1>1, Succeeding
<1>3. Like(u, Sd!Ok(v))
  BY <1>2 DEF Like
<1>4. u.card.in /\ u.card.model = s.card.model
  BY HeardCard DEF Hears
<1>5. Sd!SoundCard(Sd!Ok(v).card)
  BY <1>2, <1>4 DEF Sd!SoundCard
<1> QED BY <1>2, <1>3, <1>4, <1>5, Obeyed

\* A ready card w that was s and is about to obey.
Ready(s, w) ==
  /\ w \in State /\ w.type = s.type /\ w.torn = s.torn /\ w.slow = s.slow /\ w.r1 = 0
  /\ s.card.mode = "ready" /\ w.card \in Sd!CardState /\ w.card.in /\ ~w.card.busy
  /\ w.card.model = s.card.model /\ w.card.mode = "ready" /\ w.card.sends = s.card.sends
  /\ w.card.takes = s.card.takes /\ w.card.from = s.card.from /\ w.card.to = s.card.to
  /\ w.card.preErase = s.card.preErase /\ w.card.block = s.card.block

LEMMA BecomesReady ==
  ASSUME NEW s, Fit(s), NEW u, Hears(s, u), s.card.mode = "ready"
  PROVE  Ready(s, Sd!Answer(u, 0))
<1> DEFINE w == Sd!Answer(u, 0)
<1>1. /\ u \in State /\ ~u.card.busy /\ u.card.in
      /\ u.card.model = s.card.model /\ u.card.mode = s.card.mode /\ u.card.sends = s.card.sends
      /\ u.card.takes = s.card.takes /\ u.card.from = s.card.from /\ u.card.to = s.card.to
      /\ u.card.preErase = s.card.preErase /\ u.card.block = s.card.block
  BY HeardCard
<1>2. /\ Like(u, w) /\ w.r1 = 0 /\ w.card \in Sd!CardState /\ w.card.in = u.card.in
      /\ w.card.model = u.card.model /\ w.card.busy = u.card.busy /\ w.card.mode = u.card.mode
      /\ w.card.sends = u.card.sends /\ w.card.takes = u.card.takes /\ w.card.from = u.card.from
      /\ w.card.to = u.card.to /\ w.card.preErase = u.card.preErase
      /\ w.card.block = u.card.block
  <2>1. u \in State /\ 0 \in Int
    BY <1>1
  <2> HIDE DEF w
  <2> QED BY ONLY <2>1, Answering DEF w
<1> HIDE DEF w
<1>3. Ready(s, w)
  <2>1. u.type = s.type /\ u.torn = s.torn /\ u.slow = s.slow
    BY DEF Hears
  <2> QED BY <1>1, <1>2, <2>1 DEF Ready, Like
<1> QED BY <1>3 DEF w

\* What the driver is left with when it has.
LEMMA Left ==
  ASSUME NEW s, Fit(s), NEW w, Ready(s, w), NEW v, Like(w, v), v.card \in Sd!CardState,
         v.card.in, v.card.model = s.card.model,
         v.card.mode \in {"ready", "reading", "writing"}
  PROVE  /\ Fit(Sd!Ok(v)) /\ SameCard(s, Sd!Ok(v)) /\ Sd!Ok(v).torn = s.torn
         /\ Sd!Ok(v).slow = s.slow /\ Sd!Ok(v).ok /\ Sd!Ok(v).card = v.card
<1>1. v \in State
  BY DEF Like
<1>2. Like(v, Sd!Ok(v)) /\ Sd!Ok(v).ok /\ Sd!Ok(v).card = v.card
  BY <1>1, Succeeding
<1>3. Sd!SoundCard(Sd!Ok(v).card)
  BY <1>2 DEF Sd!SoundCard
<1>4. s.card.in /\ s.card.mode = "ready" /\ s.type = s.card.model.kind
  BY DEF Fit, Sound, Sd!SoundCard, Ready
<1>5. Sd!Ok(v).type = s.type /\ Sd!Ok(v).torn = s.torn /\ Sd!Ok(v).slow = s.slow
  BY <1>2 DEF Like, Ready
<1>6. Sd!Ok(v) \in State
  BY <1>2 DEF Like
<1> QED BY <1>2, <1>3, <1>4, <1>5, <1>6 DEF Fit, Sound, SameCard

Undone(s, t) ==
  /\ Fit(t) /\ SameCard(s, t) /\ t.torn = s.torn /\ Untouched(s, t)
  /\ Fails(s, t) \/ Deaf(s, t)

\* A command without a block.
LEMMA Plain ==
  ASSUME NEW s, Fit(s), NEW cmd \in {"CMD9", "CMD38"}, NEW t \in Sd!Command(s, cmd, 0)
  PROVE  \/ Undone(s, t)
         \/ \E w, v : /\ Ready(s, w) /\ t = Sd!Ok(v)
                      /\ cmd = "CMD9" => v = Sends(w, Sd!CSD)
                      /\ cmd = "CMD38" => \E busy \in BOOLEAN :
                           LET size == IF w.card.model.eraseSingle THEN 1 ELSE SectorMask + 1
                           IN v = Busy(Wiped(w, size * (w.card.from \div size),
                                             size * (w.card.to \div size) + size - 1), busy)
<1>1. CASE /\ s.card.mode = "ready"
           /\ \E u : Hears(s, u) /\ \E v \in Sd!Transfer(u, cmd, 0) :
                v.r1 = 0 /\ v # Sd!Answer(u, 4) /\ t = Sd!Ok(v)
  <2>1. PICK u, v : Hears(s, u) /\ v \in Sd!Transfer(u, cmd, 0) /\ v # Sd!Answer(u, 4) /\ t = Sd!Ok(v)
    BY <1>1
  <2> DEFINE w == Sd!Answer(u, 0)
  <2>2. Ready(s, w)
    BY <1>1, <2>1, BecomesReady
  <2>3. w.card.model = u.card.model /\ w.card.from = u.card.from /\ w.card.to = u.card.to
    <3>1. u.card.model = s.card.model /\ u.card.from = s.card.from /\ u.card.to = s.card.to
      BY <2>1, HeardCard
    <3> HIDE DEF w
    <3> QED BY <2>2, <3>1 DEF Ready
  <2>4. /\ cmd = "CMD9" => v = Sends(w, Sd!CSD)
        /\ cmd = "CMD38" => \E busy \in BOOLEAN :
             LET size == IF u.card.model.eraseSingle THEN 1 ELSE SectorMask + 1
             IN v = Busy(Wiped(w, size * (u.card.from \div size),
                               size * (u.card.to \div size) + size - 1), busy)
    BY <2>1, Transfers
  <2> HIDE DEF w
  <2> QED BY <2>1, <2>2, <2>3, <2>4
<1> QED BY <1>1, Ordered DEF Undone

\* A command for block b, which is known to the card by its address.
LEMMA ForBlock ==
  ASSUME NEW s, Fit(s), NEW b \in Sd!Block,
         NEW cmd \in {"CMD17", "CMD18", "CMD24", "CMD25", "CMD32", "CMD33"},
         NEW t \in Sd!Command(s, cmd, Sd!Address(s, b))
  PROVE  \/ Undone(s, t)
         \/ \E w, v : /\ Ready(s, w) /\ t = Sd!Ok(v)
                      /\ cmd = "CMD17" => v = Sends(w, b)
                      /\ cmd = "CMD18" => v = Reads(w, b)
                      /\ cmd = "CMD24" => v = Takes(w, b)
                      /\ cmd = "CMD25" => \E x \in {w, Wiped(w, b, b + w.card.preErase - 1)} :
                                           v = Writes(x, b)
                      /\ cmd = "CMD32" => v = From(w, b)
                      /\ cmd = "CMD33" => v = To(w, b)
<1> DEFINE arg == Sd!Address(s, b)
<1>1. CASE /\ s.card.mode = "ready"
           /\ \E u : Hears(s, u) /\ \E v \in Sd!Transfer(u, cmd, arg) :
                v.r1 = 0 /\ v # Sd!Answer(u, 4) /\ t = Sd!Ok(v)
  <2>1. PICK u, v : Hears(s, u) /\ v \in Sd!Transfer(u, cmd, arg) /\ v # Sd!Answer(u, 4) /\ t = Sd!Ok(v)
    BY <1>1
  <2>2. /\ u.card.mode = s.card.mode /\ u.card.model = s.card.model
        /\ u.card.preErase = s.card.preErase
    BY <2>1, HeardCard
  <2>3. b \in Nat
    BY CardAssumption DEF Sd!Block, Sd!SdCardAssumption
  <2>4. Sd!BlockOf(u, arg) = b
    BY <1>1, <2>2, <2>3, Addressed DEF Fit
  <2> DEFINE w == Sd!Answer(u, 0)
  <2> HIDE DEF arg
  <2>5. Ready(s, w)
    BY <1>1, <2>1, BecomesReady
  <2>6. /\ cmd = "CMD17" => v = Sends(w, b)
        /\ cmd = "CMD18" => v = Reads(w, b)
        /\ cmd = "CMD24" => v = Takes(w, b)
        /\ cmd = "CMD25" => \E x \in {w, Wiped(w, b, b + u.card.preErase - 1)} : v = Writes(x, b)
        /\ cmd = "CMD32" => v = From(w, b)
        /\ cmd = "CMD33" => v = To(w, b)
    BY <2>1, <2>4, Transfers
  <2> HIDE DEF w
  <2>7. w.card.preErase = u.card.preErase
    BY <2>2, <2>5 DEF Ready
  <2> QED BY <2>1, <2>5, <2>6, <2>7
<1> QED BY <1>1, Ordered DEF Undone

\* readBlock(): the card is to send block b.
LEMMA SendsBlock ==
  ASSUME NEW s, Fit(s), NEW b \in Sd!Block,
         NEW t \in Sd!Command(s, "CMD17", Sd!Address(s, b))
  PROVE  \/ Undone(s, t)
         \/ /\ Fit(t) /\ SameCard(s, t) /\ t.torn = s.torn /\ Untouched(s, t) /\ t.ok
            /\ t.slow = s.slow /\ ~t.card.busy /\ t.card.in /\ s.card.mode = "ready"
            /\ t.card.mode = "ready" /\ t.card.sends = b
<1>1. CASE \E w, v : Ready(s, w) /\ t = Sd!Ok(v) /\ v = Sends(w, b)
  <2>1. PICK w, v : Ready(s, w) /\ t = Sd!Ok(v) /\ v = Sends(w, b)
    BY <1>1
  <2>2. w \in State /\ b \in Int
    BY <2>1, CardAssumption DEF Ready, Sd!Block, Sd!SdCardAssumption, Sd!CSD
  <2>3. /\ Like(w, v) /\ v.card \in Sd!CardState /\ v.card.in = w.card.in
        /\ v.card.model = w.card.model /\ v.card.busy = w.card.busy
        /\ v.card.block = w.card.block /\ v.card.sends = b /\ v.card.mode = w.card.mode
    BY <2>1, <2>2, Sending
  <2>4. /\ v.card.in /\ v.card.model = s.card.model
        /\ v.card.mode \in {"ready", "reading", "writing"}
        /\ ~v.card.busy /\ v.card.block = s.card.block /\ s.card.mode = "ready"
    BY <2>1, <2>3 DEF Ready
  <2>5. /\ Fit(t) /\ SameCard(s, t) /\ t.torn = s.torn /\ t.slow = s.slow /\ t.ok /\ t.card = v.card
    BY <2>1, <2>3, <2>4, Left
  <2> QED BY <2>1, <2>3, <2>4, <2>5 DEF Untouched, Ready
<1> QED BY <1>1, ForBlock

\* readStart(): and the blocks that follow.
LEMMA ReadsFrom ==
  ASSUME NEW s, Fit(s), NEW b \in Sd!Block,
         NEW t \in Sd!Command(s, "CMD18", Sd!Address(s, b))
  PROVE  \/ Undone(s, t)
         \/ /\ Fit(t) /\ SameCard(s, t) /\ t.torn = s.torn /\ Untouched(s, t) /\ t.ok
            /\ t.slow = s.slow /\ ~t.card.busy /\ t.card.in /\ s.card.mode = "ready"
            /\ t.card.mode = "reading" /\ t.card.sends = b
<1>1. CASE \E w, v : Ready(s, w) /\ t = Sd!Ok(v) /\ v = Reads(w, b)
  <2>1. PICK w, v : Ready(s, w) /\ t = Sd!Ok(v) /\ v = Reads(w, b)
    BY <1>1
  <2>2. w \in State /\ b \in Int
    BY <2>1, CardAssumption DEF Ready, Sd!Block, Sd!SdCardAssumption, Sd!CSD
  <2>3. /\ Like(w, v) /\ v.card \in Sd!CardState /\ v.card.in = w.card.in
        /\ v.card.model = w.card.model /\ v.card.busy = w.card.busy
        /\ v.card.block = w.card.block /\ v.card.sends = b /\ v.card.mode = "reading"
    BY <2>1, <2>2, Reading
  <2>4. /\ v.card.in /\ v.card.model = s.card.model
        /\ v.card.mode \in {"ready", "reading", "writing"}
        /\ ~v.card.busy /\ v.card.block = s.card.block /\ s.card.mode = "ready"
    BY <2>1, <2>3 DEF Ready
  <2>5. /\ Fit(t) /\ SameCard(s, t) /\ t.torn = s.torn /\ t.slow = s.slow /\ t.ok /\ t.card = v.card
    BY <2>1, <2>3, <2>4, Left
  <2> QED BY <2>1, <2>3, <2>4, <2>5 DEF Untouched, Ready
<1> QED BY <1>1, ForBlock

\* writeBlock(): the card is to take block b.
LEMMA TakesBlock ==
  ASSUME NEW s, Fit(s), NEW b \in Sd!Block,
         NEW t \in Sd!Command(s, "CMD24", Sd!Address(s, b))
  PROVE  \/ Undone(s, t)
         \/ /\ Fit(t) /\ SameCard(s, t) /\ t.torn = s.torn /\ Untouched(s, t) /\ t.ok
            /\ t.slow = s.slow /\ ~t.card.busy /\ t.card.in /\ s.card.mode = "ready"
            /\ t.card.mode = "ready" /\ t.card.takes = b
<1>1. CASE \E w, v : Ready(s, w) /\ t = Sd!Ok(v) /\ v = Takes(w, b)
  <2>1. PICK w, v : Ready(s, w) /\ t = Sd!Ok(v) /\ v = Takes(w, b)
    BY <1>1
  <2>2. w \in State /\ b \in Int
    BY <2>1, CardAssumption DEF Ready, Sd!Block, Sd!SdCardAssumption, Sd!CSD
  <2>3. /\ Like(w, v) /\ v.card \in Sd!CardState /\ v.card.in = w.card.in
        /\ v.card.model = w.card.model /\ v.card.busy = w.card.busy
        /\ v.card.block = w.card.block /\ v.card.takes = b /\ v.card.mode = w.card.mode
    BY <2>1, <2>2, Taking
  <2>4. /\ v.card.in /\ v.card.model = s.card.model
        /\ v.card.mode \in {"ready", "reading", "writing"}
        /\ ~v.card.busy /\ v.card.block = s.card.block /\ s.card.mode = "ready"
    BY <2>1, <2>3 DEF Ready
  <2>5. /\ Fit(t) /\ SameCard(s, t) /\ t.torn = s.torn /\ t.slow = s.slow /\ t.ok /\ t.card = v.card
    BY <2>1, <2>3, <2>4, Left
  <2> QED BY <2>1, <2>3, <2>4, <2>5 DEF Untouched, Ready
<1> QED BY <1>1, ForBlock

\* erase(): the first block,
LEMMA MarksFrom ==
  ASSUME NEW s, Fit(s), NEW b \in Sd!Block,
         NEW t \in Sd!Command(s, "CMD32", Sd!Address(s, b))
  PROVE  \/ Undone(s, t)
         \/ /\ Fit(t) /\ SameCard(s, t) /\ t.torn = s.torn /\ Untouched(s, t) /\ t.ok
            /\ t.slow = s.slow /\ ~t.card.busy /\ t.card.in /\ s.card.mode = "ready"
            /\ t.card.mode = "ready" /\ t.card.from = b
<1>1. CASE \E w, v : Ready(s, w) /\ t = Sd!Ok(v) /\ v = From(w, b)
  <2>1. PICK w, v : Ready(s, w) /\ t = Sd!Ok(v) /\ v = From(w, b)
    BY <1>1
  <2>2. w \in State /\ b \in Int
    BY <2>1, CardAssumption DEF Ready, Sd!Block, Sd!SdCardAssumption, Sd!CSD
  <2>3. /\ Like(w, v) /\ v.card \in Sd!CardState /\ v.card.in = w.card.in
        /\ v.card.model = w.card.model /\ v.card.busy = w.card.busy
        /\ v.card.block = w.card.block /\ v.card.from = b /\ v.card.mode = w.card.mode
    BY <2>1, <2>2, SettingFrom
  <2>4. /\ v.card.in /\ v.card.model = s.card.model
        /\ v.card.mode \in {"ready", "reading", "writing"}
        /\ ~v.card.busy /\ v.card.block = s.card.block /\ s.card.mode = "ready"
    BY <2>1, <2>3 DEF Ready
  <2>5. /\ Fit(t) /\ SameCard(s, t) /\ t.torn = s.torn /\ t.slow = s.slow /\ t.ok /\ t.card = v.card
    BY <2>1, <2>3, <2>4, Left
  <2> QED BY <2>1, <2>3, <2>4, <2>5 DEF Untouched, Ready
<1> QED BY <1>1, ForBlock

\* and the last one.
LEMMA MarksTo ==
  ASSUME NEW s, Fit(s), NEW b \in Sd!Block,
         NEW t \in Sd!Command(s, "CMD33", Sd!Address(s, b))
  PROVE  \/ Undone(s, t)
         \/ /\ Fit(t) /\ SameCard(s, t) /\ t.torn = s.torn /\ Untouched(s, t) /\ t.ok
            /\ t.slow = s.slow /\ ~t.card.busy /\ t.card.in /\ s.card.mode = "ready"
            /\ t.card.mode = "ready" /\ t.card.to = b /\ t.card.from = s.card.from
<1>1. CASE \E w, v : Ready(s, w) /\ t = Sd!Ok(v) /\ v = To(w, b)
  <2>1. PICK w, v : Ready(s, w) /\ t = Sd!Ok(v) /\ v = To(w, b)
    BY <1>1
  <2>2. w \in State /\ b \in Int
    BY <2>1, CardAssumption DEF Ready, Sd!Block, Sd!SdCardAssumption, Sd!CSD
  <2>3. /\ Like(w, v) /\ v.card \in Sd!CardState /\ v.card.in = w.card.in
        /\ v.card.model = w.card.model /\ v.card.busy = w.card.busy
        /\ v.card.block = w.card.block /\ v.card.to = b /\ v.card.from = w.card.from /\ v.card.mode = w.card.mode
    BY <2>1, <2>2, SettingTo
  <2>4. /\ v.card.in /\ v.card.model = s.card.model
        /\ v.card.mode \in {"ready", "reading", "writing"}
        /\ ~v.card.busy /\ v.card.block = s.card.block /\ s.card.mode = "ready"
    BY <2>1, <2>3 DEF Ready
  <2>5. /\ Fit(t) /\ SameCard(s, t) /\ t.torn = s.torn /\ t.slow = s.slow /\ t.ok /\ t.card = v.card
    BY <2>1, <2>3, <2>4, Left
  <2> QED BY <2>1, <2>3, <2>4, <2>5 DEF Untouched, Ready
<1> QED BY <1>1, ForBlock

\* readCSD(): the card is to send its register.
LEMMA SendsCSD ==
  ASSUME NEW s, Fit(s), 
         NEW t \in Sd!Command(s, "CMD9", 0)
  PROVE  \/ Undone(s, t)
         \/ /\ Fit(t) /\ SameCard(s, t) /\ t.torn = s.torn /\ Untouched(s, t) /\ t.ok
            /\ t.slow = s.slow /\ ~t.card.busy /\ t.card.in /\ s.card.mode = "ready"
            /\ t.card.mode = "ready" /\ t.card.sends = Sd!CSD
<1>1. CASE \E w, v : Ready(s, w) /\ t = Sd!Ok(v) /\ v = Sends(w, Sd!CSD)
  <2>1. PICK w, v : Ready(s, w) /\ t = Sd!Ok(v) /\ v = Sends(w, Sd!CSD)
    BY <1>1
  <2>2. w \in State /\ Sd!CSD \in Int
    BY <2>1, CardAssumption DEF Ready, Sd!Block, Sd!SdCardAssumption, Sd!CSD
  <2>3. /\ Like(w, v) /\ v.card \in Sd!CardState /\ v.card.in = w.card.in
        /\ v.card.model = w.card.model /\ v.card.busy = w.card.busy
        /\ v.card.block = w.card.block /\ v.card.sends = Sd!CSD /\ v.card.mode = w.card.mode
    BY <2>1, <2>2, Sending
  <2>4. /\ v.card.in /\ v.card.model = s.card.model
        /\ v.card.mode \in {"ready", "reading", "writing"}
        /\ ~v.card.busy /\ v.card.block = s.card.block /\ s.card.mode = "ready"
    BY <2>1, <2>3 DEF Ready
  <2>5. /\ Fit(t) /\ SameCard(s, t) /\ t.torn = s.torn /\ t.slow = s.slow /\ t.ok /\ t.card = v.card
    BY <2>1, <2>3, <2>4, Left
  <2> QED BY <2>1, <2>3, <2>4, <2>5 DEF Untouched, Ready
<1> QED BY <1>1, Plain

\* writeStart(): block b and those that follow; the ones that were announced
\* may be erased at once.
LEMMA WritesFrom ==
  ASSUME NEW s, Fit(s), NEW b \in Sd!Block, NEW t \in Sd!Command(s, "CMD25", Sd!Address(s, b))
  PROVE  \/ Undone(s, t)
         \/ /\ Fit(t) /\ SameCard(s, t) /\ t.torn = s.torn /\ t.ok /\ t.slow = s.slow
            /\ t.card.in /\ s.card.mode = "ready" /\ t.card.mode = "writing" /\ t.card.takes = b
            /\ \A x \in Sd!Block :
                 x \notin b..(b + s.card.preErase - 1) => t.card.block[x] = s.card.block[x]
<1>1. CASE \E w, v : /\ Ready(s, w) /\ t = Sd!Ok(v)
                     /\ \E x \in {w, Wiped(w, b, b + w.card.preErase - 1)} : v = Writes(x, b)
  <2>1. PICK w, v : /\ Ready(s, w) /\ t = Sd!Ok(v)
                    /\ \E x \in {w, Wiped(w, b, b + w.card.preErase - 1)} : v = Writes(x, b)
    BY <1>1
  <2>2. PICK x \in {w, Wiped(w, b, b + w.card.preErase - 1)} : v = Writes(x, b)
    BY <2>1
  <2>3. /\ w \in State /\ w.card.preErase = s.card.preErase /\ w.card.preErase \in Int
        /\ w.card \in Sd!CardState
    BY <2>1 DEF Ready, Sd!CardState
  <2>4. b \in Int
    BY CardAssumption DEF Sd!Block, Sd!SdCardAssumption
  <2> DEFINE hi == b + w.card.preErase - 1
  <2>5. hi \in Int
    BY <2>3, <2>4
  <2>6. /\ Like(w, x) /\ x.card.in = w.card.in /\ x.card.model = w.card.model
        /\ \A y \in Sd!Block : y \notin b..hi => x.card.block[y] = w.card.block[y]
    <3>1. CASE x = w
      BY <2>3, <3>1 DEF Like
    <3>2. CASE x = Wiped(w, b, hi)
      <4> HIDE DEF hi
      <4>1. /\ Like(w, x) /\ x.card.in = w.card.in /\ x.card.model = w.card.model
            /\ x.card.block = [y \in Sd!Block |-> IF y \in b..hi THEN Sd!Erased ELSE w.card.block[y]]
        BY <2>3, <2>4, <2>5, <3>2, Wiping
      <4> QED BY <4>1
    <3> QED BY <2>2, <3>1, <3>2
  <2> HIDE DEF hi
  <2>7. x \in State
    BY <2>6 DEF Like
  <2>8. /\ Like(x, v) /\ v.card \in Sd!CardState /\ v.card.in = x.card.in
        /\ v.card.model = x.card.model /\ v.card.block = x.card.block
        /\ v.card.takes = b /\ v.card.mode = "writing"
    BY <2>2, <2>4, <2>7, Writing
  <2>9. /\ Like(w, v) /\ v.card.in /\ v.card.model = s.card.model
        /\ v.card.mode \in {"ready", "reading", "writing"} /\ s.card.mode = "ready"
    BY <2>1, <2>6, <2>8 DEF Ready, Like
  <2>10. /\ Fit(t) /\ SameCard(s, t) /\ t.torn = s.torn /\ t.slow = s.slow /\ t.ok /\ t.card = v.card
    BY <2>1, <2>8, <2>9, Left
  <2>11. w.card.block = s.card.block
    BY <2>1 DEF Ready
  <2> QED BY <2>3, <2>6, <2>8, <2>9, <2>10, <2>11 DEF hi
<1> QED BY <1>1, ForBlock

Low(c) == LET size == IF c.model.eraseSingle THEN 1 ELSE SectorMask + 1
          IN size * (c.from \div size)
High(c) == LET size == IF c.model.eraseSingle THEN 1 ELSE SectorMask + 1
           IN size * (c.to \div size) + size - 1

\* The erase sectors of the two blocks and what is between.
LEMMA Wipes ==
  ASSUME NEW s, Fit(s), NEW t \in Sd!Command(s, "CMD38", 0)
  PROVE  \/ Undone(s, t)
         \/ /\ Fit(t) /\ SameCard(s, t) /\ t.torn = s.torn /\ t.ok /\ t.slow = s.slow
            /\ t.card.in /\ s.card.mode = "ready" /\ t.card.mode = "ready"
            /\ \A x \in Sd!Block : t.card.block[x] =
                 IF x \in Low(s.card)..High(s.card) THEN Sd!Erased ELSE s.card.block[x]
<1>1. CASE \E w, v : /\ Ready(s, w) /\ t = Sd!Ok(v)
                     /\ \E busy \in BOOLEAN : v = Busy(Wiped(w, Low(w.card), High(w.card)), busy)
  <2>1. PICK w, v : /\ Ready(s, w) /\ t = Sd!Ok(v)
                    /\ \E busy \in BOOLEAN : v = Busy(Wiped(w, Low(w.card), High(w.card)), busy)
    BY <1>1
  <2>2. PICK busy \in BOOLEAN : v = Busy(Wiped(w, Low(w.card), High(w.card)), busy)
    BY <2>1
  <2>3. w \in State /\ w.card \in Sd!CardState
    BY <2>1 DEF Ready
  <2>4. Low(w.card) \in Int /\ High(w.card) \in Int
    <3>1. w.card.from \in Int /\ w.card.to \in Int
      BY <2>3 DEF Sd!CardState
    <3> DEFINE size == IF w.card.model.eraseSingle THEN 1 ELSE SectorMask + 1
    <3>2. size \in Nat \ {0}
      BY CardAssumption DEF Sd!SdCardAssumption
    <3> HIDE DEF size
    <3>3. w.card.from \div size \in Int /\ w.card.to \div size \in Int
      BY <3>1, <3>2, IntMod
    <3>4. size * (w.card.from \div size) \in Int /\ size * (w.card.to \div size) + size - 1 \in Int
      BY <3>2, <3>3
    <3> QED BY <3>4 DEF size, Low, High
  <2>5. Low(w.card) = Low(s.card) /\ High(w.card) = High(s.card)
    BY <2>1 DEF Ready, Low, High
  <2> DEFINE x == Wiped(w, Low(w.card), High(w.card))
  <2>6. /\ Like(w, x) /\ x.card.in = w.card.in /\ x.card.model = w.card.model
        /\ x.card.mode = w.card.mode
        /\ x.card.block = [y \in Sd!Block |-> IF y \in Low(w.card)..High(w.card) THEN Sd!Erased
                                             ELSE w.card.block[y]]
    BY <2>3, <2>4, Wiping
  <2> HIDE DEF x
  <2>7. x \in State
    BY <2>6 DEF Like
  <2>8. /\ Like(x, v) /\ v.card \in Sd!CardState /\ v.card.in = x.card.in
        /\ v.card.model = x.card.model /\ v.card.block = x.card.block /\ v.card.mode = x.card.mode
    BY <2>2, <2>7, BeingBusy DEF x
  <2>9. /\ Like(w, v) /\ v.card.in /\ v.card.model = s.card.model /\ v.card.mode = "ready"
        /\ v.card.mode \in {"ready", "reading", "writing"} /\ s.card.mode = "ready"
    BY <2>1, <2>6, <2>8 DEF Ready, Like
  <2>10. /\ Fit(t) /\ SameCard(s, t) /\ t.torn = s.torn /\ t.slow = s.slow /\ t.ok /\ t.card = v.card
    BY <2>1, <2>8, <2>9, Left
  <2>11. w.card.block = s.card.block
    BY <2>1 DEF Ready
  <2> QED BY <2>5, <2>6, <2>8, <2>9, <2>10, <2>11
<1> QED BY <1>1, Plain DEF Low, High

\* What the card does at the other commands of a started driver.
LEMMA ObeysOthers ==
  ASSUME NEW u, u.card.mode # "idle", NEW arg, NEW cmd \in {"CMD55", "ACMD23", "CMD12"},
         NEW v \in Sd!Obeys(u, cmd, arg)
  PROVE  \/ u.card.mode = "off" /\ v = Sd!Answer(u, 255)
         \/ (u.card.mode # "reading" \/ cmd # "CMD12") /\ v = Sd!Answer(u, 4)
         \/ u.card.mode # "off" /\ cmd = "CMD55" /\ v = AppNext(Sd!Answer(u, 0))
         \/ u.card.mode = "ready" /\ cmd = "ACMD23" /\ v = Erasing(Sd!Answer(u, 0), arg)
         \/ u.card.mode = "reading" /\ cmd = "CMD12" /\ v = Cleared(Sd!Answer(u, 0))
<1> DEFINE R1 == IF u.card.mode = "idle" THEN 1 ELSE 0
<1>1. \/ u.card.mode = "off" /\ v = Sd!Answer(u, 255)
      \/ u.card.mode # "off" /\ cmd = "CMD55" /\ v = AppNext(Sd!Answer(u, R1))
      \/ u.card.mode = "reading" /\ cmd = "CMD12" /\ v = Cleared(Sd!Answer(u, 0))
      \/ (u.card.mode # "reading" \/ cmd # "CMD12") /\ v = Sd!Answer(u, R1 + 4)
      \/ cmd = "ACMD23" /\ v \in Sd!Transfer(u, cmd, arg)
  <2>1. \/ u.card.mode = "off" /\ v = Sd!Answer(u, 255)
        \/ u.card.mode # "off" /\ v \in Sd!Follows(u, cmd, arg)
    <3>1. cmd # "CMD0"
      OBVIOUS
    <3>2. Sd!Obeys(u, cmd, arg) =
            IF u.card.mode = "off" THEN {Sd!Answer(u, 255)} ELSE Sd!Follows(u, cmd, arg)
      BY <3>1 DEF Sd!Obeys
    <3>3. v \in Sd!Obeys(u, cmd, arg)
      OBVIOUS
    <3> QED BY <3>2, <3>3
  <2>2. ASSUME cmd = "CMD55", v \in Sd!Follows(u, cmd, arg)
        PROVE  v = AppNext(Sd!Answer(u, R1))
    BY <2>2 DEF Sd!Follows, AppNext
  <2>3. ASSUME cmd = "ACMD23", v \in Sd!Follows(u, cmd, arg)
        PROVE  v = Sd!Answer(u, R1 + 4) \/ v \in Sd!Transfer(u, cmd, arg)
    BY <2>3 DEF Sd!Follows
  <2>4. ASSUME cmd = "CMD12", v \in Sd!Follows(u, cmd, arg)
        PROVE  \/ u.card.mode = "reading" /\ v = Cleared(Sd!Answer(u, 0))
               \/ u.card.mode # "reading" /\ v = Sd!Answer(u, R1 + 4)
    BY <2>4 DEF Sd!Follows, Cleared
  <2> QED BY <2>1, <2>2, <2>3, <2>4
<1>2. ASSUME cmd = "ACMD23", v \in Sd!Transfer(u, cmd, arg)
      PROVE  v = Sd!Answer(u, 4) \/ (u.card.mode = "ready" /\ v = Erasing(Sd!Answer(u, 0), arg))
  BY <1>2 DEF Sd!Transfer, Erasing
<1>3. R1 = 0
  OBVIOUS
<1> HIDE DEF R1
<1>4. R1 + 4 = 4
  BY <1>3
<1> QED BY <1>1, <1>2, <1>3, <1>4

\* The effect of one of them, heard.
LEMMA Others ==
  ASSUME NEW s, Fit(s), NEW u, Hears(s, u), NEW w \in State, w = Sd!Answer(u, 0)
  PROVE  /\ Like(u, w) /\ w.card \in Sd!CardState /\ w.card.in /\ ~w.card.busy /\ w.r1 = 0
         /\ w.card.model = s.card.model /\ w.card.mode = s.card.mode
         /\ w.card.block = s.card.block /\ w.card.takes = s.card.takes
         /\ w.card.sends = s.card.sends
<1>1. /\ u \in State /\ ~u.card.busy /\ u.card.in
      /\ u.card.model = s.card.model /\ u.card.mode = s.card.mode /\ u.card.sends = s.card.sends
      /\ u.card.takes = s.card.takes /\ u.card.block = s.card.block
  BY HeardCard
<1>2. u \in State /\ 0 \in Int
  BY <1>1
<1>3. /\ Like(u, Sd!Answer(u, 0)) /\ Sd!Answer(u, 0).card \in Sd!CardState /\ Sd!Answer(u, 0).r1 = 0
      /\ Sd!Answer(u, 0).card.in = u.card.in
      /\ Sd!Answer(u, 0).card.model = u.card.model /\ Sd!Answer(u, 0).card.busy = u.card.busy
      /\ Sd!Answer(u, 0).card.mode = u.card.mode /\ Sd!Answer(u, 0).card.sends = u.card.sends
      /\ Sd!Answer(u, 0).card.takes = u.card.takes /\ Sd!Answer(u, 0).card.block = u.card.block
  BY ONLY <1>2, Answering
<1> QED BY <1>1, <1>3

\* readStop(): the sequence is over, unless the driver was not heard.
LEMMA Stops ==
  ASSUME NEW s, Fit(s), NEW t \in Sd!Command(s, "CMD12", 0)
  PROVE  /\ Fit(t) /\ SameCard(s, t) /\ t.torn = s.torn /\ Untouched(s, t)
         /\ s.card.mode = "reading" => t.slow \/ t.card.mode \in {"off", "ready"}
<1>1. ASSUME NEW u, Hears(s, u), NEW v \in Sd!Obeys(u, "CMD12", 0)
      PROVE  \/ s.card.mode # "reading" /\ \E r1 \in {4, 255} : v = Sd!Answer(u, r1)
             \/ s.card.mode = "reading" /\ v = Cleared(Sd!Answer(u, 0))
  <2>1. u.card.mode # "idle" /\ u.card.mode = s.card.mode
    BY <1>1, HeardCard
  <2>2. \/ u.card.mode = "off" /\ v = Sd!Answer(u, 255)
        \/ u.card.mode # "reading" /\ v = Sd!Answer(u, 4)
        \/ u.card.mode = "reading" /\ v = Cleared(Sd!Answer(u, 0))
    BY <1>1, <2>1, ObeysOthers
  <2> QED BY <2>1, <2>2
<1>2. ASSUME NEW u, Hears(s, u), NEW v, s.card.mode = "reading", v = Cleared(Sd!Answer(u, 0))
      PROVE  /\ v \in State /\ v.r1 = 0 /\ Fit(Sd!Ok(v)) /\ SameCard(s, Sd!Ok(v))
             /\ Sd!Ok(v).torn = s.torn /\ Untouched(s, Sd!Ok(v)) /\ Sd!Ok(v).card.mode = "ready"
  <2> DEFINE w == Sd!Answer(u, 0)
  <2>1. u \in State /\ u.card.in /\ u.card.model = s.card.model
    BY ZenonT(60), <1>2, HeardCard DEF Hears
  <2>2. w \in State
    BY <2>1, Answering DEF Like
  <2>3. /\ Like(u, w) /\ w.card \in Sd!CardState /\ w.card.in /\ w.r1 = 0
        /\ w.card.model = s.card.model /\ w.card.block = s.card.block
    BY <1>2, <2>2, Others
  <2> HIDE DEF w
  <2>4. /\ Like(w, v) /\ v.r1 = w.r1 /\ v.card \in Sd!CardState /\ v.card.in = w.card.in
        /\ v.card.model = w.card.model /\ v.card.mode = "ready" /\ v.card.block = w.card.block
    BY <1>2, <2>2, Clearing DEF w
  <2>5. /\ Like(u, v) /\ v.card \in Sd!CardState /\ v.card.in = u.card.in
        /\ v.card.model = u.card.model /\ v.card.mode \in {"ready", "reading", "writing"}
        /\ s.card.mode # "off" /\ Hears(s, u) /\ v \in State
    BY <1>2, <2>1, <2>3, <2>4 DEF Like
  <2>6. /\ Fit(Sd!Ok(v)) /\ SameCard(s, Sd!Ok(v)) /\ Sd!Ok(v).torn = s.torn
        /\ Sd!Ok(v).slow = s.slow /\ Sd!Ok(v).ok /\ Sd!Ok(v).card = v.card
    BY <2>5, Done
  <2> QED BY <2>3, <2>4, <2>5, <2>6 DEF Untouched
<1>3. 4 \in Int /\ 255 \in Int
  OBVIOUS
<1>4. \A u : Hears(s, u) => \A v \in Sd!Obeys(u, "CMD12", 0) :
        (v \in State /\ v.r1 = 0) \/ \E r1 \in Int : v = Sd!Answer(u, r1)
  BY <1>1, <1>2, <1>3
<1>5. CASE \E u : Hears(s, u) /\ \E v \in Sd!Obeys(u, "CMD12", 0) : v.r1 = 0 /\ t = Sd!Ok(v)
  <2>1. PICK u, v : Hears(s, u) /\ v \in Sd!Obeys(u, "CMD12", 0) /\ v.r1 = 0 /\ t = Sd!Ok(v)
    BY <1>5
  <2>2. u \in State
    BY <2>1, HeardCard
  <2>3. v # Sd!Answer(u, 4) /\ v # Sd!Answer(u, 255)
    <3>1. Sd!Answer(u, 4).r1 = 4 /\ Sd!Answer(u, 255).r1 = 255
      BY <2>2, Answering
    <3> QED BY <2>1, <3>1
  <2>4. s.card.mode = "reading" /\ v = Cleared(Sd!Answer(u, 0))
    BY <1>1, <2>1, <2>3
  <2> QED BY <1>2, <2>1, <2>4
<1>6. ASSUME s.card.mode = "reading", NEW u, Hears(s, u), NEW v \in Sd!Obeys(u, "CMD12", 0)
      PROVE  v.r1 = 0
  BY <1>1, <1>2, <1>6
<1> QED BY <1>4, <1>5, <1>6, Commanded

LEMMA AppNexts ==
  ASSUME NEW w \in State
  PROVE  LET t == AppNext(w)
             c == t.card
         IN /\ Like(w, t) /\ t.r1 = w.r1 /\ c \in Sd!CardState /\ c.in = w.card.in
            /\ c.model = w.card.model /\ c.busy = w.card.busy /\ c.mode = w.card.mode
            /\ c.sends = w.card.sends /\ c.takes = w.card.takes /\ c.block = w.card.block
<1> DEFINE c == [w.card EXCEPT !.app = TRUE]
<1>1. w.card \in Sd!CardState
  BY DEF State
<1>2. /\ c \in Sd!CardState /\ c.in = w.card.in
      /\ c.model = w.card.model /\ c.busy = w.card.busy /\ c.mode = w.card.mode
      /\ c.sends = w.card.sends /\ c.takes = w.card.takes /\ c.block = w.card.block
  BY <1>1 DEF Sd!CardState
<1>3. AppNext(w) = [w EXCEPT !.card = c]
  BY <1>1 DEF State, Sd!CardState, AppNext
<1> HIDE DEF c
<1>4. Like(w, AppNext(w)) /\ AppNext(w).r1 = w.r1 /\ AppNext(w).card = c
  BY <1>2, <1>3, NewCard
<1> QED BY <1>2, <1>4

\* CMD55 is sent before an application command; its answer is not looked at.
LEMMA Announced ==
  ASSUME NEW s, Fit(s), NEW t \in Sd!cardCommand(s, "CMD55", 0)
  PROVE  /\ Fit(t) /\ SameCard(s, t) /\ t.torn = s.torn /\ Untouched(s, t)
         /\ t.slow \/ Still(s, t)
<1>1. CASE \E u : Hears(s, u) /\ \E v \in Sd!Obeys(u, "CMD55", 0) : t = Sd!Ok(v)
  <2>1. PICK u, v : Hears(s, u) /\ v \in Sd!Obeys(u, "CMD55", 0) /\ t = Sd!Ok(v)
    BY <1>1
  <2>2. /\ u \in State /\ u.card.mode # "idle" /\ u.card.mode = s.card.mode /\ s.card.in
        /\ ~u.card.busy /\ u.card.in /\ u.card.model = s.card.model /\ u.card.block = s.card.block
        /\ u.card.sends = s.card.sends /\ u.card.takes = s.card.takes
    <3>1. u.card.in
      BY <2>1 DEF Hears
    <3> QED BY <2>1, <3>1, HeardCard
  <2>3. \/ u.card.mode = "off" /\ v = Sd!Answer(u, 255)
        \/ v = Sd!Answer(u, 4) \/ v = AppNext(Sd!Answer(u, 0))
    BY <2>1, <2>2, ObeysOthers
  <2>4. ASSUME NEW r1 \in Int
        PROVE  /\ Like(u, Sd!Answer(u, r1)) /\ Sd!Answer(u, r1).card \in Sd!CardState
               /\ Sd!Answer(u, r1).card.in = u.card.in
               /\ Sd!Answer(u, r1).card.model = u.card.model
               /\ Sd!Answer(u, r1).card.busy = u.card.busy
               /\ Sd!Answer(u, r1).card.mode = u.card.mode
               /\ Sd!Answer(u, r1).card.sends = u.card.sends
               /\ Sd!Answer(u, r1).card.takes = u.card.takes
               /\ Sd!Answer(u, r1).card.block = u.card.block
    BY <2>2, <2>4, Answering
  <2>5. /\ Like(u, v) /\ v.card \in Sd!CardState /\ v.card.in = u.card.in
        /\ v.card.model = u.card.model /\ v.card.busy = u.card.busy /\ v.card.mode = u.card.mode
        /\ v.card.sends = u.card.sends /\ v.card.takes = u.card.takes /\ v.card.block = u.card.block
    <3>1. CASE \E r1 \in Int : v = Sd!Answer(u, r1)
      BY <2>4, <3>1
    <3>2. CASE v = AppNext(Sd!Answer(u, 0))
      <4> DEFINE w == Sd!Answer(u, 0)
      <4>1. /\ Like(u, w) /\ w.card \in Sd!CardState /\ w.card.in = u.card.in
            /\ w.card.model = u.card.model /\ w.card.busy = u.card.busy
            /\ w.card.mode = u.card.mode /\ w.card.sends = u.card.sends
            /\ w.card.takes = u.card.takes /\ w.card.block = u.card.block
        BY <2>4
      <4>2. v = AppNext(w)
        BY <3>2
      <4> HIDE DEF w
      <4>3. w \in State
        BY <4>1 DEF Like
      <4>4. /\ Like(w, v) /\ v.card \in Sd!CardState /\ v.card.in = w.card.in
            /\ v.card.model = w.card.model /\ v.card.busy = w.card.busy
            /\ v.card.mode = w.card.mode /\ v.card.sends = w.card.sends
            /\ v.card.takes = w.card.takes /\ v.card.block = w.card.block
        BY <4>2, <4>3, AppNexts
      <4> QED BY <4>1, <4>4 DEF Like
    <3>3. 4 \in Int /\ 255 \in Int
      OBVIOUS
    <3> QED BY <2>3, <3>1, <3>2, <3>3
  <2>6. Like(v, t) /\ t.card = v.card
    BY <2>1, <2>5, Succeeding DEF Like
  <2>7. /\ t \in State /\ t.type = s.type /\ t.torn = s.torn /\ t.slow = s.slow
    BY <2>1, <2>5, <2>6 DEF Like, Hears
  <2>8. /\ t.card \in Sd!CardState /\ t.card.in /\ ~t.card.busy /\ t.card.mode = s.card.mode
        /\ t.card.model = s.card.model /\ t.card.block = s.card.block
        /\ t.card.sends = s.card.sends /\ t.card.takes = s.card.takes
    BY <2>2, <2>5, <2>6
  <2>9. Fit(t)
    BY <2>7, <2>8 DEF Fit, Sound, Sd!SoundCard
  <2> QED BY <2>2, <2>7, <2>8, <2>9 DEF SameCard, Untouched, Still
<1>2. Sound(s)
  BY DEF Fit
<1> QED BY <1>1, <1>2, Answers DEF Fit, Still, SameCard

\* writeStart(): the number of blocks is announced to a ready card.
LEMMA Announces ==
  ASSUME NEW s, Fit(s), NEW count \in Int, NEW t \in Sd!Must(Sd!cardAcmd(s, "ACMD23", count))
  PROVE  /\ Fit(t) /\ SameCard(s, t) /\ t.torn = s.torn /\ Untouched(s, t)
         /\ \/ t.slow \/ Fails(s, t)
            \/ /\ t.ok /\ s.card.mode = "ready" /\ t.card.mode = "ready" /\ t.card.in
               /\ t.card.preErase = count
<1>1. PICK p \in Sd!cardCommand(s, "CMD55", 0) : t \in Sd!Command(p, "ACMD23", count)
  BY DEF Sd!Must, Sd!cardAcmd, Sd!Command
<1>2. Fit(p) /\ SameCard(s, p) /\ p.torn = s.torn /\ Untouched(s, p) /\ (p.slow \/ Still(s, p))
  BY Announced
<1>3. ASSUME NEW u, Hears(p, u), NEW v \in Sd!Obeys(u, "ACMD23", count)
      PROVE  \/ v = Sd!Answer(u, 255) \/ v = Sd!Answer(u, 4)
             \/ p.card.mode = "ready" /\ v = Erasing(Sd!Answer(u, 0), count)
  <2>1. u.card.mode # "idle" /\ u.card.mode = p.card.mode
    BY <1>2, <1>3, HeardCard
  <2> QED BY <1>3, <2>1, ObeysOthers
<1>4. ASSUME NEW u, Hears(p, u), NEW v, p.card.mode = "ready", v = Erasing(Sd!Answer(u, 0), count)
      PROVE  /\ v \in State /\ v.r1 = 0 /\ Fit(Sd!Ok(v)) /\ SameCard(p, Sd!Ok(v))
             /\ Sd!Ok(v).torn = p.torn /\ Untouched(p, Sd!Ok(v)) /\ Sd!Ok(v).card.mode = "ready"
             /\ Sd!Ok(v).card.in /\ Sd!Ok(v).card.preErase = count /\ Sd!Ok(v).ok
  <2> DEFINE w == Sd!Answer(u, 0)
  <2>1. Ready(p, w)
    BY <1>2, <1>4, BecomesReady
  <2>2. v = Erasing(w, count)
    BY <1>4
  <2> HIDE DEF w
  <2>3. w \in State /\ w.r1 = 0 /\ w.card.in /\ w.card.model = p.card.model
        /\ w.card.mode = "ready" /\ w.card.block = p.card.block
    BY <2>1 DEF Ready
  <2>4. /\ Like(w, v) /\ v.r1 = w.r1 /\ v.card \in Sd!CardState /\ v.card.in = w.card.in
        /\ v.card.model = w.card.model /\ v.card.mode = w.card.mode /\ v.card.block = w.card.block
        /\ v.card.preErase = count
    BY <2>2, <2>3, PreErasing
  <2>5. v.card.in /\ v.card.model = p.card.model /\ v.card.mode \in {"ready", "reading", "writing"}
    BY <2>3, <2>4
  <2>6. /\ Fit(Sd!Ok(v)) /\ SameCard(p, Sd!Ok(v)) /\ Sd!Ok(v).torn = p.torn
        /\ Sd!Ok(v).slow = p.slow /\ Sd!Ok(v).ok /\ Sd!Ok(v).card = v.card
    BY <1>2, <2>1, <2>4, <2>5, Left
  <2> QED BY <2>3, <2>4, <2>6 DEF Untouched, Like
<1>5. 4 \in Int /\ 255 \in Int
  OBVIOUS
<1>6. \A u : Hears(p, u) => \A v \in Sd!Obeys(u, "ACMD23", count) :
        (v \in State /\ v.r1 = 0) \/ \E r1 \in Int : v = Sd!Answer(u, r1)
  BY <1>3, <1>4, <1>5
<1>7. \/ /\ Fit(t) /\ SameCard(p, t) /\ t.torn = p.torn /\ Untouched(p, t)
         /\ (~t.ok /\ Still(p, t)) \/ t.slow
      \/ \E u : Hears(p, u) /\ \E v \in Sd!Obeys(u, "ACMD23", count) : v.r1 = 0 /\ t = Sd!Ok(v)
  BY <1>1, <1>2, <1>6, Commanded
<1>8. CASE \E u : Hears(p, u) /\ \E v \in Sd!Obeys(u, "ACMD23", count) : v.r1 = 0 /\ t = Sd!Ok(v)
  <2>1. PICK u, v : Hears(p, u) /\ v \in Sd!Obeys(u, "ACMD23", count) /\ v.r1 = 0 /\ t = Sd!Ok(v)
    BY <1>8
  <2>2. u \in State
    BY <1>2, <2>1, HeardCard
  <2>3. v # Sd!Answer(u, 4) /\ v # Sd!Answer(u, 255)
    <3>1. Sd!Answer(u, 4).r1 = 4 /\ Sd!Answer(u, 255).r1 = 255
      BY <2>2, Answering
    <3> QED BY <2>1, <3>1
  <2>4. p.card.mode = "ready" /\ v = Erasing(Sd!Answer(u, 0), count)
    BY <1>3, <2>1, <2>3
  <2>5. /\ Fit(t) /\ SameCard(p, t) /\ t.torn = p.torn /\ Untouched(p, t) /\ t.ok
        /\ t.card.mode = "ready" /\ t.card.in /\ t.card.preErase = count
    BY <1>4, <2>1, <2>4
  <2>6. t.slow \/ s.card.mode = "ready"
    BY <1>2, <2>4, <2>5 DEF SameCard, Still
  <2> QED BY <1>2, <2>5, <2>6 DEF SameCard, Untouched
<1>9. CASE /\ Fit(t) /\ SameCard(p, t) /\ t.torn = p.torn /\ Untouched(p, t)
           /\ (~t.ok /\ Still(p, t)) \/ t.slow
  BY <1>2, <1>9 DEF SameCard, Untouched, Still, Fails
<1> QED BY <1>7, <1>8, <1>9

-----------------------------------------------------------------------------
(***************************************************************************)
(* The data of a block.                                                    *)
(***************************************************************************)
Gets(w, g, x) == [Sd!Ok(w) EXCEPT !.got = g, !.card.sends = x]

LEMMA Getting ==
  ASSUME NEW u \in State, NEW g \in Content, NEW x \in Int, NEW t, t = Gets(u, g, x)
  PROVE  /\ t \in State /\ t.type = u.type /\ t.slow = u.slow /\ t.torn = u.torn /\ t.ok
         /\ t.got = g
         /\ LET c == t.card
            IN /\ c \in Sd!CardState /\ c.in = u.card.in /\ c.model = u.card.model
               /\ c.busy = u.card.busy /\ c.mode = u.card.mode /\ c.sends = x
               /\ c.takes = u.card.takes /\ c.block = u.card.block
<1> DEFINE c == [u.card EXCEPT !.sends = x]
<1>1. u.card \in Sd!CardState
  BY DEF State
<1>2. /\ c \in Sd!CardState /\ c.in = u.card.in /\ c.model = u.card.model
      /\ c.busy = u.card.busy /\ c.mode = u.card.mode /\ c.sends = x
      /\ c.takes = u.card.takes /\ c.block = u.card.block
  BY <1>1 DEF Sd!CardState
<1>3. t = [u EXCEPT !.ok = TRUE, !.got = g, !.card = c]
  BY <1>1 DEF State, Sd!CardState, Sd!Ok, Gets
<1> HIDE DEF c
<1>4. /\ t \in State /\ t.type = u.type /\ t.slow = u.slow /\ t.torn = u.torn /\ t.ok
      /\ t.got = g /\ t.card = c
  BY <1>2, <1>3 DEF State
<1> QED BY <1>2, <1>4

\* The card is pulled within the block.
LEMMA Losing ==
  ASSUME NEW s, Fit(s), NEW t,
         t = Sd!Ok([s EXCEPT !.card = Sd!NoCard, !.got = Sd!Torn, !.torn = TRUE])
  PROVE  /\ Fit(t) /\ SameCard(s, t) /\ Untouched(s, t) /\ t.slow = s.slow
         /\ t.ok /\ t.torn /\ t.card.mode = "off"
<1>1. s \in State /\ Sd!NoCard \in Sd!CardState /\ Sd!Torn \in Content
  BY Empty DEF Fit, Sound, Sd!SoundCard, Content
<1>2. t = [s EXCEPT !.ok = TRUE, !.card = Sd!NoCard, !.got = Sd!Torn, !.torn = TRUE]
  BY <1>1 DEF State, Sd!Ok
<1>3. /\ t \in State /\ t.type = s.type /\ t.slow = s.slow /\ t.torn /\ t.ok
      /\ t.card = Sd!NoCard
  BY <1>1, <1>2 DEF State
<1> QED BY <1>3, Empty DEF Fit, Sound, SameCard, Untouched

\* A call that fails without a word to the card.
LEMMA GivingUp ==
  ASSUME NEW s, Fit(s)
  PROVE  LET t == Sd!Fail(s)
         IN /\ Fit(t) /\ SameCard(s, t) /\ Untouched(s, t) /\ Still(s, t)
            /\ t.slow = s.slow /\ t.torn = s.torn /\ ~t.ok /\ t.card = s.card
<1>1. s \in State
  BY DEF Fit, Sound
<1>2. Like(s, Sd!Fail(s)) /\ ~Sd!Fail(s).ok /\ Sd!Fail(s).card = s.card
  BY <1>1, Failing
<1> QED BY <1>2 DEF Fit, Sound, SameCard, Untouched, Still, Like

\* What readData() leaves: the block the card was to send, whole, or a card
\* that is gone; the next one is at its turn.
Received(s, t) ==
  /\ s.card.in /\ ~s.card.busy /\ s.card.sends \in Sd!Block \cup {Sd!CSD}
  /\ \/ t.card.mode = "off" /\ t.torn
     \/ /\ t.torn = s.torn /\ t.card.mode = s.card.mode /\ t.card.takes = s.card.takes
        /\ t.card.mode = "reading" => t.card.sends = s.card.sends + 1
        /\ s.card.sends \in Sd!Block => t.got = s.card.block[s.card.sends]

LEMMA Reception ==
  ASSUME NEW s, Fit(s), NEW t \in Sd!readData(s)
  PROVE  /\ Fit(t) /\ SameCard(s, t) /\ Untouched(s, t) /\ t.slow = s.slow
         /\ IF t.ok THEN Received(s, t) ELSE t.torn = s.torn /\ Still(s, t)
<1>1. s \in State /\ s.card \in Sd!CardState /\ Sd!None \in Int /\ Sd!CSD \in Int
  BY DEF Fit, Sound, State, Sd!None, Sd!CSD
<1> DEFINE g == IF s.card.sends \in Sd!Block THEN s.card.block[s.card.sends] ELSE Sd!Torn
           x == IF s.card.mode = "reading" THEN s.card.sends + 1 ELSE Sd!None
           lost == Sd!Ok([s EXCEPT !.card = Sd!NoCard, !.got = Sd!Torn, !.torn = TRUE])
<1>2. PICK u : /\ t = Sd!chipSelectHigh(u)
               /\ \/ u = Sd!Fail(s)
                  \/ /\ s.card.in /\ ~s.card.busy /\ s.card.sends \in Sd!Block \cup {Sd!CSD}
                     /\ \/ u = Sd!Ok([s EXCEPT !.got = g, !.card.sends = x])
                        \/ u = lost
  BY DEF Sd!readData
<1>3. g \in Content /\ x \in Int
  <2>1. s.card.block \in [Sd!Block -> {Sd!Old(b) : b \in Sd!Block} \cup {Sd!New, Sd!Erased}]
        /\ s.card.sends \in Int
    BY <1>1 DEF Sd!CardState
  <2> QED BY <1>1, <2>1 DEF Content
<1> HIDE DEF g, x, lost
<1>4. ASSUME Fit(u), SameCard(s, u), Untouched(s, u)
      PROVE  /\ Fit(t) /\ SameCard(s, t) /\ Untouched(s, t) /\ (Still(s, u) => Still(s, t))
             /\ t.slow = u.slow /\ t.torn = u.torn /\ t.ok = u.ok /\ t.got = u.got
             /\ t.card.mode = u.card.mode /\ t.card.takes = u.card.takes
             /\ t.card.mode = "reading" => t.card.sends = u.card.sends
  <2>1. u \in State
    BY <1>4 DEF Fit, Sound
  <2> QED BY <1>2, <1>4, <2>1, Deselected, Deselecting DEF Like
<1>5. CASE u = Sd!Fail(s)
  BY <1>4, <1>5, GivingUp
<1>6. CASE u = lost /\ s.card.in /\ ~s.card.busy /\ s.card.sends \in Sd!Block \cup {Sd!CSD}
  <2>1. /\ Fit(u) /\ SameCard(s, u) /\ Untouched(s, u) /\ u.slow = s.slow
        /\ u.ok /\ u.torn /\ u.card.mode = "off"
    BY <1>6, Losing DEF lost
  <2> QED BY <1>4, <1>6, <2>1 DEF Received
<1>7. CASE /\ u = Sd!Ok([s EXCEPT !.got = g, !.card.sends = x])
           /\ s.card.in /\ ~s.card.busy /\ s.card.sends \in Sd!Block \cup {Sd!CSD}
  <2>1. u = Gets(s, g, x)
    BY <1>1, <1>7 DEF Sd!Ok, State, Gets
  <2>2. /\ u \in State /\ u.type = s.type /\ u.slow = s.slow /\ u.torn = s.torn /\ u.ok
        /\ u.got = g /\ u.card \in Sd!CardState /\ u.card.in = s.card.in
        /\ u.card.model = s.card.model /\ u.card.busy = s.card.busy
        /\ u.card.mode = s.card.mode /\ u.card.sends = x
        /\ u.card.takes = s.card.takes /\ u.card.block = s.card.block
    BY <1>1, <1>3, <2>1, Getting
  <2>3. s.card.mode # "off"
    <3>1. Sd!None \notin Sd!Block \cup {Sd!CSD}
      BY CardAssumption DEF Sd!None, Sd!CSD, Sd!Block, Sd!SdCardAssumption
    <3> QED BY <1>7, <3>1 DEF Fit, Sound, Sd!SoundCard
  <2>4. Fit(u)
    BY <2>2, <2>3, <1>7 DEF Fit, Sound, Sd!SoundCard
  <2>5. SameCard(s, u) /\ Untouched(s, u)
    BY <2>2, <2>3 DEF SameCard, Untouched
  <2>6. Received(s, t)
    BY <1>4, <1>7, <2>2, <2>4, <2>5 DEF Received, g, x
  <2> QED BY <1>4, <2>2, <2>4, <2>5, <2>6
<1> QED BY <1>2, <1>5, <1>6, <1>7

\* The card accepts a block, refuses it, or is pulled.
Stores(w, x, busy) ==
  [Sd!Ok([w EXCEPT !.card.block = IF w.card.takes \in Sd!Block
                                  THEN [@ EXCEPT ![w.card.takes] = Sd!New] ELSE @,
                   !.card.takes = x]) EXCEPT !.card.busy = busy]
Refuses(w, x) == Sd!Fail([w EXCEPT !.card.takes = x])
Loses(w) == Sd!Fail([w EXCEPT !.card = Sd!NoCard])

LEMMA Storing ==
  ASSUME NEW u \in State, NEW x \in Int, NEW busy \in BOOLEAN, u.card.takes \in Sd!Block,
         NEW t, t = Stores(u, x, busy)
  PROVE  /\ Like(u, t) /\ t.ok
         /\ LET c == t.card
            IN /\ c \in Sd!CardState /\ c.in = u.card.in /\ c.model = u.card.model
               /\ c.busy = busy /\ c.mode = u.card.mode /\ c.sends = u.card.sends
               /\ c.takes = x
               /\ \A b \in Sd!Block :
                    c.block[b] = IF b = u.card.takes THEN Sd!New ELSE u.card.block[b]
<1> DEFINE f == [u.card.block EXCEPT ![u.card.takes] = Sd!New]
           c == [u.card EXCEPT !.block = f, !.takes = x, !.busy = busy]
<1>1. u.card \in Sd!CardState
  BY DEF State
<1>2. u.card.block \in [Sd!Block -> {Sd!Old(b) : b \in Sd!Block} \cup {Sd!New, Sd!Erased}]
  BY <1>1 DEF Sd!CardState
<1>3. /\ f \in [Sd!Block -> {Sd!Old(b) : b \in Sd!Block} \cup {Sd!New, Sd!Erased}]
      /\ \A b \in Sd!Block : f[b] = IF b = u.card.takes THEN Sd!New ELSE u.card.block[b]
  BY <1>2
<1> HIDE DEF f
<1>4. /\ c \in Sd!CardState /\ c.in = u.card.in /\ c.model = u.card.model
      /\ c.busy = busy /\ c.mode = u.card.mode /\ c.sends = u.card.sends
      /\ c.takes = x /\ c.block = f
  BY <1>1, <1>3 DEF Sd!CardState
<1>5. t = [u EXCEPT !.ok = TRUE, !.card = c]
  BY <1>1 DEF State, Sd!CardState, Sd!Ok, Stores, f
<1> HIDE DEF c
<1>6. Like(u, t) /\ t.ok /\ t.card = c
  BY <1>4, <1>5 DEF State, Like
<1> QED BY <1>3, <1>4, <1>6

LEMMA Refusing ==
  ASSUME NEW u \in State, NEW x \in Int, NEW t, t = Refuses(u, x)
  PROVE  /\ Like(u, t) /\ ~t.ok
         /\ LET c == t.card
            IN /\ c \in Sd!CardState /\ c.in = u.card.in /\ c.model = u.card.model
               /\ c.busy = u.card.busy /\ c.mode = u.card.mode /\ c.sends = u.card.sends
               /\ c.takes = x /\ c.block = u.card.block
<1> DEFINE c == [u.card EXCEPT !.takes = x]
<1>1. u.card \in Sd!CardState
  BY DEF State
<1>2. /\ c \in Sd!CardState /\ c.in = u.card.in /\ c.model = u.card.model
      /\ c.busy = u.card.busy /\ c.mode = u.card.mode /\ c.sends = u.card.sends
      /\ c.takes = x /\ c.block = u.card.block
  BY <1>1 DEF Sd!CardState
<1>3. t = [u EXCEPT !.ok = FALSE, !.card = c]
  BY <1>1 DEF State, Sd!CardState, Sd!Fail, Refuses
<1> HIDE DEF c
<1>4. Like(u, t) /\ ~t.ok /\ t.card = c
  BY <1>2, <1>3 DEF State, Like
<1> QED BY <1>2, <1>4

LEMMA Gone ==
  ASSUME NEW s, Fit(s), NEW t, t = Loses(s)
  PROVE  /\ Fit(t) /\ SameCard(s, t) /\ Untouched(s, t) /\ t.slow = s.slow /\ t.torn = s.torn
         /\ ~t.ok /\ t.card.mode = "off"
<1>1. s \in State /\ Sd!NoCard \in Sd!CardState
  BY Empty DEF Fit, Sound, Sd!SoundCard
<1>2. t = [s EXCEPT !.ok = FALSE, !.card = Sd!NoCard]
  BY <1>1 DEF State, Sd!Fail, Loses
<1>3. Like(s, t) /\ ~t.ok /\ t.card = Sd!NoCard
  BY <1>1, <1>2 DEF State, Like
<1> QED BY <1>3, Empty DEF Fit, Sound, SameCard, Untouched, Like

\* What sendData() leaves: the block that was next is written, no other.
Written(s, t, single) ==
  /\ ~s.card.busy /\ s.card.takes \in Sd!Block /\ single = (s.card.mode # "writing")
  /\ t.card.in /\ t.card.mode = s.card.mode
  /\ t.card.mode = "writing" => t.card.takes = s.card.takes + 1
  /\ t.card.mode = "reading" => t.card.sends = s.card.sends
  /\ \A b \in Sd!Block :
       t.card.block[b] = IF b = s.card.takes THEN Sd!New ELSE s.card.block[b]

LEMMA Delivery ==
  ASSUME NEW s, Fit(s), NEW single \in BOOLEAN, NEW t \in Sd!sendData(s, single)
  PROVE  /\ Fit(t) /\ SameCard(s, t) /\ t.slow = s.slow /\ t.torn = s.torn
         /\ IF t.ok THEN Written(s, t, single)
            ELSE /\ Untouched(s, t)
                 /\ t.card.mode = "writing" => Still(s, t)
                 /\ t.card.mode = "off" \/ t.card.mode = s.card.mode
<1>1. s \in State /\ s.card \in Sd!CardState /\ Sd!None \in Int
  BY DEF Fit, Sound, State, Sd!None
<1> DEFINE x == IF s.card.mode = "writing" THEN s.card.takes + 1 ELSE Sd!None
           y == IF s.card.mode = "writing" THEN s.card.takes ELSE Sd!None
<1>2. PICK u : /\ t = Sd!chipSelectHigh(u)
               /\ \/ u = Sd!Fail(s)
                  \/ /\ s.card.in /\ ~s.card.busy /\ s.card.takes \in Sd!Block
                     /\ single = (s.card.mode # "writing")
                     /\ \/ \E busy \in BOOLEAN : u = Stores(s, x, busy)
                        \/ u = Refuses(s, y)
                        \/ u = Loses(s)
  BY DEF Sd!sendData, Stores, Refuses, Loses
<1>3. x \in Int /\ y \in Int
  BY <1>1 DEF Sd!CardState
<1> HIDE DEF x, y
<1>4. ASSUME Fit(u)
      PROVE  /\ Fit(t) /\ Like(u, t) /\ t.ok = u.ok /\ t.card.in = u.card.in
             /\ t.card.mode = u.card.mode /\ t.card.takes = u.card.takes
             /\ t.card.model = u.card.model /\ t.card.block = u.card.block
             /\ t.card.mode = "reading" => t.card.sends = u.card.sends
  <2>1. u \in State /\ SameCard(u, u) /\ Untouched(u, u)
    BY <1>4 DEF Fit, Sound, SameCard, Untouched
  <2> QED BY <1>2, <1>4, <2>1, Deselected, Deselecting
<1>5. CASE u = Sd!Fail(s)
  <2>1. /\ Fit(u) /\ SameCard(s, u) /\ Untouched(s, u) /\ Still(s, u)
        /\ u.slow = s.slow /\ u.torn = s.torn /\ ~u.ok
    BY <1>5, GivingUp
  <2> QED BY <1>4, <2>1 DEF SameCard, Untouched, Still, Like
<1>6. CASE u = Loses(s)
  <2>1. /\ Fit(u) /\ SameCard(s, u) /\ Untouched(s, u) /\ u.slow = s.slow /\ u.torn = s.torn
        /\ ~u.ok /\ u.card.mode = "off"
    BY <1>6, Gone
  <2> QED BY <1>4, <2>1 DEF SameCard, Untouched, Still, Like
<1>7. s.card.takes \in Sd!Block => s.card.mode # "off"
  <2>1. Sd!None \notin Sd!Block
    BY CardAssumption DEF Sd!None, Sd!Block, Sd!SdCardAssumption
  <2> QED BY <2>1 DEF Fit, Sound, Sd!SoundCard
<1>8. CASE u = Refuses(s, y) /\ s.card.in /\ ~s.card.busy /\ s.card.takes \in Sd!Block
  <2>1. /\ Like(s, u) /\ ~u.ok /\ u.card \in Sd!CardState /\ u.card.in = s.card.in
        /\ u.card.model = s.card.model /\ u.card.busy = s.card.busy
        /\ u.card.mode = s.card.mode /\ u.card.sends = s.card.sends
        /\ u.card.takes = y /\ u.card.block = s.card.block
    <3>1. s \in State /\ y \in Int /\ u = Refuses(s, y)
      BY <1>1, <1>3, <1>8
    <3> QED BY ONLY <3>1, Refusing
  <2>2. Fit(u)
    BY <1>7, <1>8, <2>1 DEF Fit, Sound, Sd!SoundCard, Like
  <2> QED BY <1>4, <1>7, <1>8, <2>1, <2>2 DEF SameCard, Untouched, Still, Like, y
<1>9. ASSUME s.card.in, ~s.card.busy, s.card.takes \in Sd!Block,
             single = (s.card.mode # "writing"), NEW busy \in BOOLEAN, u = Stores(s, x, busy)
      PROVE  /\ Fit(t) /\ SameCard(s, t) /\ t.slow = s.slow /\ t.torn = s.torn
             /\ t.ok /\ Written(s, t, single)
  <2>1. /\ Like(s, u) /\ u.ok /\ u.card \in Sd!CardState /\ u.card.in = s.card.in
        /\ u.card.model = s.card.model /\ u.card.busy = busy
        /\ u.card.mode = s.card.mode /\ u.card.sends = s.card.sends /\ u.card.takes = x
        /\ \A b \in Sd!Block :
             u.card.block[b] = IF b = s.card.takes THEN Sd!New ELSE s.card.block[b]
    <3>1. s \in State /\ x \in Int /\ u = Stores(s, x, busy) /\ busy \in BOOLEAN
          /\ s.card.takes \in Sd!Block
      BY <1>1, <1>3, <1>9
    <3> QED BY ONLY <3>1, Storing
  <2>2. Fit(u)
    BY <1>7, <1>9, <2>1 DEF Fit, Sound, Sd!SoundCard, Like
  <2>3. SameCard(s, t) /\ t.slow = s.slow /\ t.torn = s.torn /\ t.ok
    BY <1>4, <1>7, <1>9, <2>1, <2>2 DEF SameCard, Like
  <2>4. Written(s, t, single)
    BY ZenonT(60), <1>4, <1>9, <2>1, <2>2 DEF Written, x
  <2> QED BY <1>4, <2>2, <2>3, <2>4
<1> QED BY <1>2, <1>5, <1>6, <1>8, <1>9

-----------------------------------------------------------------------------
(***************************************************************************)
(* The calls.                                                              *)
(***************************************************************************)

\* Of one step after another.
LEMMA Along ==
  ASSUME NEW s, NEW p, NEW t, SameCard(s, p), SameCard(p, t)
  PROVE  /\ SameCard(s, t) /\ (Untouched(s, p) /\ Untouched(p, t) => Untouched(s, t))
         /\ (Still(s, p) /\ Still(p, t) => Still(s, t))
BY DEF SameCard, Untouched, Still

\* The card is where it was, gone, or the driver no longer knows.
Stays(s, t) == s.card.mode = "ready" => t.slow \/ t.card.mode \in {"off", "ready"}

LEMMA UndoneStays ==
  ASSUME NEW s, NEW t, Undone(s, t)
  PROVE  Stays(s, t)
BY DEF Undone, Fails, Deaf, Still, Stays

LEMMA StaysAlong ==
  ASSUME NEW s, NEW p, NEW t, SameCard(s, p), SameCard(p, t), Stays(s, p), Stays(p, t)
  PROVE  Stays(s, t)
BY DEF SameCard, Stays

LEMMA BlockRead ==
  ASSUME NEW s, Fit(s), NEW b \in Sd!Block, NEW t \in Sd!readBlock(s, b)
  PROVE  /\ Fit(t) /\ SameCard(s, t) /\ Untouched(s, t) /\ Stays(s, t)
         /\ t.ok /\ ~t.torn => t.got = s.card.block[b]
<1>1. PICK p \in Sd!Command(s, "CMD17", Sd!Address(s, b)) :
        IF p.ok THEN t \in Sd!readData(p) ELSE t = p
  BY DEF Sd!readBlock, Sd!Then
<1>2. \/ Undone(s, p)
      \/ /\ Fit(p) /\ SameCard(s, p) /\ p.torn = s.torn /\ Untouched(s, p) /\ p.ok
         /\ p.slow = s.slow /\ ~p.card.busy /\ p.card.in /\ s.card.mode = "ready"
         /\ p.card.mode = "ready" /\ p.card.sends = b
  BY SendsBlock
<1>3. Fit(p) /\ SameCard(s, p) /\ Untouched(s, p) /\ Stays(s, p)
  BY <1>2, UndoneStays DEF Undone, Stays
<1>4. CASE ~p.ok
  <2>1. t = p
    BY <1>1, <1>4
  <2> QED BY <2>1, <1>3, <1>4
<1>5. CASE p.ok
  <2>1. /\ Fit(t) /\ SameCard(p, t) /\ Untouched(p, t) /\ t.slow = p.slow
        /\ IF t.ok THEN Received(p, t) ELSE t.torn = p.torn /\ Still(p, t)
    BY <1>1, <1>3, <1>5, Reception
  <2>2. SameCard(s, t) /\ Untouched(s, t)
    BY <1>3, <2>1, Along
  <2>3. t.card.mode \in {"off", p.card.mode}
    BY <2>1 DEF Received, Still
  <2>4. Stays(s, t)
    BY <1>3, <2>1, <2>3 DEF Stays
  <2>5. ASSUME t.ok, ~t.torn PROVE t.got = s.card.block[b]
    <3>1. Received(p, t)
      BY <2>1, <2>5
    <3>2. p.card.sends = b /\ Untouched(s, p) /\ p.card.in
      BY <1>2, <1>5, <3>1 DEF Received, Undone, Fails, Deaf
    <3> QED BY <3>1, <3>2, <2>5 DEF Received, Untouched
  <2> QED BY <2>1, <2>2, <2>4, <2>5
<1> QED BY <1>4, <1>5

LEMMA CsdRead ==
  ASSUME NEW s, Fit(s), NEW t \in Sd!readCSD(s)
  PROVE  Fit(t) /\ SameCard(s, t) /\ Untouched(s, t) /\ Stays(s, t)
<1>1. PICK p \in Sd!Command(s, "CMD9", 0) : IF p.ok THEN t \in Sd!readData(p) ELSE t = p
  BY DEF Sd!readCSD, Sd!Then
<1>2. \/ Undone(s, p)
      \/ /\ Fit(p) /\ SameCard(s, p) /\ p.torn = s.torn /\ Untouched(s, p) /\ p.ok
         /\ p.slow = s.slow /\ ~p.card.busy /\ p.card.in /\ s.card.mode = "ready"
         /\ p.card.mode = "ready" /\ p.card.sends = Sd!CSD
  BY SendsCSD
<1>3. Fit(p) /\ SameCard(s, p) /\ Untouched(s, p) /\ Stays(s, p)
  BY <1>2, UndoneStays DEF Undone, Stays
<1>4. CASE ~p.ok
  <2>1. t = p
    BY <1>1, <1>4
  <2> QED BY <2>1, <1>3
<1>5. CASE p.ok
  <2>1. /\ Fit(t) /\ SameCard(p, t) /\ Untouched(p, t) /\ t.slow = p.slow
        /\ IF t.ok THEN Received(p, t) ELSE t.torn = p.torn /\ Still(p, t)
    BY <1>1, <1>3, <1>5, Reception
  <2>2. SameCard(s, t) /\ Untouched(s, t)
    BY <1>3, <2>1, Along
  <2>3. t.card.mode \in {"off", p.card.mode}
    BY <2>1 DEF Received, Still
  <2> QED BY <1>3, <2>1, <2>2, <2>3 DEF Stays
<1> QED BY <1>4, <1>5

\* Blocks but those of m are as they were.
But(s, t, m) == t.card.in => \A x \in Sd!Block \ m : t.card.block[x] = s.card.block[x]

LEMMA UntouchedBut ==
  ASSUME NEW s, NEW t, NEW m, Untouched(s, t)
  PROVE  But(s, t, m)
BY DEF Untouched, But

LEMMA BlockWritten ==
  ASSUME NEW s, Fit(s), NEW b \in Sd!Block, NEW t \in Sd!writeBlock(s, b)
  PROVE  /\ Fit(t) /\ SameCard(s, t) /\ But(s, t, {b}) /\ Stays(s, t)
         /\ t.ok => t.card.block[b] = Sd!New
<1>1. PICK p \in Sd!Command(s, "CMD24", Sd!Address(s, b)) :
        IF p.ok THEN t \in Sd!sendData(p, TRUE) ELSE t = p
  BY DEF Sd!writeBlock, Sd!Then
<1>2. \/ Undone(s, p)
      \/ /\ Fit(p) /\ SameCard(s, p) /\ p.torn = s.torn /\ Untouched(s, p) /\ p.ok
         /\ p.slow = s.slow /\ ~p.card.busy /\ p.card.in /\ s.card.mode = "ready"
         /\ p.card.mode = "ready" /\ p.card.takes = b
  BY TakesBlock
<1>3. Fit(p) /\ SameCard(s, p) /\ Untouched(s, p) /\ Stays(s, p)
  BY <1>2, UndoneStays DEF Undone, Stays
<1>4. CASE ~p.ok
  <2>1. t = p
    BY <1>1, <1>4
  <2> QED BY <2>1, <1>3, <1>4, UntouchedBut
<1>5. CASE p.ok
  <2>1. /\ Fit(t) /\ SameCard(p, t) /\ t.slow = p.slow /\ t.torn = p.torn
        /\ IF t.ok THEN Written(p, t, TRUE)
           ELSE /\ Untouched(p, t) /\ (t.card.mode = "writing" => Still(p, t))
                /\ t.card.mode = "off" \/ t.card.mode = p.card.mode
    BY <1>1, <1>3, <1>5, Delivery
  <2>2. SameCard(s, t)
    BY <1>3, <2>1, Along
  <2>3. Stays(s, t)
    BY <1>3, <2>1 DEF Stays, Written
  <2>4. CASE ~t.ok
    <3>1. Untouched(s, t)
      BY <1>3, <2>1, <2>4, Along
    <3> QED BY <2>1, <2>2, <2>3, <2>4, <3>1, UntouchedBut
  <2>5. CASE t.ok
    <3>1. Written(p, t, TRUE)
      BY <2>1, <2>5
    <3>2. p.card.takes = b /\ p.card.in
      BY <1>2, <1>5, <3>1 DEF Written, Undone, Fails, Deaf
    <3>3. But(s, t, {b}) /\ t.card.block[b] = Sd!New
      BY <1>3, <3>1, <3>2 DEF Written, Untouched, But
    <3> QED BY <2>1, <2>2, <2>3, <3>3
  <2> QED BY <2>4, <2>5
<1> QED BY <1>4, <1>5

\* Deselected at the end of a call.
LEMMA Ended ==
  ASSUME NEW u, Fit(u), NEW t, t = Sd!chipSelectHigh(u)
  PROVE  /\ Fit(t) /\ SameCard(u, t) /\ Untouched(u, t) /\ t.slow = u.slow /\ t.torn = u.torn
         /\ t.ok = u.ok /\ t.card.in = u.card.in /\ t.card.mode = u.card.mode
         /\ t.card.takes = u.card.takes /\ t.card.block = u.card.block
         /\ t.card.mode = "reading" => t.card.sends = u.card.sends
<1>1. u \in State /\ SameCard(u, u) /\ Untouched(u, u)
  BY DEF Fit, Sound, SameCard, Untouched
<1> QED BY <1>1, Deselected, Deselecting DEF Like

LEMMA ReadStarted ==
  ASSUME NEW s, Fit(s), NEW b \in Sd!Block, NEW t \in Sd!readStart(s, b)
  PROVE  /\ Fit(t) /\ SameCard(s, t) /\ Untouched(s, t)
         /\ s.card.mode = "ready" /\ ~t.slow =>
              \/ t.card.mode = "off"
              \/ IF t.ok THEN t.card.mode = "reading" /\ t.card.sends = b
                 ELSE t.card.mode = "ready"
<1>1. PICK p \in Sd!Command(s, "CMD18", Sd!Address(s, b)) : t = Sd!chipSelectHigh(p)
  BY DEF Sd!readStart
<1>2. \/ Undone(s, p)
      \/ /\ Fit(p) /\ SameCard(s, p) /\ p.torn = s.torn /\ Untouched(s, p) /\ p.ok
         /\ p.slow = s.slow /\ ~p.card.busy /\ p.card.in /\ s.card.mode = "ready"
         /\ p.card.mode = "reading" /\ p.card.sends = b
  BY ReadsFrom
<1>3. Fit(p) /\ SameCard(s, p) /\ Untouched(s, p)
  BY <1>2 DEF Undone
<1>4. /\ Fit(t) /\ SameCard(p, t) /\ Untouched(p, t) /\ t.slow = p.slow /\ t.ok = p.ok
      /\ t.card.mode = p.card.mode
      /\ t.card.mode = "reading" => t.card.sends = p.card.sends
  BY <1>1, <1>3, Ended
<1>5. SameCard(s, t) /\ Untouched(s, t)
  BY <1>3, <1>4, Along
<1> QED BY <1>2, <1>4, <1>5 DEF Undone, Fails, Deaf, Still

LEMMA ReadStopped ==
  ASSUME NEW s, Fit(s), NEW t \in Sd!readStop(s)
  PROVE  /\ Fit(t) /\ SameCard(s, t) /\ Untouched(s, t)
         /\ s.card.mode = "reading" => t.slow \/ t.card.mode \in {"off", "ready"}
<1>1. PICK p \in Sd!Command(s, "CMD12", 0) : t = Sd!chipSelectHigh(p)
  BY DEF Sd!readStop
<1>2. /\ Fit(p) /\ SameCard(s, p) /\ p.torn = s.torn /\ Untouched(s, p)
      /\ s.card.mode = "reading" => p.slow \/ p.card.mode \in {"off", "ready"}
  BY Stops
<1>3. /\ Fit(t) /\ SameCard(p, t) /\ Untouched(p, t) /\ t.slow = p.slow
      /\ t.card.mode = p.card.mode
  BY <1>1, <1>2, Ended
<1>4. SameCard(s, t) /\ Untouched(s, t)
  BY <1>2, <1>3, Along
<1> QED BY <1>2, <1>3, <1>4

\* writeStart() may wipe the blocks it announces; no other.
LEMMA WriteStarted ==
  ASSUME NEW s, Fit(s), NEW b \in Sd!Block, NEW count \in Int,
         NEW t \in Sd!writeStart(s, b, count)
  PROVE  /\ Fit(t) /\ SameCard(s, t)
         /\ ~t.slow =>
              /\ But(s, t, b..(b + count - 1))
              /\ s.card.mode = "ready" =>
                   \/ t.card.mode = "off"
                   \/ IF t.ok THEN t.card.mode = "writing" /\ t.card.takes = b
                      ELSE t.card.mode = "ready"
<1>1. PICK q \in Sd!Must(Sd!cardAcmd(s, "ACMD23", count)) : \E r :
        /\ IF q.ok THEN r \in Sd!Command(q, "CMD25", Sd!Address(q, b)) ELSE r = q
        /\ t = Sd!chipSelectHigh(r)
  BY DEF Sd!writeStart, Sd!Then
<1>2. PICK r : /\ IF q.ok THEN r \in Sd!Command(q, "CMD25", Sd!Address(q, b)) ELSE r = q
               /\ t = Sd!chipSelectHigh(r)
  BY <1>1
<1>3. /\ Fit(q) /\ SameCard(s, q) /\ Untouched(s, q)
      /\ \/ q.slow \/ Fails(s, q)
         \/ /\ q.ok /\ s.card.mode = "ready" /\ q.card.mode = "ready" /\ q.card.in
            /\ q.card.preErase = count
  BY Announces
<1>4. ASSUME Fit(r), SameCard(s, r)
      PROVE  /\ Fit(t) /\ SameCard(s, t) /\ Untouched(r, t) /\ t.slow = r.slow
             /\ t.card.in = r.card.in /\ t.card.block = r.card.block
             /\ t.ok = r.ok /\ t.card.mode = r.card.mode /\ t.card.takes = r.card.takes
  <2>1. /\ Fit(t) /\ SameCard(r, t) /\ Untouched(r, t) /\ t.slow = r.slow /\ t.ok = r.ok
        /\ t.card.in = r.card.in /\ t.card.mode = r.card.mode
        /\ t.card.takes = r.card.takes /\ t.card.block = r.card.block
    BY <1>2, <1>4, Ended
  <2> QED BY <1>4, <2>1, Along
<1>5. CASE ~q.ok
  <2>1. r = q
    BY <1>2, <1>5
  <2>2. Fit(r) /\ SameCard(s, r) /\ Untouched(s, r) /\ (r.slow \/ Still(s, r)) /\ ~r.ok
    BY <2>1, <1>3, <1>5 DEF Fails
  <2>3. Fit(t) /\ SameCard(s, t) /\ Untouched(s, t) /\ t.slow = r.slow /\ t.ok = r.ok
        /\ t.card.mode = r.card.mode
    BY <2>2, <1>4 DEF Untouched
  <2> QED BY <2>2, <2>3, UntouchedBut DEF Still
<1>6. CASE q.ok
  <2>1. r \in Sd!Command(q, "CMD25", Sd!Address(q, b))
    BY <1>2, <1>6
  <2>2. \/ Undone(q, r)
        \/ /\ Fit(r) /\ SameCard(q, r) /\ r.torn = q.torn /\ r.ok /\ r.slow = q.slow
           /\ r.card.in /\ q.card.mode = "ready" /\ r.card.mode = "writing" /\ r.card.takes = b
           /\ \A x \in Sd!Block :
                x \notin b..(b + q.card.preErase - 1) => r.card.block[x] = q.card.block[x]
    BY <1>3, <2>1, WritesFrom
  <2>3. Fit(r) /\ SameCard(q, r)
    BY <2>2 DEF Undone
  <2>4. SameCard(s, r)
    BY <1>3, <2>3, Along
  <2>5. ASSUME ~r.slow
        PROVE  But(s, r, b..(b + count - 1))
    <3>1. CASE Undone(q, r)
      <4>1. Untouched(s, r)
        BY <1>3, <2>3, <3>1, Along DEF Undone
      <4> QED BY <4>1, UntouchedBut
    <3>2. CASE /\ r.card.in /\ q.card.mode = "ready" /\ r.card.mode = "writing"
               /\ \A x \in Sd!Block :
                    x \notin b..(b + q.card.preErase - 1) => r.card.block[x] = q.card.block[x]
      <4>1. ~q.slow /\ q.card.in
        BY <2>3, <2>5, <3>2 DEF SameCard
      <4>2. q.card.preErase = count /\ q.card.block = s.card.block
        BY <1>3, <1>6, <4>1 DEF Fails, Untouched
      <4> QED BY <3>2, <4>2 DEF But
    <3> QED BY <2>2, <3>1, <3>2
  <2>6. ASSUME ~r.slow, s.card.mode = "ready"
        PROVE  \/ r.card.mode = "off"
               \/ IF r.ok THEN r.card.mode = "writing" /\ r.card.takes = b
                  ELSE r.card.mode = "ready"
    <3>1. q.slow \/ q.card.mode = "ready"
      BY <1>3, <1>6 DEF Fails
    <3>2. q.card.mode = "ready"
      BY <3>1, <2>3, <2>6 DEF SameCard
    <3> QED BY <2>2, <2>6, <3>2 DEF Undone, Fails, Deaf, Still
  <2> QED BY <1>4, <2>3, <2>4, <2>5, <2>6 DEF But
<1> QED BY <1>5, <1>6

\* The wait before the data of a sequence, and after its end.
LEMMA Waited ==
  ASSUME NEW s, Fit(s), NEW t \in Sd!waitNotBusy(s)
  PROVE  /\ Fit(t) /\ SameCard(s, t) /\ t.torn = s.torn /\ Untouched(s, t) /\ Still(s, t)
         /\ t.card.in = s.card.in /\ t.card.mode = s.card.mode
         /\ ~t.ok => t.slow
<1>1. Sound(s) /\ s.card \in Sd!CardState
  BY DEF Fit, Sound, State
<1>2. /\ Sound(t) /\ SameCard(s, t) /\ t.torn = s.torn /\ Untouched(s, t)
      /\ t.card = [s.card EXCEPT !.busy = t.card.busy]
      /\ t.ok \/ t.slow
  BY <1>1, Waits
<1>3. /\ t.card.mode = s.card.mode /\ t.card.takes = s.card.takes
      /\ t.card.sends = s.card.sends /\ t.card.in = s.card.in
  BY <1>1, <1>2 DEF Sd!CardState
<1>4. Fit(t)
  BY <1>2, <1>3 DEF Fit, SameCard
<1> QED BY <1>2, <1>3, <1>4 DEF Still

LEMMA DataWritten ==
  ASSUME NEW s, Fit(s), NEW t \in Sd!writeData(s)
  PROVE  /\ Fit(t) /\ SameCard(s, t)
         /\ IF t.ok
            THEN /\ s.card.mode = "writing" /\ t.card.mode = "writing"
                 /\ s.card.takes \in Sd!Block
                 /\ t.card.takes = s.card.takes + 1
                 /\ But(s, t, {s.card.takes}) /\ t.card.block[s.card.takes] = Sd!New
            ELSE Untouched(s, t) /\ (s.card.mode = "writing" => Still(s, t))
<1>1. PICK p \in Sd!waitNotBusy(s) : IF p.ok THEN t \in Sd!sendData(p, FALSE) ELSE t = p
  BY DEF Sd!writeData, Sd!Then
<1>2. /\ Fit(p) /\ SameCard(s, p) /\ Untouched(s, p) /\ Still(s, p)
      /\ p.card.in = s.card.in /\ p.card.mode = s.card.mode
  BY Waited
<1>3. CASE ~p.ok
  <2>1. t = p
    BY <1>1, <1>3
  <2> QED BY <2>1, <1>2, <1>3
<1>4. CASE p.ok
  <2>1. /\ Fit(t) /\ SameCard(p, t) /\ t.slow = p.slow /\ t.torn = p.torn
        /\ IF t.ok THEN Written(p, t, FALSE)
           ELSE /\ Untouched(p, t) /\ (t.card.mode = "writing" => Still(p, t))
                /\ t.card.mode = "off" \/ t.card.mode = p.card.mode
    BY <1>1, <1>2, <1>4, Delivery
  <2>2. SameCard(s, t)
    BY <1>2, <2>1, Along
  <2>3. CASE ~t.ok
    <3>1. Untouched(s, t)
      BY <1>2, <2>1, <2>3, Along
    <3>2. ASSUME s.card.mode = "writing" PROVE Still(s, t)
      BY <1>2, <2>1, <2>3, <3>2 DEF Still
    <3> QED BY <2>1, <2>2, <2>3, <3>1, <3>2
  <2>4. CASE t.ok
    <3>1. Written(p, t, FALSE)
      BY <2>1, <2>4
    <3>2. p.card.mode = "writing" /\ t.card.mode = "writing" /\ t.card.in
      BY <3>1 DEF Written
    <3>3. /\ s.card.mode = "writing" /\ p.card.takes = s.card.takes
          /\ p.card.block = s.card.block
      BY <1>2, <2>1, <3>2 DEF Still, Untouched, SameCard
    <3> QED BY <2>1, <2>2, <2>4, <3>1, <3>2, <3>3 DEF Written, But
  <2> QED BY <2>3, <2>4
<1> QED BY <1>3, <1>4

\* The stop token.
Ends(w, busy) == [w EXCEPT !.card.mode = "ready", !.card.takes = Sd!None, !.card.busy = busy]

LEMMA Ending ==
  ASSUME NEW s, Fit(s), s.card.in, s.card.mode = "writing", NEW busy \in BOOLEAN,
         NEW t, t = Ends(s, busy)
  PROVE  /\ Fit(t) /\ SameCard(s, t) /\ Untouched(s, t) /\ t.card.mode = "ready"
<1>1. s \in State /\ s.card \in Sd!CardState /\ Sd!None \in Int
  BY DEF Fit, Sound, State, Sd!None
<1> DEFINE c == [s.card EXCEPT !.mode = "ready", !.takes = Sd!None, !.busy = busy]
<1>2. /\ c \in Sd!CardState /\ c.in = s.card.in /\ c.model = s.card.model
      /\ c.mode = "ready" /\ c.block = s.card.block
  BY <1>1 DEF Sd!CardState
<1>3. t = [s EXCEPT !.card = c]
  BY <1>1 DEF State, Sd!CardState, Ends
<1> HIDE DEF c
<1>4. Like(s, t) /\ t.card = c
  BY <1>1, <1>2, <1>3, NewCard
<1> QED BY <1>2, <1>4 DEF Fit, Sound, Sd!SoundCard, SameCard, Untouched, Like

LEMMA WriteStopped ==
  ASSUME NEW s, Fit(s), NEW t \in Sd!writeStop(s)
  PROVE  /\ Fit(t) /\ SameCard(s, t) /\ Untouched(s, t)
         /\ s.card.mode = "writing" => t.slow \/ t.card.mode \in {"off", "ready"}
<1> DEFINE Token(w) == IF w.card.in /\ w.card.mode = "writing"
                       THEN {Ends(w, busy) : busy \in BOOLEAN} ELSE {w}
<1>1. PICK p \in Sd!waitNotBusy(s) : \E q :
        /\ IF p.ok THEN q \in Token(p) ELSE q = p
        /\ \E r : /\ IF q.ok THEN r \in Sd!waitNotBusy(q) ELSE r = q
                  /\ t = Sd!chipSelectHigh(r)
  BY DEF Sd!writeStop, Sd!Then, Ends
<1>2. PICK q : /\ IF p.ok THEN q \in Token(p) ELSE q = p
               /\ \E r : /\ IF q.ok THEN r \in Sd!waitNotBusy(q) ELSE r = q
                         /\ t = Sd!chipSelectHigh(r)
  BY <1>1
<1>3. PICK r : /\ IF q.ok THEN r \in Sd!waitNotBusy(q) ELSE r = q
               /\ t = Sd!chipSelectHigh(r)
  BY <1>2
<1>4. /\ Fit(p) /\ SameCard(s, p) /\ Untouched(s, p) /\ p.card.in = s.card.in
      /\ p.card.mode = s.card.mode /\ (~p.ok => p.slow)
  BY Waited
<1>5. /\ Fit(q) /\ SameCard(p, q) /\ Untouched(p, q)
      /\ p.card.mode = "writing" => q.slow \/ q.card.mode \in {"off", "ready"}
  <2>1. SameCard(p, p) /\ Untouched(p, p)
    BY DEF SameCard, Untouched
  <2>2. CASE ~p.ok
    BY <1>2, <1>4, <2>1, <2>2
  <2>3. CASE p.ok /\ p.card.in /\ p.card.mode = "writing"
    <3>1. PICK busy \in BOOLEAN : q = Ends(p, busy)
      BY <1>2, <2>3
    <3> QED BY <3>1, <1>4, <2>3, Ending
  <2>4. CASE p.ok /\ ~(p.card.in /\ p.card.mode = "writing")
    <3>1. q = p
      BY <1>2, <2>4
    <3>2. p.card.mode = "writing" => p.card.in
      BY <1>4 DEF Fit, Sound, Sd!SoundCard
    <3> QED BY <1>4, <2>1, <2>4, <3>1, <3>2
  <2> QED BY <2>2, <2>3, <2>4
<1>6. /\ Fit(r) /\ SameCard(q, r) /\ Untouched(q, r) /\ r.card.mode = q.card.mode
  <2>1. SameCard(q, q) /\ Untouched(q, q)
    BY DEF SameCard, Untouched
  <2>2. CASE ~q.ok
    BY <1>3, <1>5, <2>1, <2>2
  <2>3. CASE q.ok
    BY <1>3, <1>5, <2>3, Waited
  <2> QED BY <2>2, <2>3
<1>7. Fit(t) /\ SameCard(r, t) /\ Untouched(r, t) /\ t.card.mode = r.card.mode
  BY <1>3, <1>6, Ended
<1>8. SameCard(s, q) /\ Untouched(s, q)
  BY <1>4, <1>5, Along
<1>9. SameCard(q, t) /\ Untouched(q, t)
  BY <1>6, <1>7, Along
<1>10. SameCard(s, t) /\ Untouched(s, t)
  BY <1>8, <1>9, Along
<1> QED BY <1>4, <1>5, <1>6, <1>7, <1>9, <1>10 DEF SameCard

LEMMA Multiple ==
  ASSUME NEW size \in Nat \ {0}, NEW a \in Nat, a % size = 0
  PROVE  a \div size \in Int /\ a = size * (a \div size)
OBVIOUS

LEMMA Quotient ==
  ASSUME NEW size \in Nat \ {0}, NEW q \in Int, NEW r \in Nat, r < size,
         NEW a \in Int, a = size * q + r
  PROVE  a \div size = q
OBVIOUS

LEMMA Rounded ==
  ASSUME NEW size \in Nat \ {0}, NEW first \in Nat, NEW last \in Nat,
         first % size = 0, (last + 1) % size = 0
  PROVE  size * (first \div size) = first /\ size * (last \div size) + size - 1 = last
<1>1. size * (first \div size) = first
  BY Multiple
<1> DEFINE m == (last + 1) \div size
<1>2. last + 1 \in Nat
  OBVIOUS
<1>3. m \in Int /\ last + 1 = size * m
  BY <1>2, Multiple
<1> HIDE DEF m
<1>4. last = size * (m - 1) + (size - 1)
  BY <1>3
<1>5. m - 1 \in Int /\ size - 1 \in Nat /\ size - 1 < size
  BY <1>3
<1>6. last \div size = m - 1
  <2>1. last \in Int /\ size \in Nat \ {0}
    OBVIOUS
  <2> QED BY ONLY ZenonT(60), <1>4, <1>5, <2>1, Quotient
<1> QED BY <1>1, <1>4, <1>5, <1>6

\* erase() asks a card that has no single block erase for whole sectors.
LEMMA WholeSectors ==
  ASSUME NEW c, NEW first \in Nat, NEW last \in Nat, c.from = first, c.to = last,
         \/ c.model.eraseSingle
         \/ first % (SectorMask + 1) = 0 /\ (last + 1) % (SectorMask + 1) = 0
  PROVE  Low(c) = first /\ High(c) = last
<1>1. CASE c.model.eraseSingle
  <2>1. 1 \in Nat \ {0} /\ first % 1 = 0 /\ (last + 1) % 1 = 0
    OBVIOUS
  <2>2. 1 * (first \div 1) = first /\ 1 * (last \div 1) + 1 - 1 = last
    BY ONLY <2>1, first \in Nat, last \in Nat, Rounded
  <2> QED BY <1>1, <2>2 DEF Low, High
<1>2. CASE ~c.model.eraseSingle
  <2> DEFINE size == SectorMask + 1
  <2>1. size \in Nat \ {0} /\ first % size = 0 /\ (last + 1) % size = 0
    BY <1>2, CardAssumption DEF Sd!SdCardAssumption
  <2>2. size * (first \div size) = first /\ size * (last \div size) + size - 1 = last
    BY ONLY <2>1, first \in Nat, last \in Nat, Rounded
  <2> QED BY <1>2, <2>2 DEF Low, High
<1> QED BY <1>1, <1>2

LEMMA Erasure ==
  ASSUME NEW s, Fit(s), NEW first \in Sd!Block, NEW last \in Sd!Block,
         NEW t \in Sd!erase(s, first, last)
  PROVE  /\ Fit(t) /\ SameCard(s, t) /\ Stays(s, t)
         /\ ~t.slow => But(s, t, first..last)
         /\ t.ok /\ ~t.slow /\ t.card.in => \A b \in first..last : t.card.block[b] = Sd!Erased
<1> DEFINE Fits(w) == IF \/ w.card.model.eraseSingle
                         \/ first % (SectorMask + 1) = 0 /\ (last + 1) % (SectorMask + 1) = 0
                      THEN {w} ELSE {Sd!Fail(w)}
<1>1. PICK p \in Sd!readCSD(s) : \E q : /\ IF p.ok THEN q \in Fits(p) ELSE q = p
       /\ \E f : /\ IF q.ok THEN f \in Sd!Command(q, "CMD32", Sd!Address(q, first)) ELSE f = q
       /\ \E g : /\ IF f.ok THEN g \in Sd!Command(f, "CMD33", Sd!Address(f, last)) ELSE g = f
       /\ \E e : /\ IF g.ok THEN e \in Sd!Command(g, "CMD38", 0) ELSE e = g
       /\ \E r : /\ IF e.ok THEN r \in Sd!waitNotBusy(e) ELSE r = e
                 /\ t = Sd!chipSelectHigh(r)
  BY DEF Sd!erase, Sd!Then
<1>2. PICK q : /\ IF p.ok THEN q \in Fits(p) ELSE q = p
       /\ \E f : /\ IF q.ok THEN f \in Sd!Command(q, "CMD32", Sd!Address(q, first)) ELSE f = q
       /\ \E g : /\ IF f.ok THEN g \in Sd!Command(f, "CMD33", Sd!Address(f, last)) ELSE g = f
       /\ \E e : /\ IF g.ok THEN e \in Sd!Command(g, "CMD38", 0) ELSE e = g
       /\ \E r : /\ IF e.ok THEN r \in Sd!waitNotBusy(e) ELSE r = e
                 /\ t = Sd!chipSelectHigh(r)
  BY <1>1
<1>3. PICK f : /\ IF q.ok THEN f \in Sd!Command(q, "CMD32", Sd!Address(q, first)) ELSE f = q
       /\ \E g : /\ IF f.ok THEN g \in Sd!Command(f, "CMD33", Sd!Address(f, last)) ELSE g = f
       /\ \E e : /\ IF g.ok THEN e \in Sd!Command(g, "CMD38", 0) ELSE e = g
       /\ \E r : /\ IF e.ok THEN r \in Sd!waitNotBusy(e) ELSE r = e
                 /\ t = Sd!chipSelectHigh(r)
  BY <1>2
<1>4. PICK g : /\ IF f.ok THEN g \in Sd!Command(f, "CMD33", Sd!Address(f, last)) ELSE g = f
       /\ \E e : /\ IF g.ok THEN e \in Sd!Command(g, "CMD38", 0) ELSE e = g
       /\ \E r : /\ IF e.ok THEN r \in Sd!waitNotBusy(e) ELSE r = e
                 /\ t = Sd!chipSelectHigh(r)
  BY <1>3
<1>5. PICK e : /\ IF g.ok THEN e \in Sd!Command(g, "CMD38", 0) ELSE e = g
       /\ \E r : /\ IF e.ok THEN r \in Sd!waitNotBusy(e) ELSE r = e
                 /\ t = Sd!chipSelectHigh(r)
  BY <1>4
<1>6. PICK r : /\ IF e.ok THEN r \in Sd!waitNotBusy(e) ELSE r = e
               /\ t = Sd!chipSelectHigh(r)
  BY <1>5
<1>7. Fit(p) /\ SameCard(s, p) /\ Untouched(s, p) /\ Stays(s, p)
  BY CsdRead
<1>8. ASSUME NEW w PROVE SameCard(w, w) /\ Untouched(w, w) /\ Stays(w, w)
  BY DEF SameCard, Untouched, Stays
\* Does the card erase these blocks alone?
<1>9. /\ Fit(q) /\ SameCard(p, q) /\ Untouched(p, q) /\ Stays(p, q)
      /\ q.ok => \/ q.card.model.eraseSingle
                 \/ first % (SectorMask + 1) = 0 /\ (last + 1) % (SectorMask + 1) = 0
  <2>1. CASE q = p /\ (p.ok => \/ p.card.model.eraseSingle
                               \/ /\ first % (SectorMask + 1) = 0
                                  /\ (last + 1) % (SectorMask + 1) = 0)
    BY <1>7, <1>8, <2>1
  <2>2. CASE q = Sd!Fail(p)
    BY <1>7, <2>2, GivingUp DEF Stays, Still
  <2> QED BY <1>2, <2>1, <2>2
<1> HIDE DEF Fits
\* The first block and the last.
<1>10. /\ Fit(f) /\ SameCard(q, f) /\ Untouched(q, f) /\ Stays(q, f)
       /\ f.ok /\ ~f.slow => q.ok /\ f.card.from = first
  <2>1. CASE ~q.ok
    BY <1>3, <1>8, <1>9, <2>1
  <2>2. CASE q.ok
    <3>1. \/ Undone(q, f)
          \/ /\ Fit(f) /\ SameCard(q, f) /\ f.torn = q.torn /\ Untouched(q, f) /\ f.ok
             /\ f.slow = q.slow /\ ~f.card.busy /\ f.card.in /\ q.card.mode = "ready"
             /\ f.card.mode = "ready" /\ f.card.from = first
      BY <1>3, <1>9, <2>2, MarksFrom
    <3> QED BY <3>1, <2>2, UndoneStays DEF Undone, Stays, Fails, Deaf
  <2> QED BY <2>1, <2>2
<1>11. /\ Fit(g) /\ SameCard(f, g) /\ Untouched(f, g) /\ Stays(f, g)
       /\ g.ok /\ ~g.slow => f.ok /\ g.card.to = last /\ g.card.from = f.card.from
  <2>1. CASE ~f.ok
    BY <1>4, <1>8, <1>10, <2>1
  <2>2. CASE f.ok
    <3>1. \/ Undone(f, g)
          \/ /\ Fit(g) /\ SameCard(f, g) /\ g.torn = f.torn /\ Untouched(f, g) /\ g.ok
             /\ g.slow = f.slow /\ ~g.card.busy /\ g.card.in /\ f.card.mode = "ready"
             /\ g.card.mode = "ready" /\ g.card.to = last /\ g.card.from = f.card.from
      BY <1>4, <1>10, <2>2, MarksTo
    <3> QED BY <3>1, <2>2, UndoneStays DEF Undone, Stays, Fails, Deaf
  <2> QED BY <2>1, <2>2
<1>12. SameCard(s, g) /\ Untouched(s, g) /\ Stays(s, g)
  <2>1. SameCard(s, q) /\ Untouched(s, q) /\ Stays(s, q)
    BY <1>7, <1>9, Along, StaysAlong
  <2>2. SameCard(s, f) /\ Untouched(s, f) /\ Stays(s, f)
    BY <1>10, <2>1, Along, StaysAlong
  <2> QED BY <1>11, <2>2, Along, StaysAlong
\* And what is between.
<1>13. /\ Fit(e) /\ SameCard(g, e) /\ Stays(g, e)
       /\ ~e.slow => But(g, e, first..last)
       /\ e.ok /\ ~e.slow /\ e.card.in => \A b \in first..last : e.card.block[b] = Sd!Erased
  <2>1. CASE ~g.ok
    BY <1>5, <1>8, <1>11, <2>1, UntouchedBut
  <2>2. CASE g.ok /\ Undone(g, e)
    BY <2>2, UndoneStays, UntouchedBut DEF Undone, Fails, Deaf
  <2>3. CASE /\ g.ok /\ Fit(e) /\ SameCard(g, e) /\ e.slow = g.slow
             /\ e.card.in /\ g.card.mode = "ready" /\ e.card.mode = "ready"
             /\ \A x \in Sd!Block : e.card.block[x] =
                  IF x \in Low(g.card)..High(g.card) THEN Sd!Erased ELSE g.card.block[x]
    <3>1. ASSUME ~e.slow PROVE Low(g.card) = first /\ High(g.card) = last
      <4>1. g.card.to = last /\ g.card.from = f.card.from /\ f.ok /\ ~f.slow
        BY <1>11, <2>3, <3>1 DEF SameCard
      <4>2. f.card.from = first /\ q.ok
        BY <1>10, <4>1
      <4>3. g.card.model = q.card.model
        BY <1>10, <1>11, <2>3 DEF SameCard
      <4>4. first \in Nat /\ last \in Nat
        BY CardAssumption DEF Sd!Block, Sd!SdCardAssumption
      <4> QED BY <1>9, <4>1, <4>2, <4>3, <4>4, WholeSectors
    <3>2. first..last \subseteq Sd!Block
      BY CardAssumption DEF Sd!Block, Sd!SdCardAssumption
    <3>3. ASSUME ~e.slow
          PROVE  But(g, e, first..last) /\ \A b \in first..last : e.card.block[b] = Sd!Erased
      BY <2>3, <3>1, <3>2, <3>3 DEF But
    <3> QED BY <2>3, <3>3 DEF Stays
  <2>4. CASE g.ok
    BY <1>5, <1>11, <2>2, <2>3, <2>4, Wipes
  <2> QED BY <2>1, <2>4
<1>14. /\ Fit(r) /\ SameCard(e, r) /\ Untouched(e, r) /\ Stays(e, r)
       /\ r.ok => e.ok
  <2>1. CASE ~e.ok
    BY <1>6, <1>8, <1>13, <2>1
  <2>2. CASE e.ok
    BY <1>6, <1>13, <2>2, Waited DEF Stays
  <2> QED BY <2>1, <2>2
<1>15. /\ Fit(t) /\ SameCard(r, t) /\ Untouched(r, t) /\ Stays(r, t)
       /\ t.ok => r.ok
  BY <1>6, <1>14, Ended DEF Stays
<1>16. SameCard(e, t) /\ Untouched(e, t) /\ Stays(e, t)
  BY <1>14, <1>15, Along, StaysAlong
<1>17. SameCard(s, e) /\ Stays(s, e)
  BY <1>12, <1>13, Along, StaysAlong
<1>18. SameCard(s, t) /\ Stays(s, t)
  BY <1>16, <1>17, Along, StaysAlong
<1>19. ASSUME ~t.slow PROVE But(s, t, first..last)
  <2>1. But(g, e, first..last)
    BY <1>13, <1>16, <1>19 DEF SameCard
  <2> QED BY <1>12, <1>13, <1>16, <2>1 DEF But, Untouched, SameCard
<1>20. ASSUME t.ok, ~t.slow, t.card.in
       PROVE  \A b \in first..last : t.card.block[b] = Sd!Erased
  <2>1. e.ok /\ ~e.slow /\ e.card.in
    BY <1>14, <1>15, <1>16, <1>20 DEF SameCard
  <2> QED BY <1>13, <1>16, <1>20, <2>1 DEF Untouched
<1> QED BY <1>15, <1>18, <1>19, <1>20

-----------------------------------------------------------------------------
(***************************************************************************)
(* The size of the card.                                                   *)
(***************************************************************************)
Power(k) == 2^k

\* A table of the powers a register can ask for.
LEMMA Powers ==
  /\ Power(2) = 4 /\ Power(3) = 8 /\ Power(4) = 16 /\ Power(5) = 32 /\ Power(6) = 64
  /\ Power(7) = 128 /\ Power(8) = 256 /\ Power(9) = 512 /\ Power(10) = 1024
  /\ Power(11) = 2048
BY DEF Power

LEMMA PowersOfRegister ==
  ASSUME NEW m \in 0..7, NEW l \in 9..11
  PROVE  /\ Power(m + l - 7) \in Nat /\ Power(m + 2) \in Nat /\ Power(l) \in Nat
         /\ Power(m + 2) * Power(l) = 512 * Power(m + l - 7)
<1>1. ASSUME NEW k \in 2..11 PROVE Power(k) \in Nat
  BY Powers
<1>2. m + l - 7 \in 2..11 /\ m + 2 \in 2..11 /\ l \in 2..11
  OBVIOUS
<1>3. Power(m + 2) * Power(l) = 512 * Power(m + l - 7)
  <2>1. CASE l = 9
    BY Powers, <2>1
  <2>2. CASE l = 10
    BY Powers, <2>2
  <2>3. CASE l = 11
    BY Powers, <2>3
  <2> QED BY <2>1, <2>2, <2>3
<1> QED BY <1>1, <1>2, <1>3

SameSize(h, i, j, m, l) ==
  (((h * 1024 + i * 4 + j) % 65536) + 1) * Power(m + l - 7)
    = ((j + 4 * i + 1024 * h + 1) * Power(m + 2) * Power(l)) \div 512

\* No field of version 1 is so large that the 16 bits come round.
LEMMA SizeOfV1 ==
  ASSUME NEW h \in 0..3, NEW i \in 0..255, NEW j \in 0..3, NEW m \in 0..7, NEW l \in 9..11
  PROVE  SameSize(h, i, j, m, l)
<1> DEFINE n == h * 1024 + i * 4 + j
           x == Power(m + l - 7)
           y == Power(m + 2)
           z == Power(l)
<1>1. n \in Nat /\ n < 65536 /\ j + 4 * i + 1024 * h + 1 = n + 1
  OBVIOUS
<1>2. x \in Nat /\ y \in Nat /\ z \in Nat /\ y * z = 512 * x
  BY PowersOfRegister
<1> HIDE DEF n, x, y, z
<1>3. n % 65536 = n
  BY <1>1
<1> DEFINE k == (n + 1) * x
<1>4. (n + 1) * y * z = 512 * k
  <2>1. (n + 1) * y * z = (n + 1) * (y * z)
    BY <1>1, <1>2
  <2> QED BY <1>1, <1>2, <2>1
<1>5. k \in Nat
  BY <1>1, <1>2
<1> HIDE DEF k
<1>6. (512 * k) \div 512 = k
  BY <1>5
<1>7. ((n % 65536) + 1) * x = ((n + 1) * y * z) \div 512
  BY <1>3, <1>4, <1>6 DEF k
<1> QED BY ONLY <1>1, <1>7 DEF n, x, y, z, SameSize

LEMMA CapacityOfV1 ==
  ASSUME NEW csd \in Sd!CsdV1
  PROVE  Sd!cardSize(csd) = Sd!Capacity(csd)
<1> DEFINE h == csd.c_size_high
           i == csd.c_size_mid
           j == csd.c_size_low
           l == csd.read_bl_len
           m == csd.c_size_mult_high * 2 + csd.c_size_mult_low
<1>1. /\ csd.csd_ver = 0 /\ h \in 0..3 /\ i \in 0..255 /\ j \in 0..3 /\ l \in 9..11
      /\ csd.c_size_mult_high \in 0..3 /\ csd.c_size_mult_low \in 0..1
  BY DEF Sd!CsdV1
<1>2. m \in 0..7 /\ csd.c_size_mult_low + 2 * csd.c_size_mult_high + 2 = m + 2
  BY <1>1
<1>3. Sd!cardSize(csd) = (((h * 1024 + i * 4 + j) % 65536) + 1) * Power(m + l - 7)
  BY <1>1 DEF Sd!cardSize, Power
<1>4. Sd!Capacity(csd) = ((j + 4 * i + 1024 * h + 1) * Power(m + 2) * Power(l)) \div 512
  BY <1>1, <1>2 DEF Sd!Capacity, Power
<1> HIDE DEF h, i, j, l, m
<1>5. SameSize(h, i, j, m, l)
  BY <1>1, <1>2, SizeOfV1
<1> QED BY <1>3, <1>4, <1>5 DEF SameSize

LEMMA SizeOfCard ==
  ASSUME NEW csd \in Sd!CsdV1 \cup Sd!CsdV2
  PROVE  Sd!cardSize(csd) = Sd!Capacity(csd)
<1>1. CASE csd \in Sd!CsdV2
  <2>1. /\ csd.csd_ver = 1 /\ csd.c_size_high \in Int /\ csd.c_size_mid \in Int
        /\ csd.c_size_low \in Int
    BY <1>1 DEF Sd!CsdV2
  <2> QED BY <2>1 DEF Sd!cardSize, Sd!Capacity
<1> QED BY <1>1, CapacityOfV1

-----------------------------------------------------------------------------
(***************************************************************************)
(* A call as a whole.                                                      *)
(***************************************************************************)
LEMMA KindsOfCall ==
  ASSUME NEW c \in Sd!Calls
  PROVE  /\ c.op \in {"readBlock", "readStart", "readData", "readStop", "writeBlock",
                      "writeStart", "writeData", "writeStop", "erase", "cardSize"}
         /\ c.op \in {"readBlock", "readStart", "writeBlock", "erase", "writeStart"} =>
              c.first \in Sd!Block /\ c.last \in Sd!Block
BY DEF Sd!Calls, Sd!Call

\* The state a call finds.
LEMMA Starts ==
  ASSUME Sd!CardInv, sdStage = "begun", NEW s, s = Sd!Start(sdCard, sdType)
  PROVE  /\ Fit(s) /\ s.card = sdCard /\ s.type = sdType /\ ~s.slow /\ ~s.torn
         /\ ~sdSlow /\ sdCard.mode # "off" => Sd!InStep(sdCard, sdSeq)
         /\ sdSeq.op # "none" => sdSeq.next \in Nat
         /\ sdCard \in Sd!CardState
<1>1. /\ Sd!SoundCard(sdCard) /\ sdType \in {"none", "SD1", "SD2", "SDHC"}
      /\ sdCard.mode # "off" => sdCard.mode # "idle" /\ sdType = sdCard.model.kind
      /\ ~sdSlow /\ sdCard.mode # "off" => Sd!InStep(sdCard, sdSeq)
      /\ sdSeq.op # "none" => sdSeq.next \in Nat
  BY DEF Sd!CardInv, Sd!TypeOK, Sd!Known, Sd!Sequence
<1>2. sdCard \in Sd!CardState
  BY <1>1 DEF Sd!SoundCard
<1>3. Sd!Torn \in Content
  BY DEF Content
<1>4. s \in State /\ s.card = sdCard /\ s.type = sdType /\ ~s.slow /\ ~s.torn
  BY <1>1, <1>2, <1>3 DEF State, Sd!Start
<1> QED BY <1>1, <1>2, <1>4 DEF Fit, Sound

\* What every call leaves: driver and card in step, unless the card was too slow.
LeavesInStep(c, s, t) ==
  /\ Fit(t) /\ SameCard(s, t)
  /\ ~sdSlow /\ ~t.slow /\ t.card.mode # "off" => Sd!InStep(t.card, Sd!After(c, t.ok))

LEMMA SinglesInStep ==
  ASSUME NEW c, c.op \in {"readBlock", "writeBlock", "erase", "cardSize"}, sdSeq.op = "none",
         NEW s, s.card = sdCard, ~sdSlow /\ sdCard.mode # "off" => Sd!InStep(sdCard, sdSeq),
         NEW t, Fit(t), SameCard(s, t), Stays(s, t)
  PROVE  LeavesInStep(c, s, t)
<1>1. Sd!After(c, t.ok) = sdSeq
  BY DEF Sd!After
<1>2. ASSUME ~sdSlow, ~t.slow, t.card.mode # "off"
      PROVE  t.card.mode = "ready"
  BY <1>2 DEF SameCard, Sd!InStep, Stays
<1> QED BY <1>1, <1>2 DEF LeavesInStep, Sd!InStep

LEMMA ReadBlockExact ==
  ASSUME Sd!CardInv, NEW c \in Sd!Calls, Sd!Legal(c), c.op = "readBlock",
         NEW s, s = Sd!Start(sdCard, sdType), NEW t \in Sd!Do(s, c)
  PROVE  LeavesInStep(c, s, t) /\ Sd!Exact(c, t)
<1>1. /\ Fit(s) /\ s.card = sdCard /\ c.first \in Sd!Block /\ sdSeq.op = "none"
      /\ ~sdSlow /\ sdCard.mode # "off" => Sd!InStep(sdCard, sdSeq)
  BY Starts, KindsOfCall DEF Sd!Legal
<1>2. t \in Sd!readBlock(s, c.first)
  BY DEF Sd!Do
<1>3. /\ Fit(t) /\ SameCard(s, t) /\ Untouched(s, t) /\ Stays(s, t)
      /\ t.ok /\ ~t.torn => t.got = s.card.block[c.first]
  BY <1>1, <1>2, BlockRead
<1>4. LeavesInStep(c, s, t)
  BY <1>1, <1>3, SinglesInStep
<1> QED BY <1>1, <1>3, <1>4 DEF Sd!Exact, Untouched

LEMMA WriteBlockExact ==
  ASSUME Sd!CardInv, NEW c \in Sd!Calls, Sd!Legal(c), c.op = "writeBlock",
         NEW s, s = Sd!Start(sdCard, sdType), NEW t \in Sd!Do(s, c)
  PROVE  LeavesInStep(c, s, t) /\ Sd!Exact(c, t)
<1>1. /\ Fit(s) /\ s.card = sdCard /\ c.first \in Sd!Block /\ sdSeq.op = "none"
      /\ ~sdSlow /\ sdCard.mode # "off" => Sd!InStep(sdCard, sdSeq)
  BY Starts, KindsOfCall DEF Sd!Legal
<1>2. t \in Sd!writeBlock(s, c.first)
  BY DEF Sd!Do
<1>3. /\ Fit(t) /\ SameCard(s, t) /\ But(s, t, {c.first}) /\ Stays(s, t)
      /\ t.ok => t.card.block[c.first] = Sd!New
  BY <1>1, <1>2, BlockWritten
<1>4. LeavesInStep(c, s, t)
  BY <1>1, <1>3, SinglesInStep
<1>5. Sd!Targets(c) = {c.first}
  BY DEF Sd!Targets
<1> QED BY <1>1, <1>3, <1>4, <1>5 DEF Sd!Exact, But

LEMMA CardSizeExact ==
  ASSUME Sd!CardInv, NEW c \in Sd!Calls, Sd!Legal(c), c.op = "cardSize",
         NEW s, s = Sd!Start(sdCard, sdType), NEW t \in Sd!Do(s, c)
  PROVE  LeavesInStep(c, s, t) /\ Sd!Exact(c, t)
<1>1. /\ Fit(s) /\ s.card = sdCard /\ sdSeq.op = "none" /\ sdCard \in Sd!CardState
      /\ ~sdSlow /\ sdCard.mode # "off" => Sd!InStep(sdCard, sdSeq)
  BY Starts DEF Sd!Legal
<1>2. t \in Sd!readCSD(s)
  BY DEF Sd!Do
<1>3. Fit(t) /\ SameCard(s, t) /\ Untouched(s, t) /\ Stays(s, t)
  BY <1>1, <1>2, CsdRead
<1>4. LeavesInStep(c, s, t)
  BY <1>1, <1>3, SinglesInStep
<1>5. Sd!cardSize(sdCard.model.csd) = Sd!Capacity(sdCard.model.csd)
  <2>1. sdCard.model \in Sd!CardModel
    BY <1>1, CardAssumption DEF Sd!CardState, Sd!SdCardAssumption
  <2>2. sdCard.model.csd \in Sd!CsdV1 \cup Sd!CsdV2
    BY <2>1 DEF Sd!CardModel
  <2> QED BY <2>2, SizeOfCard
<1> QED BY <1>1, <1>3, <1>4, <1>5 DEF Sd!Exact, Untouched

LEMMA EraseExact ==
  ASSUME Sd!CardInv, NEW c \in Sd!Calls, Sd!Legal(c), c.op = "erase",
         NEW s, s = Sd!Start(sdCard, sdType), NEW t \in Sd!Do(s, c)
  PROVE  LeavesInStep(c, s, t) /\ (~(sdSlow \/ t.slow) => Sd!Exact(c, t))
<1>1. /\ Fit(s) /\ s.card = sdCard /\ sdSeq.op = "none"
      /\ c.first \in Sd!Block /\ c.last \in Sd!Block
      /\ ~sdSlow /\ sdCard.mode # "off" => Sd!InStep(sdCard, sdSeq)
  BY Starts, KindsOfCall DEF Sd!Legal
<1>2. t \in Sd!erase(s, c.first, c.last)
  BY DEF Sd!Do
<1>3. /\ Fit(t) /\ SameCard(s, t) /\ Stays(s, t)
      /\ ~t.slow => But(s, t, c.first..c.last)
      /\ t.ok /\ ~t.slow /\ t.card.in =>
           \A b \in c.first..c.last : t.card.block[b] = Sd!Erased
  BY <1>1, <1>2, Erasure
<1>4. LeavesInStep(c, s, t)
  BY <1>1, <1>3, SinglesInStep
<1>5. Sd!Targets(c) = c.first..c.last
  BY DEF Sd!Targets
<1> QED BY <1>1, <1>3, <1>4, <1>5 DEF Sd!Exact, But

LEMMA ReadStartExact ==
  ASSUME Sd!CardInv, NEW c \in Sd!Calls, Sd!Legal(c), c.op = "readStart",
         NEW s, s = Sd!Start(sdCard, sdType), NEW t \in Sd!Do(s, c)
  PROVE  LeavesInStep(c, s, t) /\ Sd!Exact(c, t)
<1>1. /\ Fit(s) /\ s.card = sdCard /\ c.first \in Sd!Block /\ sdSeq.op = "none"
      /\ ~sdSlow /\ sdCard.mode # "off" => Sd!InStep(sdCard, sdSeq)
  BY Starts, KindsOfCall DEF Sd!Legal
<1>2. t \in Sd!readStart(s, c.first)
  BY DEF Sd!Do
<1>3. /\ Fit(t) /\ SameCard(s, t) /\ Untouched(s, t)
      /\ s.card.mode = "ready" /\ ~t.slow =>
           \/ t.card.mode = "off"
           \/ IF t.ok THEN t.card.mode = "reading" /\ t.card.sends = c.first
              ELSE t.card.mode = "ready"
  BY <1>1, <1>2, ReadStarted
<1>4. ASSUME ~sdSlow, ~t.slow, t.card.mode # "off"
      PROVE  Sd!InStep(t.card, Sd!After(c, t.ok))
  <2>1. s.card.mode = "ready"
    BY <1>1, <1>3, <1>4 DEF SameCard, Sd!InStep
  <2>2. CASE t.ok
    <3>1. Sd!After(c, t.ok) = [op |-> "read", next |-> c.first]
      BY <2>2 DEF Sd!After
    <3>2. t.card.mode = "reading" /\ t.card.sends = c.first
      BY <1>3, <1>4, <2>1, <2>2
    <3> DEFINE q == [op |-> "read", next |-> c.first]
    <3>3. q.op = "read" /\ q.next = c.first
      OBVIOUS
    <3> HIDE DEF q
    <3>4. Sd!InStep(t.card, q)
      BY <3>2, <3>3 DEF Sd!InStep
    <3> QED BY <3>1, <3>4 DEF q
  <2>3. CASE ~t.ok
    <3>1. Sd!After(c, t.ok) = sdSeq
      BY <2>3 DEF Sd!After
    <3>2. t.card.mode = "ready"
      BY <1>3, <1>4, <2>1, <2>3
    <3> QED BY <1>1, <3>1, <3>2 DEF Sd!InStep
  <2> QED BY <2>2, <2>3
<1> QED BY <1>1, <1>3, <1>4 DEF LeavesInStep, Sd!Exact, Untouched

LEMMA ReadStopExact ==
  ASSUME Sd!CardInv, NEW c \in Sd!Calls, Sd!Legal(c), c.op = "readStop",
         NEW s, s = Sd!Start(sdCard, sdType), NEW t \in Sd!Do(s, c)
  PROVE  LeavesInStep(c, s, t) /\ Sd!Exact(c, t)
<1>1. /\ Fit(s) /\ s.card = sdCard /\ sdSeq.op = "read"
      /\ ~sdSlow /\ sdCard.mode # "off" => Sd!InStep(sdCard, sdSeq)
  BY Starts DEF Sd!Legal
<1>2. t \in Sd!readStop(s)
  BY DEF Sd!Do
<1>3. /\ Fit(t) /\ SameCard(s, t) /\ Untouched(s, t)
      /\ s.card.mode = "reading" => t.slow \/ t.card.mode \in {"off", "ready"}
  BY <1>1, <1>2, ReadStopped
<1>4. Sd!After(c, t.ok) = Sd!NoSeq /\ Sd!NoSeq.op = "none"
  BY DEF Sd!After, Sd!NoSeq
<1>5. ASSUME ~sdSlow, ~t.slow, t.card.mode # "off"
      PROVE  t.card.mode = "ready"
  BY <1>1, <1>3, <1>5 DEF SameCard, Sd!InStep
<1>6. LeavesInStep(c, s, t)
  BY <1>3, <1>4, <1>5 DEF LeavesInStep, Sd!InStep
<1> QED BY <1>1, <1>3, <1>6 DEF Sd!Exact, Untouched

LEMMA WriteStartExact ==
  ASSUME Sd!CardInv, NEW c \in Sd!Calls, Sd!Legal(c), c.op = "writeStart",
         NEW s, s = Sd!Start(sdCard, sdType), NEW t \in Sd!Do(s, c)
  PROVE  LeavesInStep(c, s, t) /\ (~(sdSlow \/ t.slow) => Sd!Exact(c, t))
<1>1. /\ Fit(s) /\ s.card = sdCard /\ sdSeq.op = "none"
      /\ c.first \in Sd!Block /\ c.last \in Sd!Block
      /\ ~sdSlow /\ sdCard.mode # "off" => Sd!InStep(sdCard, sdSeq)
  BY Starts, KindsOfCall DEF Sd!Legal
<1> DEFINE count == c.last - c.first + 1
<1>2. t \in Sd!writeStart(s, c.first, count)
  BY DEF Sd!Do
<1>3. count \in Int /\ c.first + count - 1 = c.last
  BY <1>1, CardAssumption DEF Sd!Block, Sd!SdCardAssumption
<1> HIDE DEF count
<1>4. /\ Fit(t) /\ SameCard(s, t)
      /\ ~t.slow =>
           /\ But(s, t, c.first..c.last)
           /\ s.card.mode = "ready" =>
                \/ t.card.mode = "off"
                \/ IF t.ok THEN t.card.mode = "writing" /\ t.card.takes = c.first
                   ELSE t.card.mode = "ready"
  BY <1>1, <1>2, <1>3, WriteStarted
<1>5. ASSUME ~sdSlow, ~t.slow, t.card.mode # "off"
      PROVE  Sd!InStep(t.card, Sd!After(c, t.ok))
  <2>1. s.card.mode = "ready"
    BY <1>1, <1>4, <1>5 DEF SameCard, Sd!InStep
  <2>2. CASE t.ok
    <3>1. Sd!After(c, t.ok) = [op |-> "write", next |-> c.first]
      BY <2>2 DEF Sd!After
    <3>2. t.card.mode = "writing" /\ t.card.takes = c.first
      BY <1>4, <1>5, <2>1, <2>2
    <3> DEFINE q == [op |-> "write", next |-> c.first]
    <3>3. q.op = "write" /\ q.next = c.first
      OBVIOUS
    <3> HIDE DEF q
    <3>4. Sd!InStep(t.card, q)
      BY <3>2, <3>3 DEF Sd!InStep
    <3> QED BY <3>1, <3>4 DEF q
  <2>3. CASE ~t.ok
    <3>1. Sd!After(c, t.ok) = sdSeq
      BY <2>3 DEF Sd!After
    <3>2. t.card.mode = "ready"
      BY <1>4, <1>5, <2>1, <2>3
    <3> QED BY <1>1, <3>1, <3>2 DEF Sd!InStep
  <2> QED BY <2>2, <2>3
<1>6. Sd!Targets(c) = c.first..c.last
  BY DEF Sd!Targets
<1> QED BY <1>1, <1>4, <1>5, <1>6 DEF LeavesInStep, Sd!Exact, But

LEMMA WriteStopExact ==
  ASSUME Sd!CardInv, NEW c \in Sd!Calls, Sd!Legal(c), c.op = "writeStop",
         NEW s, s = Sd!Start(sdCard, sdType), NEW t \in Sd!Do(s, c)
  PROVE  LeavesInStep(c, s, t) /\ Sd!Exact(c, t)
<1>1. /\ Fit(s) /\ s.card = sdCard /\ sdSeq.op = "write"
      /\ ~sdSlow /\ sdCard.mode # "off" => Sd!InStep(sdCard, sdSeq)
  BY Starts DEF Sd!Legal
<1>2. t \in Sd!writeStop(s)
  BY DEF Sd!Do
<1>3. /\ Fit(t) /\ SameCard(s, t) /\ Untouched(s, t)
      /\ s.card.mode = "writing" => t.slow \/ t.card.mode \in {"off", "ready"}
  BY <1>1, <1>2, WriteStopped
<1>4. Sd!After(c, t.ok) = Sd!NoSeq /\ Sd!NoSeq.op = "none"
  BY DEF Sd!After, Sd!NoSeq
<1>5. ASSUME ~sdSlow, ~t.slow, t.card.mode # "off"
      PROVE  t.card.mode = "ready"
  BY <1>1, <1>3, <1>5 DEF SameCard, Sd!InStep
<1>6. LeavesInStep(c, s, t)
  BY <1>3, <1>4, <1>5 DEF LeavesInStep, Sd!InStep
<1> QED BY <1>1, <1>3, <1>6 DEF Sd!Exact, Untouched

\* The sequence after one more block.
LEMMA OneMore ==
  ASSUME Sd!CardInv, NEW c, c.op = "readData" \/ c.op = "writeData", NEW t, t.ok
  PROVE  Sd!After(c, t.ok).op = sdSeq.op /\ Sd!After(c, t.ok).next = sdSeq.next + 1
<1>1. sdSeq \in [op : {"none", "read", "write"}, next : Int]
  BY DEF Sd!CardInv, Sd!TypeOK
<1> DEFINE q == [sdSeq EXCEPT !.next = @ + 1]
<1>2. q.op = sdSeq.op /\ q.next = sdSeq.next + 1
  BY <1>1
<1>3. Sd!After(c, t.ok) = q
  BY DEF Sd!After
<1> HIDE DEF q
<1> QED BY <1>2, <1>3

LEMMA ReadDataExact ==
  ASSUME Sd!CardInv, NEW c \in Sd!Calls, Sd!Legal(c), c.op = "readData",
         NEW s, s = Sd!Start(sdCard, sdType), NEW t \in Sd!Do(s, c)
  PROVE  LeavesInStep(c, s, t) /\ (~(sdSlow \/ t.slow) => Sd!Exact(c, t))
<1>1. /\ Fit(s) /\ s.card = sdCard /\ sdSeq.op = "read" /\ sdSeq.next \in Nat
      /\ ~sdSlow /\ sdCard.mode # "off" => Sd!InStep(sdCard, sdSeq)
  BY Starts DEF Sd!Legal
<1>2. t \in Sd!readData(s)
  BY DEF Sd!Do
<1>3. /\ Fit(t) /\ SameCard(s, t) /\ Untouched(s, t) /\ t.slow = s.slow
      /\ IF t.ok THEN Received(s, t) ELSE t.torn = s.torn /\ Still(s, t)
  BY <1>1, <1>2, Reception
<1>4. ASSUME ~sdSlow, s.card.mode # "off"
      PROVE  s.card.mode = "reading" /\ s.card.sends = sdSeq.next
  BY <1>1, <1>4 DEF Sd!InStep
<1>5. t.ok \in BOOLEAN
  BY <1>3 DEF Fit, Sound, State
<1>6. ASSUME ~sdSlow, ~t.slow, t.card.mode # "off"
      PROVE  Sd!InStep(t.card, Sd!After(c, t.ok))
  <2>1. s.card.mode = "reading" /\ s.card.sends = sdSeq.next
    BY <1>3, <1>4, <1>6 DEF SameCard
  <2>2. CASE t.ok
    <3>1. t.card.mode = "reading" /\ t.card.sends = sdSeq.next + 1
      BY <1>3, <1>6, <2>1, <2>2 DEF Received
    <3>3. Sd!After(c, t.ok).op = sdSeq.op /\ Sd!After(c, t.ok).next = sdSeq.next + 1
      BY <2>2, OneMore
    <3> DEFINE q == Sd!After(c, t.ok)
    <3> HIDE DEF q
    <3>4. q.op = sdSeq.op /\ q.next = sdSeq.next + 1
      BY <3>3 DEF q
    <3>5. Sd!InStep(t.card, q)
      BY <1>1, <3>1, <3>4 DEF Sd!InStep
    <3> QED BY <3>5 DEF q
  <2>3. CASE ~t.ok
    <3>2. Sd!After(c, t.ok) = sdSeq
      BY <2>3 DEF Sd!After
    <3>3. t.card.mode = "reading" /\ t.card.sends = sdSeq.next
      BY <1>3, <1>6, <2>1, <2>3 DEF Still
    <3> QED BY <1>1, <3>2, <3>3 DEF Sd!InStep
  <2> QED BY <2>2, <2>3
<1>7. ASSUME ~sdSlow, t.ok, ~t.torn
      PROVE  sdSeq.next \in Sd!Block /\ t.got = sdCard.block[sdSeq.next]
  <2>1. Received(s, t)
    BY <1>3, <1>7
  <2>2. s.card.mode # "off"
    <3>1. Sd!None \notin Sd!Block \cup {Sd!CSD}
      BY CardAssumption DEF Sd!None, Sd!CSD, Sd!Block, Sd!SdCardAssumption
    <3> QED BY <1>1, <2>1, <3>1 DEF Fit, Sound, Sd!SoundCard, Received
  <2>3. s.card.sends = sdSeq.next
    BY <1>4, <1>7, <2>2
  <2>4. Sd!CSD \notin Nat
    BY DEF Sd!CSD
  <2>5. sdSeq.next \in Sd!Block
    BY <1>1, <2>1, <2>3, <2>4 DEF Received
  <2> QED BY <1>1, <1>7, <2>1, <2>3, <2>5 DEF Received
<1> QED BY <1>1, <1>3, <1>6, <1>7 DEF LeavesInStep, Sd!Exact, Untouched

LEMMA WriteDataExact ==
  ASSUME Sd!CardInv, NEW c \in Sd!Calls, Sd!Legal(c), c.op = "writeData",
         NEW s, s = Sd!Start(sdCard, sdType), NEW t \in Sd!Do(s, c)
  PROVE  LeavesInStep(c, s, t) /\ (~(sdSlow \/ t.slow) => Sd!Exact(c, t))
<1>1. /\ Fit(s) /\ s.card = sdCard /\ sdSeq.op = "write" /\ sdSeq.next \in Nat
      /\ ~sdSlow /\ sdCard.mode # "off" => Sd!InStep(sdCard, sdSeq)
  BY Starts DEF Sd!Legal
<1>2. t \in Sd!writeData(s)
  BY DEF Sd!Do
<1>3. /\ Fit(t) /\ SameCard(s, t)
      /\ IF t.ok
         THEN /\ s.card.mode = "writing" /\ t.card.mode = "writing"
              /\ s.card.takes \in Sd!Block
              /\ t.card.takes = s.card.takes + 1
              /\ But(s, t, {s.card.takes}) /\ t.card.block[s.card.takes] = Sd!New
         ELSE Untouched(s, t) /\ (s.card.mode = "writing" => Still(s, t))
  BY <1>1, <1>2, DataWritten
<1>4. ASSUME ~sdSlow, s.card.mode # "off"
      PROVE  s.card.mode = "writing" /\ s.card.takes = sdSeq.next
  BY <1>1, <1>4 DEF Sd!InStep
<1>5. t.ok \in BOOLEAN
  BY <1>3 DEF Fit, Sound, State
<1>6. ASSUME ~sdSlow, ~t.slow, t.card.mode # "off"
      PROVE  Sd!InStep(t.card, Sd!After(c, t.ok))
  <2>1. s.card.mode = "writing" /\ s.card.takes = sdSeq.next
    BY <1>3, <1>4, <1>6 DEF SameCard
  <2>2. CASE t.ok
    <3>1. t.card.mode = "writing" /\ t.card.takes = sdSeq.next + 1
      BY <1>3, <2>1, <2>2
    <3>3. Sd!After(c, t.ok).op = sdSeq.op /\ Sd!After(c, t.ok).next = sdSeq.next + 1
      BY <2>2, OneMore
    <3> DEFINE q == Sd!After(c, t.ok)
    <3> HIDE DEF q
    <3>4. q.op = sdSeq.op /\ q.next = sdSeq.next + 1
      BY <3>3 DEF q
    <3>5. Sd!InStep(t.card, q)
      BY <1>1, <3>1, <3>4 DEF Sd!InStep
    <3> QED BY <3>5 DEF q
  <2>3. CASE ~t.ok
    <3>2. Sd!After(c, t.ok) = sdSeq
      BY <2>3 DEF Sd!After
    <3>3. t.card.mode = "writing" /\ t.card.takes = sdSeq.next
      BY <1>3, <1>6, <2>1, <2>3 DEF Still
    <3> QED BY <1>1, <3>2, <3>3 DEF Sd!InStep
  <2> QED BY <2>2, <2>3
<1>7. Sd!Targets(c) = {sdSeq.next}
  BY DEF Sd!Targets
<1>8. ASSUME ~sdSlow, t.ok
      PROVE  /\ s.card.takes = sdSeq.next /\ sdSeq.next \in Sd!Block
             /\ But(s, t, {sdSeq.next}) /\ t.card.block[sdSeq.next] = Sd!New
  BY <1>3, <1>4, <1>8
<1> QED BY <1>1, <1>3, <1>6, <1>7, <1>8 DEF LeavesInStep, Sd!Exact, Untouched, But

\* Every call is exact, and leaves driver and card in step.
LEMMA EveryCall ==
  ASSUME Sd!CardInv, NEW c \in Sd!Calls, Sd!Legal(c),
         NEW s, s = Sd!Start(sdCard, sdType), NEW t \in Sd!Do(s, c)
  PROVE  /\ LeavesInStep(c, s, t)
         /\ c.op \in {"readBlock", "writeBlock", "cardSize"} \/ ~(sdSlow \/ t.slow) =>
              Sd!Exact(c, t)
<1>1. c.op \in {"readBlock", "readStart", "readData", "readStop", "writeBlock",
                "writeStart", "writeData", "writeStop", "erase", "cardSize"}
  BY KindsOfCall
<1>2. CASE c.op = "readBlock"
  BY <1>2, ReadBlockExact
<1>3. CASE c.op = "readStart"
  BY <1>3, ReadStartExact
<1>4. CASE c.op = "readData"
  BY <1>4, ReadDataExact
<1>5. CASE c.op = "readStop"
  BY <1>5, ReadStopExact
<1>6. CASE c.op = "writeBlock"
  BY <1>6, WriteBlockExact
<1>7. CASE c.op = "writeStart"
  BY <1>7, WriteStartExact
<1>8. CASE c.op = "writeData"
  BY <1>8, WriteDataExact
<1>9. CASE c.op = "writeStop"
  BY <1>9, WriteStopExact
<1>10. CASE c.op = "erase"
  BY <1>10, EraseExact
<1>11. CASE c.op = "cardSize"
  BY <1>11, CardSizeExact
<1> QED BY <1>1, <1>2, <1>3, <1>4, <1>5, <1>6, <1>7, <1>8, <1>9, <1>10, <1>11

LEMMA ExactByCardInv == Sd!CardInv => Sd!BlocksAreExact
<1> SUFFICES ASSUME Sd!CardInv, NEW c \in Sd!Calls, Sd!Legal(c),
                    NEW t \in Sd!Do(Sd!Start(sdCard, sdType), c),
                    c.op \in {"readBlock", "writeBlock", "cardSize"} \/ ~(sdSlow \/ t.slow)
             PROVE  Sd!Exact(c, t)
  BY DEF Sd!BlocksAreExact
<1> QED BY EveryCall

-----------------------------------------------------------------------------
(***************************************************************************)
(* The invariant.                                                          *)
(***************************************************************************)
Sequences == [op : {"none", "read", "write"}, next : Int]

LEMMA SequencesAfter ==
  ASSUME Sd!CardInv, NEW c \in Sd!Calls, Sd!Legal(c), NEW ok \in BOOLEAN
  PROVE  /\ Sd!After(c, ok) \in Sequences
         /\ Sd!After(c, ok).op # "none" => Sd!After(c, ok).next \in Nat
<1>1. sdSeq \in Sequences /\ (sdSeq.op # "none" => sdSeq.next \in Nat)
  BY DEF Sd!CardInv, Sd!TypeOK, Sd!Sequence, Sequences
<1>2. CASE c.op \in {"readStart", "writeStart"} /\ ok
  <2>1. c.first \in Nat
    BY <1>2, KindsOfCall, CardAssumption DEF Sd!Block, Sd!SdCardAssumption
  <2>2. Sd!After(c, ok) \in {[op |-> "read", next |-> c.first], [op |-> "write", next |-> c.first]}
    BY <1>2 DEF Sd!After
  <2> QED BY <2>1, <2>2 DEF Sequences
<1>3. CASE c.op \in {"readData", "writeData"} /\ ok
  <2>1. Sd!After(c, ok) = [sdSeq EXCEPT !.next = @ + 1]
    BY <1>3 DEF Sd!After
  <2>2. sdSeq.op # "none"
    BY <1>3 DEF Sd!Legal
  <2> QED BY <1>1, <2>1, <2>2 DEF Sequences
<1>4. CASE c.op \in {"readStop", "writeStop"}
  <2>1. Sd!After(c, ok) = Sd!NoSeq
    BY <1>4 DEF Sd!After
  <2> QED BY <2>1 DEF Sequences, Sd!NoSeq, Sd!None
<1>5. CASE \/ c.op \in {"readStart", "writeStart", "readData", "writeData"} /\ ~ok
           \/ c.op \in {"readBlock", "writeBlock", "erase", "cardSize"}
  <2>1. Sd!After(c, ok) = sdSeq
    BY <1>5 DEF Sd!After
  <2> QED BY <1>1, <2>1
<1> QED BY <1>2, <1>3, <1>4, <1>5, KindsOfCall

LEMMA CarryKeeps ==
  ASSUME Sd!CardInv, NEW c \in Sd!Calls, Sd!Carry(c)
  PROVE  Sd!CardInv'
<1> DEFINE s == Sd!Start(sdCard, sdType)
<1>1. Sd!Legal(c) /\ sdStage = "begun"
  BY DEF Sd!Carry, Sd!Legal
<1>2. PICK t \in Sd!Do(s, c) :
        sdCard' = t.card /\ sdSeq' = Sd!After(c, t.ok) /\ sdSlow' = (sdSlow \/ t.slow)
  BY DEF Sd!Carry
<1>3. sdType' = sdType /\ sdStage' = sdStage
  BY DEF Sd!Carry
<1>4. LeavesInStep(c, s, t)
  BY <1>1, EveryCall
<1>5. s.type = sdType
  BY <1>1, Starts
<1> HIDE DEF s
<1>6. /\ Fit(t) /\ t.type = sdType
      /\ ~sdSlow /\ ~t.slow /\ t.card.mode # "off" => Sd!InStep(t.card, Sd!After(c, t.ok))
  BY <1>4, <1>5 DEF LeavesInStep, SameCard
<1>7. /\ Sd!SoundCard(t.card) /\ t.ok \in BOOLEAN /\ t.slow \in BOOLEAN
      /\ t.card.mode # "off" => t.card.mode # "idle" /\ t.type = t.card.model.kind
  BY <1>6 DEF Fit, Sound, State
<1>8. /\ Sd!After(c, t.ok) \in Sequences
      /\ Sd!After(c, t.ok).op # "none" => Sd!After(c, t.ok).next \in Nat
  BY <1>1, <1>7, SequencesAfter
<1>9. Sd!TypeOK'
  BY <1>1, <1>2, <1>3, <1>7, <1>8 DEF Sd!CardInv, Sd!TypeOK, Sequences
<1>10. Sd!Known'
  BY <1>1, <1>2, <1>3, <1>6, <1>7 DEF Sd!Known
<1>11. Sd!Sequence'
  BY <1>1, <1>2, <1>3, <1>6, <1>8 DEF Sd!Sequence
<1> QED BY <1>9, <1>10, <1>11 DEF Sd!CardInv

\* A card that is off, and not busy, is right at any stage.
LEMMA ExchangeKeeps ==
  ASSUME Sd!CardInv, Sd!SoundCard(sdCard'), sdCard'.mode = "off", ~sdCard'.busy,
         UNCHANGED <<sdType, sdStage, sdSeq, sdSlow>>
  PROVE  Sd!CardInv'
<1>1. Sd!TypeOK' /\ Sd!Sequence'
  BY DEF Sd!CardInv, Sd!TypeOK, Sd!Sequence
<1>2. Sd!Known'
  BY DEF Sd!CardInv, Sd!Known
<1> QED BY <1>1, <1>2 DEF Sd!CardInv

LEMMA InsertKeeps ==
  ASSUME Sd!CardInv, Sd!Insert
  PROVE  Sd!CardInv'
<1>1. PICK m \in CardModels : sdCard' = [Sd!NoCard EXCEPT !.in = TRUE, !.model = m]
  BY DEF Sd!Insert
<1>2. Sd!NoCard \in Sd!CardState /\ Sd!SoundCard(Sd!NoCard) /\ Sd!NoCard.mode = "off"
      /\ ~Sd!NoCard.busy
  BY Empty DEF Sd!SoundCard
<1>3. /\ sdCard' \in Sd!CardState /\ sdCard'.in /\ sdCard'.mode = Sd!NoCard.mode
      /\ sdCard'.busy = Sd!NoCard.busy /\ sdCard'.sends = Sd!NoCard.sends
      /\ sdCard'.takes = Sd!NoCard.takes
  BY <1>1, <1>2 DEF Sd!CardState
<1>4. Sd!SoundCard(sdCard')
  BY <1>2, <1>3 DEF Sd!SoundCard
<1> QED BY <1>2, <1>3, <1>4, ExchangeKeeps DEF Sd!Insert

LEMMA RemoveKeeps ==
  ASSUME Sd!CardInv, Sd!Remove
  PROVE  Sd!CardInv'
<1>1. sdCard' = Sd!NoCard /\ UNCHANGED <<sdType, sdStage, sdSeq, sdSlow>>
  BY DEF Sd!Remove
<1> QED BY <1>1, Empty, ExchangeKeeps

LEMMA StartBeginKeeps ==
  ASSUME Sd!CardInv, Sd!StartBegin
  PROVE  Sd!CardInv'
<1>1. /\ sdCard' = sdCard /\ sdType' = "none" /\ sdStage' = "CMD0" /\ sdSeq' = Sd!NoSeq
      /\ sdSlow' = sdSlow
  BY DEF Sd!StartBegin
<1>2. Sd!NoSeq \in Sequences /\ Sd!NoSeq.op = "none"
  BY DEF Sequences, Sd!NoSeq, Sd!None
<1>3. Sd!TypeOK' /\ Sd!Known' /\ Sd!Sequence'
  BY <1>1, <1>2 DEF Sd!CardInv, Sd!TypeOK, Sd!Known, Sd!Sequence, Sequences
<1> QED BY <1>3 DEF Sd!CardInv

-----------------------------------------------------------------------------
(***************************************************************************)
(* begin().                                                                *)
(***************************************************************************)
Idles(w) == [w EXCEPT !.card.mode = "idle", !.card.sends = Sd!None, !.card.takes = Sd!None]
Readies(w) == [w EXCEPT !.card.mode = "ready"]
Replies(w, r) == [w EXCEPT !.reply = r]

LEMMA Idling ==
  ASSUME NEW w \in State, NEW t, t = Idles(w)
  PROVE  /\ Like(w, t) /\ t.r1 = w.r1 /\ t.reply = w.reply
         /\ LET c == t.card
            IN /\ c \in Sd!CardState /\ c.in = w.card.in /\ c.model = w.card.model
               /\ c.busy = w.card.busy /\ c.mode = "idle"
<1> DEFINE c == [w.card EXCEPT !.mode = "idle", !.sends = Sd!None, !.takes = Sd!None]
<1>1. w.card \in Sd!CardState /\ Sd!None \in Int
  BY DEF State, Sd!None
<1>2. /\ c \in Sd!CardState /\ c.in = w.card.in /\ c.model = w.card.model
      /\ c.busy = w.card.busy /\ c.mode = "idle"
  BY <1>1 DEF Sd!CardState
<1>3. t = [w EXCEPT !.card = c]
  BY <1>1 DEF State, Sd!CardState, Idles
<1> HIDE DEF c
<1>4. Like(w, t) /\ t.r1 = w.r1 /\ t.reply = w.reply /\ t.card = c
  BY <1>2, <1>3, NewCard
<1> QED BY <1>2, <1>4

LEMMA Readying ==
  ASSUME NEW w \in State, NEW t, t = Readies(w)
  PROVE  /\ Like(w, t) /\ t.r1 = w.r1 /\ t.reply = w.reply
         /\ LET c == t.card
            IN /\ c \in Sd!CardState /\ c.in = w.card.in /\ c.model = w.card.model
               /\ c.busy = w.card.busy /\ c.mode = "ready"
<1> DEFINE c == [w.card EXCEPT !.mode = "ready"]
<1>1. w.card \in Sd!CardState
  BY DEF State
<1>2. /\ c \in Sd!CardState /\ c.in = w.card.in /\ c.model = w.card.model
      /\ c.busy = w.card.busy /\ c.mode = "ready"
  BY <1>1 DEF Sd!CardState
<1>3. t = [w EXCEPT !.card = c]
  BY <1>1 DEF State, Sd!CardState, Readies
<1> HIDE DEF c
<1>4. Like(w, t) /\ t.r1 = w.r1 /\ t.reply = w.reply /\ t.card = c
  BY <1>2, <1>3, NewCard
<1> QED BY <1>2, <1>4

LEMMA Replying ==
  ASSUME NEW w \in State, NEW r \in {"none", "AA", "CCS"}, NEW t, t = Replies(w, r)
  PROVE  Like(w, t) /\ t.r1 = w.r1 /\ t.reply = r /\ t.card = w.card
BY DEF State, Like, Replies

\* What the card does at a command of begin(): it is in the slot, not busy.
Present(s, t, mode) ==
  /\ Sound(t) /\ t.card.in /\ ~t.card.busy /\ t.card.mode = mode
  /\ t.card.model = s.card.model
Absent(t) == Sound(t) /\ t.card.mode = "off" /\ ~t.card.busy /\ t.r1 = 255 /\ t.reply = "none"

LEMMA Heard ==
  ASSUME NEW s, Sound(s), NEW u, Hears(s, u)
  PROVE  /\ Present(s, u, s.card.mode) /\ u \in State /\ u.card \in Sd!CardState
         /\ u.card.app = s.card.app
<1>1. s.card \in Sd!CardState /\ u \in State /\ u.card \in Sd!CardState
  BY DEF Hears, Sound, State
<1>2. u.card.model = s.card.model /\ u.card.app = s.card.app /\ u.card.mode = s.card.mode
  BY <1>1 DEF Hears, Sd!CardState
<1> QED BY <1>1, <1>2 DEF Hears, Present

\* v is the answer u gives, perhaps with another mode, and t its result.
LEMMA Results ==
  ASSUME NEW s, NEW mode \in {"off", "idle", "ready"},
         NEW v \in State, v.card \in Sd!CardState, v.card.in, ~v.card.busy, v.card.mode = mode,
         v.card.model = s.card.model, mode = "off" => Sd!SoundCard(v.card),
         NEW t, t = Sd!Ok(v)
  PROVE  Present(s, t, mode) /\ t.r1 = v.r1 /\ t.reply = v.reply /\ t.card = v.card
<1>1. /\ Like(v, t) /\ t.r1 = v.r1 /\ t.reply = v.reply /\ t.card = v.card
  BY Succeeding
<1> QED BY <1>1 DEF Present, Sound, Sd!SoundCard, Like

\* An answer, and nothing else.
LEMMA OnlyAnswers ==
  ASSUME NEW s, NEW u, u \in State, Present(s, u, u.card.mode),
         u.card.mode \in {"off", "idle", "ready"}, NEW r1 \in Int,
         NEW t, t = Sd!Ok(Sd!Answer(u, r1))
  PROVE  /\ Present(s, t, u.card.mode) /\ t.r1 = r1 /\ t.reply = "none" /\ ~t.card.app
<1> DEFINE v == Sd!Answer(u, r1)
<1>1. /\ Like(u, v) /\ v.r1 = r1 /\ v.reply = "none" /\ v.card \in Sd!CardState
      /\ v.card.in = u.card.in /\ v.card.model = u.card.model /\ ~v.card.app
      /\ v.card.busy = u.card.busy /\ v.card.mode = u.card.mode
      /\ v.card.sends = u.card.sends /\ v.card.takes = u.card.takes
  BY Answering
<1> HIDE DEF v
<1>2. /\ v \in State /\ v.card.in /\ ~v.card.busy /\ v.card.model = s.card.model
      /\ Sd!SoundCard(v.card)
  BY <1>1 DEF Like, Present, Sound, Sd!SoundCard
<1>3. t = Sd!Ok(v)
  BY DEF v
<1> DEFINE mode == u.card.mode
<1>4. mode \in {"off", "idle", "ready"} /\ v.card.mode = mode
  BY <1>1
<1> HIDE DEF mode
<1>5. Present(s, t, mode) /\ t.r1 = v.r1 /\ t.reply = v.reply /\ t.card = v.card
  BY <1>1, <1>2, <1>3, <1>4, Results
<1> QED BY <1>1, <1>5 DEF mode

\* CMD0: only a card that goes idle answers 1.
LEMMA Reset ==
  ASSUME NEW s, Sound(s), NEW t \in Sd!cardCommand(s, "CMD0", 0)
  PROVE  Sound(t) /\ (t.r1 = 1 => Present(s, t, "idle"))
<1>1. CASE \E u : Hears(s, u) /\ \E v \in Sd!Obeys(u, "CMD0", 0) : t = Sd!Ok(v)
  <2>1. PICK u, v : Hears(s, u) /\ v \in Sd!Obeys(u, "CMD0", 0) /\ t = Sd!Ok(v)
    BY <1>1
  <2>2. v = Idles(Sd!Answer(u, 1))
    BY <2>1 DEF Sd!Obeys, Idles
  <2>3. Present(s, u, s.card.mode) /\ u \in State
    BY <2>1, Heard
  <2> DEFINE w == Sd!Answer(u, 1)
  <2>4. 1 \in Int
    OBVIOUS
  <2>5. /\ Like(u, w) /\ w.card.in = u.card.in /\ w.card.model = u.card.model
        /\ w.card.busy = u.card.busy
    BY ONLY <2>3, <2>4, Answering DEF w
  <2>6. v = Idles(w)
    BY <2>2
  <2> HIDE DEF w
  <2>7. w \in State
    BY <2>5 DEF Like
  <2>8. /\ Like(w, v) /\ v.card \in Sd!CardState /\ v.card.in = w.card.in
        /\ v.card.model = w.card.model /\ v.card.busy = w.card.busy /\ v.card.mode = "idle"
    BY <2>6, <2>7, Idling
  <2>9. v \in State /\ v.card.in /\ ~v.card.busy /\ v.card.model = s.card.model
    BY <2>3, <2>5, <2>8 DEF Present, Like
  <2>10. Present(s, t, "idle")
    BY <2>1, <2>8, <2>9, Results
  <2> QED BY <2>10 DEF Present
<1> QED BY <1>1, Answers

\* The other commands find a card that is not busy.
LEMMA Listens ==
  ASSUME NEW s, Sound(s), ~s.card.busy, NEW cmd, NEW arg, NEW t \in Sd!cardCommand(s, cmd, arg)
  PROVE  \/ Absent(t)
         \/ \E u, v : /\ Present(s, u, s.card.mode) /\ u \in State /\ u.card.app = s.card.app
                      /\ v \in Sd!Obeys(u, cmd, arg) /\ t = Sd!Ok(v)
<1>1. CASE \E u : Hears(s, u) /\ \E v \in Sd!Obeys(u, cmd, arg) : t = Sd!Ok(v)
  BY <1>1, Heard
<1> QED BY <1>1, Answers DEF Absent

\* CMD8: only a card of version 1 answers 5, only the others have a reply.
LEMMA Versions ==
  ASSUME NEW s, Sound(s), s.card.mode \in {"off", "idle"},
         NEW t \in Sd!cardCommand(s, "CMD8", "1AA")
  PROVE  /\ Sound(t) /\ t.card.mode \in {"off", "idle"}
         /\ t.r1 = 5 => Present(s, t, "idle") /\ t.card.model.kind = "SD1"
         /\ t.r1 # 5 /\ t.reply = "AA" => Present(s, t, "idle") /\ t.card.model.kind # "SD1"
<1>1. ~s.card.busy
  BY DEF Sound, Sd!SoundCard
<1>2. CASE Absent(t)
  BY <1>2 DEF Absent
<1>3. CASE \E u, v : /\ Present(s, u, s.card.mode) /\ u \in State /\ u.card.app = s.card.app
                    /\ v \in Sd!Obeys(u, "CMD8", "1AA") /\ t = Sd!Ok(v)
  <2>1. PICK u, v : /\ Present(s, u, s.card.mode) /\ u \in State
                    /\ v \in Sd!Obeys(u, "CMD8", "1AA") /\ t = Sd!Ok(v)
    BY <1>3
  <2>2. u.card.mode = s.card.mode /\ u.card.model = s.card.model
    BY <2>1 DEF Present
  <2>3. \/ u.card.mode = "off" /\ v = Sd!Answer(u, 255)
        \/ u.card.mode = "idle" /\ u.card.model.kind = "SD1" /\ v = Sd!Answer(u, 5)
        \/ u.card.mode = "idle" /\ u.card.model.kind # "SD1" /\ v = Replies(Sd!Answer(u, 1), "AA")
    BY <2>1, <2>2 DEF Sd!Obeys, Sd!Follows, Replies
  <2>4. ASSUME NEW r1 \in Int, v = Sd!Answer(u, r1)
        PROVE  /\ Present(s, t, u.card.mode) /\ t.r1 = r1 /\ t.reply = "none"
    <3>1. u.card.mode \in {"off", "idle", "ready"} /\ Present(s, u, u.card.mode)
      BY <2>1, <2>2
    <3>2. t = Sd!Ok(Sd!Answer(u, r1))
      BY <2>1, <2>4
    <3> QED BY <2>1, <3>1, <3>2, OnlyAnswers
  <2>5. 255 \in Int /\ 5 \in Int /\ 1 \in Int
    OBVIOUS
  <2>6. CASE v = Sd!Answer(u, 255)
    BY <2>2, <2>4, <2>5, <2>6 DEF Present
  <2>7. CASE u.card.mode = "idle" /\ u.card.model.kind = "SD1" /\ v = Sd!Answer(u, 5)
    BY <2>2, <2>4, <2>5, <2>7 DEF Present
  <2>8. CASE /\ u.card.mode = "idle" /\ u.card.model.kind # "SD1"
             /\ v = Replies(Sd!Answer(u, 1), "AA")
    <3> DEFINE w == Sd!Answer(u, 1)
    <3>1. /\ Like(u, w) /\ w.r1 = 1 /\ w.card \in Sd!CardState /\ w.card.in = u.card.in
          /\ w.card.model = u.card.model /\ w.card.busy = u.card.busy
          /\ w.card.mode = u.card.mode
      BY ONLY <2>1, <2>5, Answering DEF w
    <3>2. v = Replies(w, "AA")
      BY <2>8
    <3> HIDE DEF w
    <3>3. w \in State
      BY <3>1 DEF Like
    <3>4. Like(w, v) /\ v.r1 = w.r1 /\ v.card = w.card
      BY <3>2, <3>3, Replying
    <3>5. /\ v \in State /\ v.card \in Sd!CardState /\ v.card.in /\ ~v.card.busy
          /\ v.card.mode = "idle" /\ v.card.model = s.card.model
      BY <2>1, <2>8, <3>1, <3>4 DEF Like, Present
    <3>6. Present(s, t, "idle") /\ t.r1 = v.r1
      BY <2>1, <3>5, Results
    <3> QED BY <2>2, <2>8, <3>1, <3>4, <3>6 DEF Present
  <2> QED BY <2>3, <2>6, <2>7, <2>8
<1> QED BY <1>1, <1>2, <1>3, Listens

\* CMD55, before the card is ready: it stays idle, and waits for the other half.
LEMMA IdleAnnounced ==
  ASSUME NEW s, Sound(s), s.card.mode \in {"off", "idle"},
         NEW t \in Sd!cardCommand(s, "CMD55", 0)
  PROVE  /\ Sound(t) /\ ~t.card.busy
         /\ t.card.mode = "off" \/ (t.card.mode = "idle" /\ t.card.model = s.card.model
                                    /\ s.card.mode = "idle")
<1>1. ~s.card.busy
  BY DEF Sound, Sd!SoundCard
<1>2. CASE Absent(t)
  BY <1>2 DEF Absent
<1>3. CASE \E u, v : /\ Present(s, u, s.card.mode) /\ u \in State /\ u.card.app = s.card.app
                    /\ v \in Sd!Obeys(u, "CMD55", 0) /\ t = Sd!Ok(v)
  <2>1. PICK u, v : /\ Present(s, u, s.card.mode) /\ u \in State
                    /\ v \in Sd!Obeys(u, "CMD55", 0) /\ t = Sd!Ok(v)
    BY <1>3
  <2>2. u.card.mode = s.card.mode /\ u.card.model = s.card.model
    BY <2>1 DEF Present
  <2>3. \/ u.card.mode = "off" /\ v = Sd!Answer(u, 255)
        \/ u.card.mode = "idle" /\ v = AppNext(Sd!Answer(u, 1))
    BY <2>1, <2>2 DEF Sd!Obeys, Sd!Follows, AppNext
  <2>4. CASE u.card.mode = "off" /\ v = Sd!Answer(u, 255)
    <3>1. u.card.mode \in {"off", "idle", "ready"} /\ Present(s, u, u.card.mode) /\ 255 \in Int
      BY <2>1, <2>2
    <3>2. t = Sd!Ok(Sd!Answer(u, 255))
      BY <2>1, <2>4
    <3>3. Present(s, t, u.card.mode)
      BY <2>1, <3>1, <3>2, OnlyAnswers
    <3> QED BY <2>2, <2>4, <3>3 DEF Present
  <2>5. CASE u.card.mode = "idle" /\ v = AppNext(Sd!Answer(u, 1))
    <3> DEFINE w == Sd!Answer(u, 1)
    <3>0. 1 \in Int
      OBVIOUS
    <3>1. /\ Like(u, w) /\ w.card \in Sd!CardState /\ w.card.in = u.card.in
          /\ w.card.model = u.card.model /\ w.card.busy = u.card.busy
          /\ w.card.mode = u.card.mode
      BY ONLY <2>1, <3>0, Answering DEF w
    <3>2. v = AppNext(w)
      BY <2>5
    <3> HIDE DEF w
    <3>3. w \in State
      BY <3>1 DEF Like
    <3>4. /\ Like(w, v) /\ v.card \in Sd!CardState /\ v.card.in = w.card.in
          /\ v.card.model = w.card.model /\ v.card.busy = w.card.busy
          /\ v.card.mode = w.card.mode
      BY <3>2, <3>3, AppNexts
    <3>5. /\ v \in State /\ v.card.in /\ ~v.card.busy
          /\ v.card.mode = "idle" /\ v.card.model = s.card.model
      BY <2>1, <2>5, <3>1, <3>4 DEF Like, Present
    <3>6. Present(s, t, "idle")
      BY <2>1, <3>4, <3>5, Results
    <3> QED BY <2>2, <2>5, <3>6 DEF Present
  <2> QED BY <2>3, <2>4, <2>5
<1> QED BY <1>1, <1>2, <1>3, Listens

\* ACMD41: only a card that is ready answers 0.
LEMMA Initializes ==
  ASSUME NEW s, Sound(s), s.card.mode \in {"off", "idle"}, NEW arg,
         NEW t \in Sd!cardAcmd(s, "ACMD41", arg)
  PROVE  /\ Sound(t) /\ ~t.card.busy
         /\ t.card.mode # "off" => s.card.mode = "idle" /\ t.card.model = s.card.model
         /\ IF t.r1 = 0 THEN t.card.mode = "ready" ELSE t.card.mode \in {"off", "idle"}
<1>1. PICK p \in Sd!cardCommand(s, "CMD55", 0) : t \in Sd!cardCommand(p, "ACMD41", arg)
  BY DEF Sd!cardAcmd
<1>2. /\ Sound(p) /\ ~p.card.busy
      /\ p.card.mode = "off" \/ (p.card.mode = "idle" /\ p.card.model = s.card.model
                                 /\ s.card.mode = "idle")
  BY <1>1, IdleAnnounced
<1>3. CASE Absent(t)
  BY <1>3 DEF Absent
<1>4. CASE \E u, v : /\ Present(p, u, p.card.mode) /\ u \in State /\ u.card.app = p.card.app
                    /\ v \in Sd!Obeys(u, "ACMD41", arg) /\ t = Sd!Ok(v)
  <2>1. PICK u, v : /\ Present(p, u, p.card.mode) /\ u \in State
                    /\ v \in Sd!Obeys(u, "ACMD41", arg) /\ t = Sd!Ok(v)
    BY <1>4
  <2>2. u.card.mode = p.card.mode /\ u.card.model = p.card.model
    BY <2>1 DEF Present
  <2>3. \/ u.card.mode = "off" /\ v = Sd!Answer(u, 255)
        \/ u.card.mode = "idle" /\ v = Sd!Answer(u, 5)
        \/ u.card.mode = "idle" /\ v = Sd!Answer(u, 1)
        \/ u.card.mode = "idle" /\ v = Readies(Sd!Answer(u, 0))
    BY <1>2, <2>1, <2>2 DEF Sd!Obeys, Sd!Follows, Readies
  <2>4. ASSUME NEW r1 \in {255, 5, 1}, v = Sd!Answer(u, r1)
        PROVE  /\ Present(p, t, u.card.mode) /\ t.r1 # 0
    <3>1. u.card.mode \in {"off", "idle", "ready"} /\ Present(p, u, u.card.mode) /\ r1 \in Int
      BY <1>2, <2>1, <2>2
    <3>2. t = Sd!Ok(Sd!Answer(u, r1))
      BY <2>1, <2>4
    <3>3. Present(p, t, u.card.mode) /\ t.r1 = r1
      BY <2>1, <3>1, <3>2, OnlyAnswers
    <3> QED BY <3>3
  <2>5. CASE \E r1 \in {255, 5, 1} : v = Sd!Answer(u, r1)
    BY <1>2, <2>2, <2>4, <2>5 DEF Present
  <2>6. CASE u.card.mode = "idle" /\ v = Readies(Sd!Answer(u, 0))
    <3> DEFINE w == Sd!Answer(u, 0)
    <3>0. 0 \in Int
      OBVIOUS
    <3>1. /\ Like(u, w) /\ w.r1 = 0 /\ w.card \in Sd!CardState /\ w.card.in = u.card.in
          /\ w.card.model = u.card.model /\ w.card.busy = u.card.busy
      BY ONLY <2>1, <3>0, Answering DEF w
    <3>2. v = Readies(w)
      BY <2>6
    <3> HIDE DEF w
    <3>3. w \in State
      BY <3>1 DEF Like
    <3>4. /\ Like(w, v) /\ v.r1 = w.r1 /\ v.card \in Sd!CardState /\ v.card.in = w.card.in
          /\ v.card.model = w.card.model /\ v.card.busy = w.card.busy /\ v.card.mode = "ready"
      BY <3>2, <3>3, Readying
    <3>5. /\ v \in State /\ v.card.in /\ ~v.card.busy /\ v.card.model = p.card.model
      BY <2>1, <3>1, <3>4 DEF Like, Present
    <3>6. Present(p, t, "ready") /\ t.r1 = v.r1
      BY <2>1, <3>4, <3>5, Results
    <3> QED BY <1>2, <2>2, <2>6, <3>1, <3>4, <3>6 DEF Present
  <2> QED BY <2>3, <2>5, <2>6
<1> QED BY <1>1, <1>2, <1>3, <1>4, Listens

\* CMD58: only a card of high capacity has the bit.
LEMMA Capacities ==
  ASSUME NEW s, Sound(s), ~s.card.busy, s.card.mode \in {"off", "ready"},
         NEW t \in Sd!cardCommand(s, "CMD58", 0)
  PROVE  /\ Sound(t)
         /\ t.r1 = 0 => /\ Present(s, t, "ready") /\ s.card.mode = "ready"
                        /\ t.reply = "CCS" <=> t.card.model.kind = "SDHC"
         /\ t.r1 # 0 => t.card.mode = "off"
<1>1. CASE Absent(t)
  BY <1>1 DEF Absent
<1>2. CASE \E u, v : /\ Present(s, u, s.card.mode) /\ u \in State /\ u.card.app = s.card.app
                    /\ v \in Sd!Obeys(u, "CMD58", 0) /\ t = Sd!Ok(v)
  <2>1. PICK u, v : /\ Present(s, u, s.card.mode) /\ u \in State
                    /\ v \in Sd!Obeys(u, "CMD58", 0) /\ t = Sd!Ok(v)
    BY <1>2
  <2>2. u.card.mode = s.card.mode /\ u.card.model = s.card.model
    BY <2>1 DEF Present
  <2> DEFINE r == IF u.card.model.kind = "SDHC" THEN "CCS" ELSE "none"
  <2>3. \/ u.card.mode = "off" /\ v = Sd!Answer(u, 255)
        \/ u.card.mode = "ready" /\ v = Replies(Sd!Answer(u, 0), r)
    BY <2>1, <2>2 DEF Sd!Obeys, Sd!Follows, Replies
  <2>4. r \in {"none", "AA", "CCS"} /\ (r = "CCS" <=> u.card.model.kind = "SDHC")
    OBVIOUS
  <2> HIDE DEF r
  <2>5. CASE u.card.mode = "off" /\ v = Sd!Answer(u, 255)
    <3>1. u.card.mode \in {"off", "idle", "ready"} /\ Present(s, u, u.card.mode) /\ 255 \in Int
      BY <2>1, <2>2
    <3>2. t = Sd!Ok(Sd!Answer(u, 255))
      BY <2>1, <2>5
    <3>3. Present(s, t, u.card.mode) /\ t.r1 = 255
      BY <2>1, <3>1, <3>2, OnlyAnswers
    <3> QED BY <2>5, <3>3 DEF Present
  <2>6. CASE u.card.mode = "ready" /\ v = Replies(Sd!Answer(u, 0), r)
    <3> DEFINE w == Sd!Answer(u, 0)
    <3>0. 0 \in Int
      OBVIOUS
    <3>1. /\ Like(u, w) /\ w.r1 = 0 /\ w.card \in Sd!CardState /\ w.card.in = u.card.in
          /\ w.card.model = u.card.model /\ w.card.busy = u.card.busy
          /\ w.card.mode = u.card.mode
      BY ONLY <2>1, <3>0, Answering DEF w
    <3>2. v = Replies(w, r)
      BY <2>6
    <3> HIDE DEF w
    <3>3. w \in State
      BY <3>1 DEF Like
    <3>4. Like(w, v) /\ v.r1 = w.r1 /\ v.card = w.card /\ v.reply = r
      BY <2>4, <3>2, <3>3, Replying
    <3>5. /\ v \in State /\ v.card \in Sd!CardState /\ v.card.in /\ ~v.card.busy
          /\ v.card.mode = "ready" /\ v.card.model = s.card.model
      BY <2>1, <2>6, <3>1, <3>4 DEF Like, Present
    <3>6. Present(s, t, "ready") /\ t.r1 = v.r1 /\ t.reply = v.reply
      BY <2>1, <3>5, Results
    <3> QED BY <2>2, <2>4, <2>6, <3>1, <3>4, <3>6 DEF Present
  <2> QED BY <2>3, <2>5, <2>6
<1> QED BY <1>1, <1>2, Listens

\* The state a command of begin() finds.
LEMMA Beginning ==
  ASSUME Sd!CardInv, NEW s, s = Sd!Start(sdCard, sdType)
  PROVE  Sound(s) /\ s.card = sdCard /\ s.type = sdType
<1>1. /\ Sd!SoundCard(sdCard) /\ sdType \in {"none", "SD1", "SD2", "SDHC"}
  BY DEF Sd!CardInv, Sd!TypeOK
<1>2. sdCard \in Sd!CardState
  BY <1>1 DEF Sd!SoundCard
<1>3. Sd!Torn \in Content
  BY DEF Content
<1>4. s \in State /\ s.card = sdCard /\ s.type = sdType
  BY <1>1, <1>2, <1>3 DEF State, Sd!Start
<1> QED BY <1>1, <1>4 DEF Sound

\* What begin() leaves behind when a command took it to the next one.
LEMMA Going ==
  ASSUME NEW t, Sound(t), NEW ty, NEW to, Sd!Goes(t, ty, to)
  PROVE  /\ Sd!SoundCard(sdCard') /\ sdCard'.mode = t.card.mode
         /\ sdCard'.model = t.card.model /\ sdCard'.busy = t.card.busy
         /\ sdType' = ty /\ sdStage' = to /\ sdSeq' = sdSeq
         /\ sdSlow' = (sdSlow /\ to # "begun")
<1>1. /\ sdType' = ty /\ sdStage' = to /\ sdSeq' = sdSeq /\ sdSlow' = (sdSlow /\ to # "begun")
      /\ sdCard' = t.card \/ sdCard' = Sd!chipSelectHigh(t).card
  BY DEF Sd!Goes
<1>2. CASE sdCard' = t.card
  BY <1>1, <1>2 DEF Sound
<1>3. CASE sdCard' = Sd!chipSelectHigh(t).card
  <2> DEFINE u == Sd!chipSelectHigh(t)
  <2>1. /\ Like(t, u)
        /\ u.card.in = t.card.in /\ u.card.busy = t.card.busy /\ u.card.mode = t.card.mode
        /\ u.card.takes = t.card.takes /\ u.card.model = t.card.model
        /\ u.card.sends = (IF t.card.mode = "reading" THEN t.card.sends ELSE Sd!None)
    BY Deselecting DEF Sound
  <2>2. sdCard' = u.card
    BY <1>3
  <2> HIDE DEF u
  <2>3. u.card \in Sd!CardState
    BY <2>1 DEF Like, State
  <2>4. Sd!SoundCard(t.card)
    BY DEF Sound
  <2>5. Sd!SoundCard(u.card)
    BY <2>1, <2>3, <2>4 DEF Sd!SoundCard
  <2> QED BY <1>1, <2>1, <2>2, <2>5
<1> QED BY <1>1, <1>2, <1>3

\* What begin() must know of a card to go to a command, or to answer TRUE.
Allows(c, ty, to) ==
  /\ to \in {"CMD8", "ACMD41"} => c.mode \in {"off", "idle"}
  /\ to = "ACMD41" => /\ ty \in {"SD1", "SD2"}
                      /\ c.mode # "off" => (ty = "SD1" <=> c.model.kind = "SD1")
  /\ to = "CMD58" => /\ ty = "SD2" /\ c.mode \in {"off", "ready"} /\ ~c.busy
                     /\ c.mode # "off" => c.model.kind # "SD1"
  /\ to = "begun" => /\ c.mode \in {"off", "ready"}
                     /\ c.mode # "off" => ty = c.model.kind

LEMMA GoesOn ==
  ASSUME Sd!CardInv, sdStage # "begun", NEW t, Sound(t),
         NEW ty \in {"none", "SD1", "SD2", "SDHC"},
         NEW to \in {"none", "CMD0", "CMD8", "ACMD41", "CMD58", "begun"},
         Sd!Goes(t, ty, to), Allows(t.card, ty, to)
  PROVE  Sd!CardInv'
<1>1. /\ Sd!SoundCard(sdCard') /\ sdCard'.mode = t.card.mode
      /\ sdCard'.model = t.card.model /\ sdCard'.busy = t.card.busy
      /\ sdType' = ty /\ sdStage' = to /\ sdSeq' = sdSeq
      /\ sdSlow' = (sdSlow /\ to # "begun")
  BY Going
<1>2. sdSeq = Sd!NoSeq /\ sdSeq.op = "none" /\ sdSeq \in Sequences /\ sdSlow \in BOOLEAN
  BY DEF Sd!CardInv, Sd!TypeOK, Sd!Sequence, Sd!NoSeq, Sequences
<1>3. Sd!TypeOK'
  BY <1>1, <1>2 DEF Sd!TypeOK, Sequences
<1>4. Sd!Known'
  BY <1>1 DEF Sd!Known, Allows
<1>5. Sd!Sequence'
  BY <1>1, <1>2 DEF Sd!Sequence, Sd!InStep, Allows
<1> QED BY <1>3, <1>4, <1>5 DEF Sd!CardInv

LEMMA KindsOfCard ==
  ASSUME NEW t, Sound(t)
  PROVE  t.card.model.kind \in {"SD1", "SD2", "SDHC"}
<1>1. t.card.model \in CardModels
  BY DEF Sound, State, Sd!CardState
<1> QED BY <1>1, CardAssumption DEF Sd!SdCardAssumption, Sd!CardModel

LEMMA GoIdleKeeps ==
  ASSUME Sd!CardInv, Sd!GoIdle
  PROVE  Sd!CardInv'
<1> DEFINE s == Sd!Start(sdCard, sdType)
<1>1. Sound(s) /\ s.card = sdCard /\ s.type = sdType
  BY Beginning
<1>2. PICK t \in Sd!cardCommand(s, "CMD0", 0) :
        IF t.r1 = 1 THEN Sd!Goes(t, sdType, "CMD8")
        ELSE Sd!Goes(t, sdType, "CMD0") \/ Sd!Goes(t, sdType, "none")
  BY DEF Sd!GoIdle
<1> HIDE DEF s
<1>3. Sound(t) /\ (t.r1 = 1 => t.card.mode = "idle")
  BY <1>1, <1>2, Reset DEF Present
<1>4. sdStage # "begun" /\ sdType \in {"none", "SD1", "SD2", "SDHC"}
  BY DEF Sd!GoIdle, Sd!CardInv, Sd!TypeOK
<1>5. PICK to \in {"none", "CMD0", "CMD8"} :
        Sd!Goes(t, sdType, to) /\ Allows(t.card, sdType, to)
  BY <1>2, <1>3 DEF Allows
<1> QED BY <1>3, <1>4, <1>5, GoesOn

LEMMA VersionKeeps ==
  ASSUME Sd!CardInv, Sd!Version
  PROVE  Sd!CardInv'
<1> DEFINE s == Sd!Start(sdCard, sdType)
<1>1. Sound(s) /\ s.card = sdCard /\ s.type = sdType
  BY Beginning
<1>2. PICK t \in Sd!cardCommand(s, "CMD8", "1AA") :
        IF t.r1 = 5 THEN Sd!Goes(t, "SD1", "ACMD41")
        ELSE IF t.reply = "AA" THEN Sd!Goes(t, "SD2", "ACMD41")
        ELSE Sd!Goes(t, sdType, "CMD8") \/ Sd!Goes(t, sdType, "none")
  BY DEF Sd!Version
<1> HIDE DEF s
<1>3. sdStage = "CMD8" /\ sdType \in {"none", "SD1", "SD2", "SDHC"}
  BY DEF Sd!Version, Sd!CardInv, Sd!TypeOK
<1>4. s.card.mode \in {"off", "idle"}
  BY <1>1, <1>3 DEF Sd!CardInv, Sd!Known
<1>5. /\ Sound(t) /\ t.card.mode \in {"off", "idle"}
      /\ t.r1 = 5 => t.card.model.kind = "SD1"
      /\ t.r1 # 5 /\ t.reply = "AA" => t.card.model.kind # "SD1"
  BY <1>1, <1>2, <1>4, Versions
<1>6. PICK ty \in {sdType, "SD1", "SD2"}, to \in {"none", "CMD8", "ACMD41"} :
        Sd!Goes(t, ty, to) /\ Allows(t.card, ty, to)
  BY <1>2, <1>5 DEF Allows
<1> QED BY <1>3, <1>5, <1>6, GoesOn

LEMMA InitializeKeeps ==
  ASSUME Sd!CardInv, Sd!Initialize
  PROVE  Sd!CardInv'
<1> DEFINE s == Sd!Start(sdCard, sdType)
           arg == IF sdType = "SD2" THEN "HCS" ELSE "0"
<1>1. Sound(s) /\ s.card = sdCard /\ s.type = sdType
  BY Beginning
<1>2. PICK t \in Sd!cardAcmd(s, "ACMD41", arg) :
        IF t.r1 = 0 THEN Sd!Goes(t, sdType, IF sdType = "SD2" THEN "CMD58" ELSE "begun")
        ELSE Sd!Goes(t, sdType, "ACMD41") \/ Sd!Goes(t, sdType, "none")
  BY DEF Sd!Initialize
<1> HIDE DEF s, arg
<1>3. sdStage = "ACMD41"
  BY DEF Sd!Initialize
<1>4. /\ s.card.mode \in {"off", "idle"} /\ sdType \in {"SD1", "SD2"}
      /\ s.card.mode # "off" => (sdType = "SD1" <=> s.card.model.kind = "SD1")
  BY <1>1, <1>3 DEF Sd!CardInv, Sd!Known
<1>5. /\ Sound(t) /\ ~t.card.busy
      /\ t.card.mode # "off" => s.card.mode = "idle" /\ t.card.model = s.card.model
      /\ IF t.r1 = 0 THEN t.card.mode = "ready" ELSE t.card.mode \in {"off", "idle"}
  BY <1>1, <1>2, <1>4, Initializes
<1>6. t.card.mode # "off" => (sdType = "SD1" <=> t.card.model.kind = "SD1")
  BY <1>4, <1>5
<1>7. PICK to \in {"none", "ACMD41", "CMD58", "begun"} :
        Sd!Goes(t, sdType, to) /\ Allows(t.card, sdType, to)
  BY <1>2, <1>4, <1>5, <1>6 DEF Allows
<1> QED BY <1>3, <1>4, <1>5, <1>7, GoesOn

LEMMA HighCapacityKeeps ==
  ASSUME Sd!CardInv, Sd!HighCapacity
  PROVE  Sd!CardInv'
<1> DEFINE s == Sd!Start(sdCard, sdType)
<1>1. Sound(s) /\ s.card = sdCard /\ s.type = sdType
  BY Beginning
<1>2. PICK t \in Sd!cardCommand(s, "CMD58", 0) :
        IF t.r1 = 0 THEN Sd!Goes(t, IF t.reply = "CCS" THEN "SDHC" ELSE sdType, "begun")
        ELSE Sd!Goes(t, sdType, "none")
  BY DEF Sd!HighCapacity
<1> HIDE DEF s
<1>3. sdStage = "CMD58"
  BY DEF Sd!HighCapacity
<1>4. /\ sdType = "SD2" /\ s.card.mode \in {"off", "ready"} /\ ~s.card.busy
      /\ s.card.mode # "off" => s.card.model.kind # "SD1"
  BY <1>1, <1>3 DEF Sd!CardInv, Sd!Known
<1>5. /\ Sound(t)
      /\ t.r1 = 0 => /\ t.card.mode = "ready" /\ t.card.model = s.card.model
                     /\ s.card.mode = "ready"
                     /\ t.reply = "CCS" <=> t.card.model.kind = "SDHC"
  BY <1>1, <1>2, <1>4, Capacities DEF Present
<1>6. t.card.model.kind \in {"SD1", "SD2", "SDHC"}
  BY <1>5, KindsOfCard
<1>7. PICK ty \in {"SD2", "SDHC"}, to \in {"none", "begun"} :
        Sd!Goes(t, ty, to) /\ Allows(t.card, ty, to)
  BY <1>2, <1>4, <1>5, <1>6 DEF Allows
<1> QED BY <1>3, <1>5, <1>7, GoesOn

\* Every step of the card and its driver.
LEMMA CardNextKeeps ==
  ASSUME Sd!CardInv, Sd!Next
  PROVE  Sd!CardInv'
<1>1. CASE Sd!begin
  BY <1>1, StartBeginKeeps, GoIdleKeeps, VersionKeeps, InitializeKeeps, HighCapacityKeeps
    DEF Sd!begin
<1>2. CASE \E c \in Sd!Calls : Sd!Carry(c)
  BY <1>2, CarryKeeps
<1> QED BY <1>1, <1>2, InsertKeeps, RemoveKeeps DEF Sd!Next

LEMMA CardStays ==
  ASSUME Sd!CardInv, UNCHANGED Sd!vars
  PROVE  Sd!CardInv'
BY DEF Sd!vars, Sd!CardInv, Sd!TypeOK, Sd!Known, Sd!Sequence

LEMMA CardBegins ==
  ASSUME Sd!Init
  PROVE  Sd!CardInv
<1>1. sdCard = Sd!NoCard /\ sdType = "none" /\ sdStage = "none" /\ sdSeq = Sd!NoSeq /\ sdSlow = FALSE
  BY DEF Sd!Init
<1>2. Sd!NoCard \in Sd!CardState /\ Sd!SoundCard(Sd!NoCard) /\ Sd!NoCard.mode = "off"
  BY Empty DEF Sd!SoundCard
<1>3. Sd!NoSeq \in Sequences /\ Sd!NoSeq.op = "none"
  BY DEF Sequences, Sd!NoSeq, Sd!None
<1>4. Sd!TypeOK /\ Sd!Known /\ Sd!Sequence
  BY <1>1, <1>2, <1>3 DEF Sd!TypeOK, Sd!Known, Sd!Sequence, Sequences
<1> QED BY <1>4 DEF Sd!CardInv

(***************************************************************************)
(* Whatever cards were in the slot and whatever failed before, a call of   *)
(* the driver that answers TRUE has done what it says, to the blocks it    *)
(* was given, and no call changes another block; for what begin() and the  *)
(* calls know of the card is so (Sd2Card::begin, readBlock, writeBlock,    *)
(* erase, the multi-block sequences and cardSize).                         *)
(***************************************************************************)
THEOREM DriverIsExact == DriverSpec => []BlocksAreExact
<1>1. Sd!Init => Sd!CardInv
  BY CardBegins
<1>2. Sd!CardInv /\ [Sd!Next]_(Sd!vars) => Sd!CardInv'
  BY CardNextKeeps, CardStays
<1>3. Sd!CardInv => BlocksAreExact
  BY ExactByCardInv DEF BlocksAreExact
<1> QED BY <1>1, <1>2, <1>3, PTL DEF DriverSpec, Sd!Spec

-----------------------------------------------------------------------------
(***************************************************************************)
(* The size of a card and the rows of the tables.                          *)
(***************************************************************************)

\* Below 64 GB the capacity does not come round.
LEMMA Capacity ==
  ASSUME FormatTypes, Below64GB
  PROVE  /\ kind \in {"SD1", "SD2", "SDHC"} /\ cardSizeBlocks \in Nat \ {0}
         /\ kind = "SDHC" => cardSizeBlocks >= 4 * BU32
         /\ 0 < cardCapacityMB /\ cardCapacityMB <= 65535 /\ cardCapacityMB \in Nat
         /\ 2048 * cardCapacityMB - 2048 < cardSizeBlocks
         /\ cardSizeBlocks <= 2048 * cardCapacityMB
<1>1. /\ kind \in {"SD1", "SD2", "SDHC"} /\ cardSizeBlocks \in Nat \ {0}
      /\ kind = "SDHC" => cardSizeBlocks >= 4 * BU32
  BY FormatterAssumption DEF FormatTypes
<1>2. cardSizeBlocks <= 134215680
  BY <1>1, SMT DEF Below64GB
<1> DEFINE mb == (cardSizeBlocks + 2047) \div 2048
<1>3. /\ mb \in Nat /\ 0 < mb /\ mb <= 65535 /\ 2048 * mb - 2048 < cardSizeBlocks
      /\ cardSizeBlocks <= 2048 * mb
  BY <1>1, <1>2, SMT
<1>4. cardCapacityMB = mb % 65536
  BY DEF cardCapacityMB, Word16
<1> HIDE DEF mb
<1>5. cardCapacityMB = mb
  BY <1>3, <1>4, SMT
<1>6. /\ 0 < cardCapacityMB /\ cardCapacityMB <= 65535 /\ cardCapacityMB \in Nat /\ 2048 * cardCapacityMB - 2048 < cardSizeBlocks
      /\ cardSizeBlocks <= 2048 * cardCapacityMB
  BY <1>3, <1>5, SMT
<1> QED BY <1>1, <1>6, SMT

\* The row is the first that fits.
LEMMA RowFits ==
  ASSUME NEW rows, NEW otherwise, NEW r \in rows, cardCapacityMB \in Nat,
         \A q \in rows : q[1] \in Nat, cardCapacityMB <= r[1],
         \A q \in rows : q = r \/ r[1] < q[1] \/ q[1] < cardCapacityMB
  PROVE  Row(rows, otherwise) = r[2]
<1> DEFINE fit == {q \in rows : cardCapacityMB <= q[1]}
           First(p) == \A q \in fit : p[1] <= q[1]
<1>1. r \in fit /\ First(r)
  OBVIOUS
<1>2. \A p \in fit : First(p) => p = r
  BY <1>1
<1>3. (CHOOSE p \in fit : First(p)) = r
  BY <1>1, <1>2
<1>4. Row(rows, otherwise) = IF fit = {} THEN otherwise ELSE (CHOOSE p \in fit : First(p))[2]
  BY DEF Row
<1> HIDE DEF fit, First
<1> QED BY <1>1, <1>3, <1>4

\* No row fits.
LEMMA NoRowFits ==
  ASSUME NEW rows, NEW otherwise, cardCapacityMB \in Nat,
         \A q \in rows : q[1] \in Nat /\ q[1] < cardCapacityMB
  PROVE  Row(rows, otherwise) = otherwise
<1>1. {q \in rows : cardCapacityMB <= q[1]} = {}
  OBVIOUS
<1> QED BY <1>1 DEF Row

\* The rows of initSizes().
LEMMA SectorsPerCluster ==
  ASSUME cardCapacityMB \in Nat, 0 < cardCapacityMB, cardCapacityMB <= 65535
  PROVE  LET n == Row(ClusterSizes, 128)
             mb == cardCapacityMB
         IN \/ mb <= 16 /\ n = 2
            \/ 16 < mb /\ mb <= 32 /\ n = 4
            \/ 32 < mb /\ mb <= 64 /\ n = 8
            \/ 64 < mb /\ mb <= 128 /\ n = 16
            \/ 128 < mb /\ mb <= 1024 /\ n = 32
            \/ 1024 < mb /\ mb <= 32768 /\ n = 64
            \/ 32768 < mb /\ n = 128
<1> DEFINE mb == cardCapacityMB
<1>1. mb <= 16 => Row(ClusterSizes, 128) = <<16, 2>>[2]
  <2> SUFFICES ASSUME mb <= 16 PROVE Row(ClusterSizes, 128) = <<16, 2>>[2]
    OBVIOUS
  <2>1. <<16, 2>> \in ClusterSizes /\ \A q \in ClusterSizes : q[1] \in Nat /\ (q = <<16, 2>> \/ 16 < q[1])
    BY DEF ClusterSizes
  <2> QED BY <2>1, RowFits
<1>2. 16 < mb /\ mb <= 32 => Row(ClusterSizes, 128) = <<32, 4>>[2]
  <2> SUFFICES ASSUME 16 < mb /\ mb <= 32 PROVE Row(ClusterSizes, 128) = <<32, 4>>[2]
    OBVIOUS
  <2>1. /\ <<32, 4>> \in ClusterSizes
        /\ \A q \in ClusterSizes : q[1] \in Nat /\ (q = <<32, 4>> \/ 32 < q[1] \/ q[1] < 17)
    BY DEF ClusterSizes
  <2> QED BY <2>1, RowFits
<1>3. 32 < mb /\ mb <= 64 => Row(ClusterSizes, 128) = <<64, 8>>[2]
  <2> SUFFICES ASSUME 32 < mb /\ mb <= 64 PROVE Row(ClusterSizes, 128) = <<64, 8>>[2]
    OBVIOUS
  <2>1. /\ <<64, 8>> \in ClusterSizes
        /\ \A q \in ClusterSizes : q[1] \in Nat /\ (q = <<64, 8>> \/ 64 < q[1] \/ q[1] < 33)
    BY DEF ClusterSizes
  <2> QED BY <2>1, RowFits
<1>4. 64 < mb /\ mb <= 128 => Row(ClusterSizes, 128) = <<128, 16>>[2]
  <2> SUFFICES ASSUME 64 < mb /\ mb <= 128 PROVE Row(ClusterSizes, 128) = <<128, 16>>[2]
    OBVIOUS
  <2>1. /\ <<128, 16>> \in ClusterSizes
        /\ \A q \in ClusterSizes : q[1] \in Nat /\ (q = <<128, 16>> \/ 128 < q[1] \/ q[1] < 65)
    BY DEF ClusterSizes
  <2> QED BY <2>1, RowFits
<1>5. 128 < mb /\ mb <= 1024 => Row(ClusterSizes, 128) = <<1024, 32>>[2]
  <2> SUFFICES ASSUME 128 < mb /\ mb <= 1024 PROVE Row(ClusterSizes, 128) = <<1024, 32>>[2]
    OBVIOUS
  <2>1. /\ <<1024, 32>> \in ClusterSizes
        /\ \A q \in ClusterSizes : q[1] \in Nat /\ (q = <<1024, 32>> \/ 1024 < q[1] \/ q[1] < 129)
    BY DEF ClusterSizes
  <2> QED BY <2>1, RowFits
<1>6. 1024 < mb /\ mb <= 32768 => Row(ClusterSizes, 128) = <<32768, 64>>[2]
  <2> SUFFICES ASSUME 1024 < mb /\ mb <= 32768 PROVE Row(ClusterSizes, 128) = <<32768, 64>>[2]
    OBVIOUS
  <2>1. /\ <<32768, 64>> \in ClusterSizes
        /\ \A q \in ClusterSizes : q[1] \in Nat /\ (q = <<32768, 64>> \/ q[1] < 1025)
    BY DEF ClusterSizes
  <2> QED BY <2>1, RowFits
<1>7. 32768 < mb => Row(ClusterSizes, 128) = 128
  <2>1. \A q \in ClusterSizes : q[1] \in Nat /\ q[1] <= 32768
    BY DEF ClusterSizes
  <2> QED BY <2>1, NoRowFits
<1> QED BY <1>1, <1>2, <1>3, <1>4, <1>5, <1>6, <1>7

LEMMA SectorsPerTrack ==
  ASSUME cardCapacityMB \in Nat, 0 < cardCapacityMB, cardCapacityMB <= 65535
  PROVE  LET n == Row(Tracks, 63)
             mb == cardCapacityMB
         IN \/ mb <= 256 /\ n = 32
            \/ 256 < mb /\ n = 63
<1> DEFINE mb == cardCapacityMB
<1>1. <<256, 32>> \in Tracks /\ \A q \in Tracks : q[1] \in Nat /\ q = <<256, 32>> /\ q[1] = 256
  BY DEF Tracks
<1>2. mb <= 256 => Row(Tracks, 63) = <<256, 32>>[2]
  BY <1>1, RowFits
<1>3. 256 < mb => Row(Tracks, 63) = 63
  BY <1>1, NoRowFits
<1> QED BY <1>2, <1>3

LEMMA NumberOfHeads ==
  ASSUME cardCapacityMB \in Nat, 0 < cardCapacityMB, cardCapacityMB <= 65535
  PROVE  LET n == Row(Heads, 255)
             mb == cardCapacityMB
         IN \/ mb <= 16 /\ n = 2
            \/ 16 < mb /\ mb <= 32 /\ n = 4
            \/ 32 < mb /\ mb <= 128 /\ n = 8
            \/ 128 < mb /\ mb <= 504 /\ n = 16
            \/ 504 < mb /\ mb <= 1008 /\ n = 32
            \/ 1008 < mb /\ mb <= 2016 /\ n = 64
            \/ 2016 < mb /\ mb <= 4032 /\ n = 128
            \/ 4032 < mb /\ n = 255
<1> DEFINE mb == cardCapacityMB
<1>1. mb <= 16 => Row(Heads, 255) = <<16, 2>>[2]
  <2> SUFFICES ASSUME mb <= 16 PROVE Row(Heads, 255) = <<16, 2>>[2]
    OBVIOUS
  <2>1. <<16, 2>> \in Heads /\ \A q \in Heads : q[1] \in Nat /\ (q = <<16, 2>> \/ 16 < q[1])
    BY DEF Heads
  <2> QED BY <2>1, RowFits
<1>2. 16 < mb /\ mb <= 32 => Row(Heads, 255) = <<32, 4>>[2]
  <2> SUFFICES ASSUME 16 < mb /\ mb <= 32 PROVE Row(Heads, 255) = <<32, 4>>[2]
    OBVIOUS
  <2>1. /\ <<32, 4>> \in Heads
        /\ \A q \in Heads : q[1] \in Nat /\ (q = <<32, 4>> \/ 32 < q[1] \/ q[1] < 17)
    BY DEF Heads
  <2> QED BY <2>1, RowFits
<1>3. 32 < mb /\ mb <= 128 => Row(Heads, 255) = <<128, 8>>[2]
  <2> SUFFICES ASSUME 32 < mb /\ mb <= 128 PROVE Row(Heads, 255) = <<128, 8>>[2]
    OBVIOUS
  <2>1. /\ <<128, 8>> \in Heads
        /\ \A q \in Heads : q[1] \in Nat /\ (q = <<128, 8>> \/ 128 < q[1] \/ q[1] < 33)
    BY DEF Heads
  <2> QED BY <2>1, RowFits
<1>4. 128 < mb /\ mb <= 504 => Row(Heads, 255) = <<504, 16>>[2]
  <2> SUFFICES ASSUME 128 < mb /\ mb <= 504 PROVE Row(Heads, 255) = <<504, 16>>[2]
    OBVIOUS
  <2>1. /\ <<504, 16>> \in Heads
        /\ \A q \in Heads : q[1] \in Nat /\ (q = <<504, 16>> \/ 504 < q[1] \/ q[1] < 129)
    BY DEF Heads
  <2> QED BY <2>1, RowFits
<1>5. 504 < mb /\ mb <= 1008 => Row(Heads, 255) = <<1008, 32>>[2]
  <2> SUFFICES ASSUME 504 < mb /\ mb <= 1008 PROVE Row(Heads, 255) = <<1008, 32>>[2]
    OBVIOUS
  <2>1. /\ <<1008, 32>> \in Heads
        /\ \A q \in Heads : q[1] \in Nat /\ (q = <<1008, 32>> \/ 1008 < q[1] \/ q[1] < 505)
    BY DEF Heads
  <2> QED BY <2>1, RowFits
<1>6. 1008 < mb /\ mb <= 2016 => Row(Heads, 255) = <<2016, 64>>[2]
  <2> SUFFICES ASSUME 1008 < mb /\ mb <= 2016 PROVE Row(Heads, 255) = <<2016, 64>>[2]
    OBVIOUS
  <2>1. /\ <<2016, 64>> \in Heads
        /\ \A q \in Heads : q[1] \in Nat /\ (q = <<2016, 64>> \/ 2016 < q[1] \/ q[1] < 1009)
    BY DEF Heads
  <2> QED BY <2>1, RowFits
<1>7. 2016 < mb /\ mb <= 4032 => Row(Heads, 255) = <<4032, 128>>[2]
  <2> SUFFICES ASSUME 2016 < mb /\ mb <= 4032 PROVE Row(Heads, 255) = <<4032, 128>>[2]
    OBVIOUS
  <2>1. /\ <<4032, 128>> \in Heads
        /\ \A q \in Heads : q[1] \in Nat /\ (q = <<4032, 128>> \/ q[1] < 2017)
    BY DEF Heads
  <2> QED BY <2>1, RowFits
<1>8. 4032 < mb => Row(Heads, 255) = 255
  <2>1. \A q \in Heads : q[1] \in Nat /\ q[1] <= 4032
    BY DEF Heads
  <2> QED BY <2>1, NoRowFits
<1> QED BY <1>1, <1>2, <1>3, <1>4, <1>5, <1>6, <1>7, <1>8

\* The geometry fits the card: no more than 2^20 clusters, and not more
\* cylinders than a word holds.
LEMMA GeometryFits ==
  ASSUME FormatTypes, Below64GB, geometry = Geometry
  PROVE  LET c == geometry.sectorsPerCluster
             t == geometry.sectorsPerTrack
             h == geometry.numberOfHeads
         IN /\ c \in Shifts /\ c \in 2..128 /\ cardSizeBlocks <= 1048576 * c
            /\ t \in {32, 63} /\ h \in 2..255 /\ cardSizeBlocks <= 65536 * (h * t)
<1> DEFINE c == Row(ClusterSizes, 128)
           t == Row(Tracks, 63)
           h == Row(Heads, 255)
           mb == cardCapacityMB
<1>1. /\ geometry.sectorsPerCluster = c /\ geometry.sectorsPerTrack = t
      /\ geometry.numberOfHeads = h
  BY DEF Geometry
<1>2. mb \in Nat /\ 0 < mb /\ mb <= 65535 /\ cardSizeBlocks \in Nat /\ cardSizeBlocks <= 2048 * mb
  BY Capacity
<1>3. c \in Shifts /\ c \in 2..128 /\ cardSizeBlocks <= 1048576 * c
  <2> HIDE DEF c
  <2>1. \/ mb <= 16 /\ c = 2
        \/ 16 < mb /\ mb <= 32 /\ c = 4
        \/ 32 < mb /\ mb <= 64 /\ c = 8
        \/ 64 < mb /\ mb <= 128 /\ c = 16
        \/ 128 < mb /\ mb <= 1024 /\ c = 32
        \/ 1024 < mb /\ mb <= 32768 /\ c = 64
        \/ 32768 < mb /\ c = 128
    BY <1>2, SectorsPerCluster DEF c
  <2> QED BY <1>2, <2>1 DEF Shifts
<1>4. t \in {32, 63} /\ h \in 2..255 /\ cardSizeBlocks <= 65536 * (h * t)
  <2> HIDE DEF t, h
  <2>1. \/ mb <= 256 /\ t = 32
        \/ 256 < mb /\ t = 63
    BY <1>2, SectorsPerTrack DEF t
  <2>2. \/ mb <= 16 /\ h = 2
        \/ 16 < mb /\ mb <= 32 /\ h = 4
        \/ 32 < mb /\ mb <= 128 /\ h = 8
        \/ 128 < mb /\ mb <= 504 /\ h = 16
        \/ 504 < mb /\ mb <= 1008 /\ h = 32
        \/ 1008 < mb /\ mb <= 2016 /\ h = 64
        \/ 2016 < mb /\ mb <= 4032 /\ h = 128
        \/ 4032 < mb /\ h = 255
    BY <1>2, NumberOfHeads DEF h
  <2> QED BY <1>2, <2>1, <2>2
<1> QED BY <1>1, <1>3, <1>4

-----------------------------------------------------------------------------
(***************************************************************************)
(* Where the data begin.                                                   *)
(***************************************************************************)
LEMMA SmallestIs ==
  ASSUME NEW T, T \subseteq Nat, NEW n \in T
  PROVE  Smallest(T) \in T /\ \A j \in T : Smallest(T) <= j
<1>1. \E k \in T : \A j \in T : k <= j
  BY Least
<1> QED BY <1>1 DEF Smallest

\* Room for the entries of all clusters and the two before them, and no
\* block more.
LEMMA FatSizeIs ==
  ASSUME NEW nc \in Nat, NEW entries \in {128, 256}
  PROVE  LET f == FatSize(nc, entries)
         IN f \in Nat \ {0} /\ nc + 2 <= entries * f /\ entries * f < nc + 2 + entries
BY SMT DEF FatSize

LEMMA ClustersFromIs ==
  ASSUME NEW d \in Nat, cardSizeBlocks \in Nat, d <= cardSizeBlocks,
         geometry.sectorsPerCluster \in Nat \ {0}
  PROVE  LET c == geometry.sectorsPerCluster
             nc == ClustersFrom(d)
         IN /\ nc \in Nat /\ c * nc <= cardSizeBlocks - d
            /\ cardSizeBlocks - d < c * nc + c
<1> DEFINE c == geometry.sectorsPerCluster
           n == cardSizeBlocks - d
<1>1. c \in Nat \ {0} /\ n \in Nat
  OBVIOUS
<1>2. ClustersFrom(d) = n \div c
  BY DEF ClustersFrom
<1> HIDE DEF c, n
<1>3. n \div c \in Nat /\ c * (n \div c) <= n /\ n < c * (n \div c) + c
  BY <1>1, SMT
<1> QED BY <1>2, <1>3 DEF c, n

\* No more clusters than the size allows.
LEMMA FewClusters ==
  ASSUME NEW d \in Nat, cardSizeBlocks \in Nat, d <= cardSizeBlocks,
         geometry.sectorsPerCluster \in Nat \ {0},
         NEW N \in Nat, cardSizeBlocks <= N * geometry.sectorsPerCluster
  PROVE  ClustersFrom(d) \in Nat /\ ClustersFrom(d) <= N
<1> DEFINE c == geometry.sectorsPerCluster
           nc == ClustersFrom(d)
<1>1. c \in Nat \ {0} /\ nc \in Nat /\ c * nc <= cardSizeBlocks
  BY ClustersFromIs
<1> HIDE DEF c, nc
<1>2. cardSizeBlocks <= N * c
  BY DEF c
<1>3. ASSUME nc > N PROVE FALSE
  <2>1. c * nc >= c * (N + 1)
    BY <1>1, <1>3, SMT
  <2>2. c * (N + 1) = N * c + c
    BY <1>1, SMT
  <2> QED BY <1>1, <1>2, <2>1, <2>2, SMT
<1> QED BY <1>1, <1>3, SMT DEF nc

\* The data of FAT16 begin at a boundary after FAT and directory, the sixth
\* at most for a card of up to 65536 clusters.
LEMMA Start16 ==
  ASSUME FormatTypes, Below64GB, geometry = Geometry, cardCapacityMB > 6
  PROVE  \E k \in Nat :
           LET d == 128 * k
           IN /\ Smallest(Fits16) = k /\ d \in Nat /\ d >= Before16(d)
              /\ 256 <= d /\ d <= 8448 /\ d <= cardSizeBlocks
              /\ cardSizeBlocks <= 65536 * geometry.sectorsPerCluster => d <= 768
<1> DEFINE c == geometry.sectorsPerCluster
<1>1. /\ cardSizeBlocks \in Nat /\ cardSizeBlocks > 12288 /\ c \in Nat \ {0}
      /\ cardSizeBlocks <= 1048576 * c
  BY Capacity, GeometryFits, SMT
<1>2. MaxBoundaries \in Nat /\ MaxBoundaries >= 66
  BY FormatterAssumption
<1>3. 66 \in Fits16
  <2>1. ClustersFrom(8448) \in Nat /\ ClustersFrom(8448) <= 1048576
    BY <1>1, FewClusters
  <2>2. /\ FatSize(ClustersFrom(8448), 256) \in Nat
        /\ 256 * FatSize(ClustersFrom(8448), 256) < ClustersFrom(8448) + 2 + 256
    BY <2>1, FatSizeIs
  <2>3. Before16(8448) <= 8448
    BY <2>1, <2>2, SMT DEF Before16, BU16
  <2>4. BU16 * 66 = 8448 /\ 66 \in 2..MaxBoundaries
    BY <1>2 DEF BU16
  <2>5. Before16(8448) \in Int
    BY <2>2 DEF Before16, BU16
  <2> QED BY <2>3, <2>4, <2>5 DEF Fits16
<1>4. cardSizeBlocks <= 65536 * c => 6 \in Fits16
  <2> SUFFICES ASSUME cardSizeBlocks <= 65536 * c PROVE 6 \in Fits16
    OBVIOUS
  <2>1. ClustersFrom(768) \in Nat /\ ClustersFrom(768) <= 65536
    BY <1>1, FewClusters
  <2>2. /\ FatSize(ClustersFrom(768), 256) \in Nat
        /\ 256 * FatSize(ClustersFrom(768), 256) < ClustersFrom(768) + 2 + 256
    BY <2>1, FatSizeIs
  <2>3. Before16(768) <= 768
    BY <2>1, <2>2, SMT DEF Before16, BU16
  <2>4. BU16 * 6 = 768 /\ 6 \in 2..MaxBoundaries
    BY <1>2 DEF BU16
  <2>5. Before16(768) \in Int
    BY <2>2 DEF Before16, BU16
  <2> QED BY <2>3, <2>4, <2>5 DEF Fits16
<1>5. Fits16 \subseteq Nat
  BY <1>2 DEF Fits16
<1> DEFINE k == Smallest(Fits16)
<1>6. k \in Fits16 /\ \A j \in Fits16 : k <= j
  BY <1>3, <1>5, SmallestIs
<1>7. /\ k \in Nat /\ k >= 2 /\ 128 * k >= Before16(128 * k)
      /\ k <= 66 /\ (cardSizeBlocks <= 65536 * c => k <= 6)
  BY <1>2, <1>3, <1>4, <1>5, <1>6 DEF Fits16, BU16
<1> HIDE DEF k
<1>8. /\ 128 * k \in Nat /\ 256 <= 128 * k /\ 128 * k <= 8448
      /\ 128 * k <= cardSizeBlocks /\ (cardSizeBlocks <= 65536 * c => 128 * k <= 768)
  BY <1>1, <1>7, SMT
<1>9. k = Smallest(Fits16)
  BY DEF k
<1> QED BY <1>7, <1>8, <1>9

\* Those of FAT32 begin at the second boundary if that is after the FAT, and
\* else at the third or the fourth.
LEMMA Start32 ==
  ASSUME FormatTypes, Below64GB, geometry = Geometry, kind = "SDHC"
  PROVE  \E k \in Nat :
           LET d == 8192 * k
           IN /\ Smallest(Fits32) = k /\ d \in Nat /\ d >= Before32(d)
              /\ 16384 <= d /\ d <= 32768 /\ d <= cardSizeBlocks
              /\ d = 16384 \/ 16384 < Before32(16384)
<1> DEFINE c == geometry.sectorsPerCluster
<1>1. /\ cardSizeBlocks \in Nat /\ cardSizeBlocks >= 32768 /\ c \in Nat \ {0}
      /\ cardSizeBlocks <= 1048576 * c
  BY Capacity, GeometryFits, SMT DEF BU32
<1>2. MaxBoundaries \in Nat /\ MaxBoundaries >= 66
  BY FormatterAssumption
<1>3. 4 \in Fits32
  <2>1. ClustersFrom(32768) \in Nat /\ ClustersFrom(32768) <= 1048576
    BY <1>1, FewClusters
  <2>2. /\ FatSize(ClustersFrom(32768), 128) \in Nat
        /\ 128 * FatSize(ClustersFrom(32768), 128) < ClustersFrom(32768) + 2 + 128
    BY <2>1, FatSizeIs
  <2>3. Before32(32768) <= 32768 /\ Before32(32768) \in Int
    BY <2>1, <2>2, SMT DEF Before32, BU32
  <2>4. BU32 * 4 = 32768 /\ 4 \in 2..MaxBoundaries
    BY <1>2 DEF BU32
  <2> QED BY <2>3, <2>4 DEF Fits32
<1>4. 2 \in Fits32 \/ 16384 < Before32(16384)
  <2>1. ClustersFrom(16384) \in Nat
    BY <1>1, FewClusters
  <2>2. FatSize(ClustersFrom(16384), 128) \in Nat
    BY <2>1, FatSizeIs
  <2>3. Before32(16384) \in Int
    BY <2>2 DEF Before32, BU32
  <2>4. BU32 * 2 = 16384 /\ 2 \in 2..MaxBoundaries
    BY <1>2 DEF BU32
  <2> QED BY <2>3, <2>4 DEF Fits32
<1>5. Fits32 \subseteq Nat
  BY <1>2 DEF Fits32
<1> DEFINE k == Smallest(Fits32)
<1>6. k \in Fits32 /\ \A j \in Fits32 : k <= j
  BY <1>3, <1>5, SmallestIs
<1>7. /\ k \in Nat /\ k >= 2 /\ 8192 * k >= Before32(8192 * k)
      /\ k <= 4 /\ (2 \in Fits32 => k = 2)
  BY <1>2, <1>3, <1>5, <1>6 DEF Fits32, BU32
<1> HIDE DEF k
<1>8. /\ 8192 * k \in Nat /\ 16384 <= 8192 * k /\ 8192 * k <= 32768
      /\ 8192 * k <= cardSizeBlocks /\ (k = 2 => 8192 * k = 16384)
  BY <1>1, <1>7, SMT
<1>9. k = Smallest(Fits32)
  BY DEF k
<1> QED BY <1>4, <1>7, <1>8, <1>9

\* What the layout of a card comes to, for FAT16 and FAT32.
Counted(l) ==
  LET c == geometry.sectorsPerCluster
  IN /\ l.dataStart \in Nat /\ l.nc \in Nat /\ l.fatSize \in Nat \ {0}
     /\ l.dataStart % 128 = 0 /\ l.dataStart <= cardSizeBlocks
     /\ c * l.nc <= cardSizeBlocks - l.dataStart
     /\ cardSizeBlocks - l.dataStart < c * l.nc + c

Placed16(l) ==
  LET c == geometry.sectorsPerCluster
  IN /\ Counted(l) /\ l.dataStart <= 8448
     /\ cardSizeBlocks <= 65536 * c => l.dataStart <= 768
     /\ l.nc + 2 <= 256 * l.fatSize /\ 256 * l.fatSize < l.nc + 258
     /\ l.relSector \in Nat /\ l.relSector >= 128
     /\ l.relSector = l.dataStart - 33 - 2 * l.fatSize
     /\ l.reservedSectors = 1 /\ l.partSize \in Nat
     /\ l.partSize = c * l.nc + 2 * l.fatSize + 33

Placed32(l) ==
  LET c == geometry.sectorsPerCluster
  IN /\ Counted(l) /\ l.dataStart <= 32768
     /\ l.dataStart = 16384 \/ 16384 < Before32(16384)
     /\ l.nc + 2 <= 128 * l.fatSize /\ 128 * l.fatSize < l.nc + 130
     /\ l.relSector = 8192 /\ l.reservedSectors \in Nat /\ l.reservedSectors >= 9
     /\ l.reservedSectors = l.dataStart - 8192 - 2 * l.fatSize
     /\ l.partSize \in Nat /\ l.partSize = c * l.nc + l.dataStart - 8192

LEMMA Layout16Is ==
  ASSUME FormatTypes, Below64GB, geometry = Geometry, cardCapacityMB > 6
  PROVE  Placed16(Layout16)
<1> DEFINE c == geometry.sectorsPerCluster
           l == Layout16
<1>1. PICK k \in Nat :
        LET d == 128 * k
        IN /\ Smallest(Fits16) = k /\ d \in Nat /\ d >= Before16(d)
           /\ 256 <= d /\ d <= 8448 /\ d <= cardSizeBlocks
           /\ cardSizeBlocks <= 65536 * geometry.sectorsPerCluster => d <= 768
  BY Start16
<1> DEFINE d == 128 * k
           nc == ClustersFrom(d)
           f == FatSize(nc, 256)
<1>2. /\ d \in Nat /\ d >= Before16(d) /\ d <= 8448 /\ d <= cardSizeBlocks
      /\ d % 128 = 0
      /\ cardSizeBlocks <= 65536 * geometry.sectorsPerCluster => d <= 768
  BY <1>1, SMT
<1>3. cardSizeBlocks \in Nat /\ c \in Nat \ {0}
  BY Capacity, GeometryFits, SMT
<1>4. /\ l.dataStart = d /\ l.nc = nc /\ l.fatSize = f /\ l.reservedSectors = 1
      /\ l.relSector = d - Before16(d) + BU16
      /\ l.partSize = nc * c + 2 * f + 1 + 32
  BY <1>1 DEF Layout16, BU16
<1>5. Before16(d) = 128 + 1 + 2 * f + 32
  BY DEF Before16, BU16
<1> HIDE DEF c, l, d, nc, f
<1>6. nc \in Nat /\ c * nc <= cardSizeBlocks - d /\ cardSizeBlocks - d < c * nc + c
  BY <1>2, <1>3, ClustersFromIs DEF c, nc
<1>7. f \in Nat \ {0} /\ nc + 2 <= 256 * f /\ 256 * f < nc + 2 + 256
  BY <1>6, FatSizeIs DEF f
<1>8. Counted(l)
  BY <1>2, <1>4, <1>6, <1>7 DEF Counted, c
<1>9. /\ l.relSector \in Nat /\ l.relSector >= 128
      /\ l.relSector = l.dataStart - 33 - 2 * l.fatSize
  BY <1>2, <1>4, <1>5, <1>7, SMT DEF BU16
<1>10. c * nc \in Nat /\ nc * c = c * nc
  BY <1>3, <1>6, SMT
<1>11. l.partSize \in Nat /\ l.partSize = c * l.nc + 2 * l.fatSize + 33
  BY <1>4, <1>7, <1>10, SMT
<1>12. l.nc + 2 <= 256 * l.fatSize /\ 256 * l.fatSize < l.nc + 258
  BY <1>4, <1>6, <1>7, SMT
<1>13. Placed16(l)
  BY <1>2, <1>4, <1>8, <1>9, <1>11, <1>12 DEF Placed16, c
<1> QED BY <1>13 DEF l

LEMMA Layout32Is ==
  ASSUME FormatTypes, Below64GB, geometry = Geometry, kind = "SDHC"
  PROVE  Placed32(Layout32)
<1> DEFINE c == geometry.sectorsPerCluster
           l == Layout32
<1>1. PICK k \in Nat :
        LET d == 8192 * k
        IN /\ Smallest(Fits32) = k /\ d \in Nat /\ d >= Before32(d)
           /\ 16384 <= d /\ d <= 32768 /\ d <= cardSizeBlocks
           /\ d = 16384 \/ 16384 < Before32(16384)
  BY Start32
<1> DEFINE d == 8192 * k
           nc == ClustersFrom(d)
           f == FatSize(nc, 128)
<1>2. /\ d \in Nat /\ d >= Before32(d) /\ d <= 32768 /\ d <= cardSizeBlocks
      /\ d % 128 = 0 /\ (d = 16384 \/ 16384 < Before32(16384))
  BY <1>1, SMT
<1>3. cardSizeBlocks \in Nat /\ c \in Nat \ {0}
  BY Capacity, GeometryFits, SMT
<1>4. /\ l.dataStart = d /\ l.nc = nc /\ l.fatSize = f
      /\ l.reservedSectors = (d - 8192 - 2 * f) % 65536
      /\ l.relSector = 8192
      /\ l.partSize = nc * c + d - 8192
  BY <1>1 DEF Layout32, BU32, Word16
<1>5. Before32(d) = 8201 + 2 * f
  BY DEF Before32, BU32
<1> HIDE DEF c, l, d, nc, f
<1>6. nc \in Nat /\ c * nc <= cardSizeBlocks - d /\ cardSizeBlocks - d < c * nc + c
  BY <1>2, <1>3, ClustersFromIs DEF c, nc
<1>7. f \in Nat \ {0} /\ nc + 2 <= 128 * f /\ 128 * f < nc + 2 + 128
  BY <1>6, FatSizeIs DEF f
<1>8. Counted(l)
  BY <1>2, <1>4, <1>6, <1>7 DEF Counted, c
<1>9. d - 8192 - 2 * f \in Nat /\ d - 8192 - 2 * f >= 9 /\ d - 8192 - 2 * f < 65536
  BY <1>2, <1>5, <1>7, SMT
<1>10. /\ l.reservedSectors \in Nat /\ l.reservedSectors >= 9
       /\ l.reservedSectors = l.dataStart - 8192 - 2 * l.fatSize
  BY <1>4, <1>9, SMT
<1>11. c * nc \in Nat /\ nc * c = c * nc
  BY <1>3, <1>6, SMT
<1>12. l.partSize \in Nat /\ l.partSize = c * l.nc + l.dataStart - 8192
  BY <1>2, <1>4, <1>9, <1>7, <1>11, SMT
<1>13. l.nc + 2 <= 128 * l.fatSize /\ 128 * l.fatSize < l.nc + 130
  BY <1>4, <1>6, <1>7, SMT
<1>14. Placed32(l)
  BY <1>2, <1>4, <1>8, <1>10, <1>12, <1>13 DEF Placed32, c
<1> QED BY <1>14 DEF l

-----------------------------------------------------------------------------
(***************************************************************************)
(* No card of a usual size is refused.                                     *)
(***************************************************************************)
LEMMA Enough16 ==
  ASSUME FormatTypes, Below64GB, geometry = Geometry, kind # "SDHC", Formattable
  PROVE  ~BadCount(Layout16.nc)
<1> DEFINE c == geometry.sectorsPerCluster
           l == Layout16
           mb == cardCapacityMB
<1>1. /\ cardSizeBlocks \in Nat /\ mb \in Nat /\ 6 < mb /\ mb <= 2048
      /\ 2048 * mb - 2048 < cardSizeBlocks /\ cardSizeBlocks <= 2048 * mb
  BY Capacity DEF Formattable
<1>2. \/ mb <= 16 /\ c = 2
      \/ 16 < mb /\ mb <= 32 /\ c = 4
      \/ 32 < mb /\ mb <= 64 /\ c = 8
      \/ 64 < mb /\ mb <= 128 /\ c = 16
      \/ 128 < mb /\ mb <= 1024 /\ c = 32
      \/ 1024 < mb /\ c = 64
  BY <1>1, SectorsPerCluster DEF Geometry
<1>3. Placed16(l)
  BY <1>1, Layout16Is
<1> HIDE DEF l
<1> DEFINE d == l.dataStart
           nc == l.nc
           f == l.fatSize
<1>4. /\ d \in Nat /\ nc \in Nat /\ f \in Nat
      /\ c * nc <= cardSizeBlocks - d /\ cardSizeBlocks - d < c * nc + c
      /\ nc + 2 <= 256 * f /\ l.relSector = d - 33 - 2 * f /\ l.relSector >= 128
      /\ d % 128 = 0 /\ (cardSizeBlocks <= 65536 * c => d <= 768)
  BY <1>3 DEF Placed16, Counted
<1> HIDE DEF c, mb, d, nc, f
<1>5. cardSizeBlocks <= 65536 * c
  BY <1>1, <1>2, SMT
<1>6. d <= 768 /\ 161 + 2 * f <= d
  BY <1>4, <1>5, SMT
<1>7. nc >= 4085
  BY <1>1, <1>2, <1>4, <1>6, SMT
<1>8. ASSUME nc >= 65525 PROVE FALSE
  <2>1. f >= 256 /\ d >= 673
    BY <1>4, <1>6, <1>8, SMT
  <2>2. d = 768
    BY <1>4, <1>6, <2>1, SMT
  <2>3. c * 65525 <= c * nc /\ c <= 64
    BY <1>2, <1>4, <1>8, SMT
  <2>4. c * 65525 <= 65536 * c - 768
    BY <1>1, <1>2, <1>4, <1>5, <2>2, <2>3, SMT
  <2> QED BY <1>2, <2>4, SMT
<1> QED BY <1>4, <1>7, <1>8, SMT DEF BadCount, nc, l

LEMMA Enough32 ==
  ASSUME FormatTypes, Below64GB, geometry = Geometry, kind = "SDHC", Formattable
  PROVE  ~BadCount(Layout32.nc)
<1> DEFINE c == geometry.sectorsPerCluster
           l == Layout32
           mb == cardCapacityMB
<1>1. /\ cardSizeBlocks \in Nat /\ mb \in Nat /\ 2056 < mb /\ mb <= 65535
      /\ 2048 * mb - 2048 < cardSizeBlocks /\ cardSizeBlocks >= 32768
  BY Capacity, SMT DEF Formattable, BU32
<1>2. \/ mb <= 32768 /\ c = 64
      \/ 32768 < mb /\ c = 128
  BY <1>1, SectorsPerCluster DEF Geometry
<1>3. Placed32(l)
  BY <1>1, Layout32Is
<1> HIDE DEF l
<1> DEFINE d == l.dataStart
           nc == l.nc
           n2 == ClustersFrom(16384)
           f2 == FatSize(n2, 128)
<1>4. /\ d \in Nat /\ nc \in Nat /\ d <= 32768
      /\ cardSizeBlocks - d < c * nc + c
      /\ (d = 16384 \/ 16384 < Before32(16384))
  BY <1>3 DEF Placed32, Counted
<1>5. Before32(16384) = 8201 + 2 * f2
  BY DEF Before32, BU32
<1>6. n2 \in Nat /\ c * n2 <= cardSizeBlocks - 16384
  BY <1>1, <1>2, ClustersFromIs
<1>7. f2 \in Nat /\ 128 * f2 < n2 + 130
  BY <1>6, FatSizeIs
<1> HIDE DEF c, mb, d, nc, n2, f2
<1>8. nc >= 65525
  BY <1>1, <1>2, <1>4, <1>5, <1>6, <1>7, SMT
<1> QED BY <1>4, <1>8, SMT DEF BadCount, nc, l

-----------------------------------------------------------------------------
(***************************************************************************)
(* The two notations of the partition table.                               *)
(***************************************************************************)
LEMMA QuotientBelow ==
  ASSUME NEW n \in Nat, NEW N \in Nat, NEW T \in Nat \ {0}, n < N * T
  PROVE  n \div T \in Nat /\ n \div T < N
<1> DEFINE q == n \div T
<1>1. q \in Nat /\ n = T * q + (n % T) /\ n % T \in Nat
  BY DivRange, DivMod, ModRange
<1> HIDE DEF q
<1>2. ASSUME q >= N PROVE FALSE
  <2>1. T * q >= T * N /\ T * N = N * T
    BY <1>1, <1>2, SMT
  <2> QED BY <1>1, <2>1, SMT
<1> QED BY <1>1, <1>2, SMT DEF q

\* Cylinder, head and sector of a block are a notation of its number.
LEMMA Tracked ==
  ASSUME NEW n \in Nat, NEW h \in Nat \ {0}, NEW t \in Nat \ {0}
  PROVE  LET q == n \div (h * t)
             p == (n % (h * t)) \div t
             u == n % t
         IN /\ h * t \in Nat \ {0} /\ q \in Nat /\ p \in Nat /\ u \in Nat /\ p < h
            /\ (q * h + p) * t + u = n
<1> DEFINE T == h * t
           q == n \div T
           r == n % T
           p == r \div t
           u == r % t
<1>1. T \in Nat \ {0} /\ T = t * h
  <2>1. h * t \in Nat /\ h * t > 0 /\ h * t = t * h
    BY SMT
  <2> QED BY <2>1
<1> HIDE DEF T
<1>2. q \in Nat
  BY <1>1, DivRange
<1>3. r \in Nat /\ r < T /\ n = T * q + r
  <2>1. r \in 0..(T - 1)
    BY <1>1, ModRange
  <2>2. n = T * q + r
    BY <1>1, DivMod
  <2> QED BY <1>1, <2>1, <2>2, SMT
<1> HIDE DEF q, r
<1>4. p \in Nat /\ u \in Nat /\ u < t /\ r = t * p + u
  <2>1. p \in Nat /\ r = t * p + u
    BY <1>3, DivRange, DivMod
  <2>2. u \in 0..(t - 1)
    BY <1>3, ModRange
  <2> QED BY <2>1, <2>2, SMT
<1>5. p < h
  <2>1. r < h * t
    BY <1>3 DEF T
  <2> QED BY <1>3, <2>1, QuotientBelow
<1> HIDE DEF p, u
<1>6. n = t * (h * q + p) + u
  <2>1. T * q = t * (h * q)
    BY <1>1, <1>2, SMT
  <2>2. h * q \in Nat /\ t * (h * q + p) = t * (h * q) + t * p
    BY <1>2, <1>4, SMT
  <2> QED BY <1>3, <1>4, <2>1, <2>2, SMT
<1>7. h * q + p \in Nat
  BY <1>2, <1>4, SMT
<1>8. n % t = u
  BY <1>4, <1>6, <1>7, ModUnique
<1>9. (q * h + p) * t = t * (h * q + p)
  BY <1>2, <1>4, <1>7, SMT
<1>10. (q * h + p) * t + u = n
  BY <1>6, <1>9
<1> QED BY <1>1, <1>2, <1>4, <1>5, <1>8, <1>10 DEF T, q, r, p

Words == 65536      \* a cylinder is a word

LEMMA ChsNames ==
  ASSUME NEW lbn \in Nat, NEW h \in Nat \ {0}, NEW t \in Nat \ {0}, h <= 255,
         geometry.numberOfHeads = h, geometry.sectorsPerTrack = t,
         lbn < Words * (h * t)
  PROVE  (Chs(lbn)[1] * h + Chs(lbn)[2]) * t + Chs(lbn)[3] - 1 = lbn
<1> DEFINE T == h * t
           q == lbn \div T
           p == (lbn % T) \div t
           u == lbn % t
<1>1. /\ T \in Nat \ {0} /\ q \in Nat /\ p \in Nat /\ u \in Nat /\ p < h
      /\ (q * h + p) * t + u = lbn
  BY Tracked
<1>2. q < Words
  <2> HIDE DEF T
  <2>1. lbn < Words * T /\ Words \in Nat
    BY DEF T, Words
  <2> QED BY <1>1, <2>1, QuotientBelow
<1>3. Chs(lbn)[1] = q % 65536 /\ Chs(lbn)[2] = p % 256 /\ Chs(lbn)[3] = u + 1
  BY SMT DEF Chs, lbnToCylinder, lbnToHead, lbnToSector, Track, Word16
<1> HIDE DEF T, q, p, u
<1>4. q % 65536 = q /\ p % 256 = p
  BY <1>1, <1>2, SMT DEF Words
<1>5. (q * h + p) * t \in Int
  BY <1>1, SMT
<1> DEFINE w == (q * h + p) * t
<1>6. w \in Int /\ w + u = lbn
  BY <1>1, <1>5
<1> HIDE DEF w
<1>7. w + (u + 1) - 1 = lbn
  BY <1>1, <1>6, SMT
<1> QED BY <1>3, <1>4, <1>7, SMT DEF w

\* The partition begins on a cylinder there is a notation for.
LEMMA BeginsLow ==
  ASSUME FormatTypes, Below64GB, geometry = Geometry,
         NEW n \in Nat, n < 65536
  PROVE  lbnToCylinder(n) <= 1023
<1> DEFINE h == geometry.numberOfHeads
           t == geometry.sectorsPerTrack
           T == h * t
<1>1. T \in Nat /\ T >= 64 /\ Track = T
  <2>1. h \in Nat /\ h >= 2 /\ t \in {32, 63}
    BY GeometryFits, SMT
  <2> HIDE DEF h, t
  <2>2. h * t \in Nat /\ h * t >= 64
    BY <2>1, SMT
  <2> QED BY <2>2 DEF Track, h, t
<1> HIDE DEF T
<1>2. n < 1024 * T
  BY <1>1, SMT
<1> DEFINE q == n \div T
<1>3. q \in Nat /\ q < 1024
  BY <1>1, <1>2, QuotientBelow
<1>4. lbnToCylinder(n) = q % 65536
  BY <1>1 DEF lbnToCylinder, Word16
<1> HIDE DEF q
<1> QED BY <1>3, <1>4, SMT

-----------------------------------------------------------------------------
(***************************************************************************)
(* The two programs that mount the card.                                   *)
(***************************************************************************)

\* SdVolume::init() on the boot sector of FAT16 and of FAT32.
LEMMA Volume16 ==
  ASSUME Placed16(layout), ~BadCount(layout.nc), kind # "SDHC",
         NEW c \in Shifts, geometry.sectorsPerCluster = c, cardSizeBlocks \in Nat
  PROVE  Volume(layout.relSector, BootSector.bpb) =
           [fatType |-> 16, fatStartBlock |-> fatStart, blocksPerFat |-> layout.fatSize,
            rootDirStart |-> layout.dataStart - 32, dataStartBlock |-> layout.dataStart,
            clusterCount |-> layout.nc, blocksPerCluster |-> c]
<1> DEFINE b == BootSector.bpb
           s == layout.relSector
           f == layout.fatSize
           d == layout.dataStart
           nc == layout.nc
           data == s + 1 + 2 * f + (32 * 512 + 511) \div 512
<1>1. /\ b.SecPerClus = c /\ b.RsvdSecCnt = layout.reservedSectors /\ b.NumFATs = 2
      /\ b.TotSec = layout.partSize /\ b.FATSz = Word16(f) /\ b.RootEntCnt = 512
  BY DEF BootSector
<1>2. /\ c \in Nat \ {0} /\ nc \in Nat /\ 4085 <= nc /\ nc < 65525
  BY SMT DEF Placed16, Counted, BadCount, Shifts
<1>3. /\ d \in Nat /\ f \in Nat /\ f # 0 /\ 256 * f < nc + 258 /\ s \in Nat
      /\ s = d - 33 - 2 * f /\ layout.reservedSectors = 1
      /\ layout.partSize = c * nc + 2 * f + 33
  BY DEF Placed16, Counted
<1> HIDE DEF b, s, f, d, nc
<1>4. Word16(f) = f
  BY <1>2, <1>3, SMT DEF Word16
<1>5. data = d /\ s + 1 + 2 * f = d - 32
  BY <1>3, SMT
<1> HIDE DEF data
<1>6. (b.TotSec - (data - s)) \div c = nc
  <2>1. b.TotSec - (data - s) = c * nc + 0
    <3>1. c * nc \in Nat
      BY <1>2, SMT
    <3> QED BY <1>1, <1>3, <1>5, <3>1, SMT
  <2>2. (c * nc + 0) = c * nc /\ c * nc \in Nat
    BY <1>2, SMT
  <2>3. (c * nc) \div c = nc
    BY <1>2, SMT
  <2> QED BY <2>1, <2>2, <2>3
<1>7. fatStart = s + 1
  BY <1>3 DEF fatStart, s
<1>8. ~(nc < 4085) /\ nc < 65525
  BY <1>2
<1>9. Volume(s, b) =
        [fatType |-> 16, fatStartBlock |-> s + 1, blocksPerFat |-> f,
         rootDirStart |-> s + 1 + 2 * f, dataStartBlock |-> d,
         clusterCount |-> nc, blocksPerCluster |-> c]
  <2> DEFINE fat == s + b.RsvdSecCnt
             root == fat + b.NumFATs * b.FATSz
             first == root + (32 * b.RootEntCnt + 511) \div 512
             count == (b.TotSec - (first - s)) \div b.SecPerClus
             type == IF count < 4085 THEN 12 ELSE IF count < 65525 THEN 16 ELSE 32
  <2>1. fat = s + 1 /\ root = s + 1 + 2 * f /\ first = data
    BY <1>1, <1>3, <1>4, SMT DEF data
  <2>2. count = nc
    BY <1>1, <1>6, <2>1, Zenon
  <2>3. type = 16
    BY <1>8, <2>2
  <2>4. /\ b.NumFATs # 0 /\ b.RsvdSecCnt # 0 /\ b.SecPerClus \in Shifts /\ 16 # 12
        /\ 16 # 32
    BY <1>1, <1>3, SMT
  <2>5. Volume(s, b) =
          IF b.NumFATs = 0 \/ b.RsvdSecCnt = 0 \/ b.SecPerClus \notin Shifts \/ type = 12
          THEN Unformatted
          ELSE [fatType |-> type, fatStartBlock |-> fat, blocksPerFat |-> b.FATSz,
                rootDirStart |-> IF type = 32 THEN b.RootClus ELSE root,
                dataStartBlock |-> first, clusterCount |-> count,
                blocksPerCluster |-> b.SecPerClus]
    BY SMT DEF Volume
  <2> HIDE DEF fat, root, first, count, type
  <2> QED BY <1>1, <1>4, <1>5, <2>1, <2>2, <2>3, <2>4, <2>5, SMT
<1> QED BY <1>5, <1>7, <1>9 DEF b, s, f, d, nc

LEMMA Volume32 ==
  ASSUME Placed32(layout), ~BadCount(layout.nc), kind = "SDHC",
         NEW c \in Shifts, geometry.sectorsPerCluster = c, cardSizeBlocks \in Nat
  PROVE  Volume(layout.relSector, BootSector.bpb) =
           [fatType |-> 32, fatStartBlock |-> fatStart, blocksPerFat |-> layout.fatSize,
            rootDirStart |-> 2, dataStartBlock |-> layout.dataStart,
            clusterCount |-> layout.nc, blocksPerCluster |-> c]
<1> DEFINE b == BootSector.bpb
           s == layout.relSector
           r == layout.reservedSectors
           f == layout.fatSize
           d == layout.dataStart
           nc == layout.nc
<1>1. /\ b.SecPerClus = c /\ b.RsvdSecCnt = r /\ b.NumFATs = 2 /\ b.RootClus = 2
      /\ b.TotSec = layout.partSize /\ b.FATSz = f /\ b.RootEntCnt = 0
  BY DEF BootSector
<1>2. c \in Nat \ {0} /\ nc \in Nat /\ 65525 <= nc
  BY SMT DEF Placed32, Counted, BadCount, Shifts
<1>3. /\ d \in Nat /\ f \in Nat /\ r \in Nat /\ r # 0 /\ s = 8192
      /\ r = d - 8192 - 2 * f /\ layout.partSize = c * nc + d - 8192
  BY SMT DEF Placed32, Counted
<1>4. fatStart = s + r
  BY DEF fatStart
<1> HIDE DEF b, s, r, f, d, nc
<1>5. Volume(s, b) =
        [fatType |-> 32, fatStartBlock |-> s + r, blocksPerFat |-> f,
         rootDirStart |-> 2, dataStartBlock |-> d,
         clusterCount |-> nc, blocksPerCluster |-> c]
  <2> DEFINE fat == s + b.RsvdSecCnt
             root == fat + b.NumFATs * b.FATSz
             first == root + (32 * b.RootEntCnt + 511) \div 512
             count == (b.TotSec - (first - s)) \div b.SecPerClus
             type == IF count < 4085 THEN 12 ELSE IF count < 65525 THEN 16 ELSE 32
  <2>1. fat = s + r /\ root = d
    BY <1>1, <1>3, SMT
  <2>2. first = d
    <3>1. (32 * 0 + 511) \div 512 = 0
      BY SMT
    <3> QED BY <1>1, <1>3, <2>1, <3>1, SMT
  <2>3. count = nc
    <3>1. c * nc \in Nat /\ (c * nc) \div c = nc
      BY <1>2, SMT
    <3>2. b.TotSec - (first - s) = c * nc
      BY <1>1, <1>3, <2>2, <3>1, SMT
    <3> QED BY <1>1, <3>1, <3>2, SMT
  <2>4. type = 32
    BY <1>2, <2>3, SMT
  <2>5. /\ b.NumFATs # 0 /\ b.RsvdSecCnt # 0 /\ b.SecPerClus \in Shifts /\ 32 # 12
    BY <1>1, <1>3, SMT
  <2>6. Volume(s, b) =
          IF b.NumFATs = 0 \/ b.RsvdSecCnt = 0 \/ b.SecPerClus \notin Shifts \/ type = 12
          THEN Unformatted
          ELSE [fatType |-> type, fatStartBlock |-> fat, blocksPerFat |-> b.FATSz,
                rootDirStart |-> IF type = 32 THEN b.RootClus ELSE root,
                dataStartBlock |-> first, clusterCount |-> count,
                blocksPerCluster |-> b.SecPerClus]
    BY SMT DEF Volume
  <2> HIDE DEF fat, root, first, count, type
  <2> QED BY <1>1, <2>1, <2>2, <2>3, <2>4, <2>5, <2>6, SMT
<1> QED BY <1>4, <1>5, SMT DEF b, s, f, d, nc

\* check_fs() and pf_mount() of the boot loader on the same boot sectors.
LEMMA Loader16 ==
  ASSUME Placed16(layout), ~BadCount(layout.nc), kind # "SDHC",
         NEW c \in Shifts, geometry.sectorsPerCluster = c, cardSizeBlocks \in Nat
  PROVE  Pff!Mounted(layout.relSector, BootSector.bpb) =
           [mounted |-> TRUE, fs_type |-> "FAT16", fatbase |-> fatStart, csize |-> c,
            n_rootdir |-> 512, n_fatent |-> layout.nc + 2,
            dirbase |-> layout.dataStart - 32, database |-> layout.dataStart]
<1> DEFINE b == BootSector.bpb
           s == layout.relSector
           f == layout.fatSize
           d == layout.dataStart
           nc == layout.nc
<1>1. /\ b.SecPerClus = c /\ b.RsvdSecCnt = layout.reservedSectors /\ b.NumFATs = 2
      /\ b.TotSec = layout.partSize /\ b.FATSz = Word16(f) /\ b.RootEntCnt = 512
  BY DEF BootSector
<1>2. /\ c \in Nat \ {0} /\ nc \in Nat /\ 4085 <= nc /\ nc < 65525
  BY SMT DEF Placed16, Counted, BadCount, Shifts
<1>3. /\ d \in Nat /\ f \in Nat /\ f # 0 /\ 256 * f < nc + 258 /\ s \in Nat
      /\ s = d - 33 - 2 * f /\ layout.reservedSectors = 1
      /\ layout.partSize = c * nc + 2 * f + 33
  BY SMT DEF Placed16, Counted
<1>4. fatStart = s + 1
  BY <1>3 DEF fatStart
<1> HIDE DEF b, s, f, d, nc
<1>5. Word16(f) = f
  BY <1>2, <1>3, SMT DEF Word16
<1>6. Pff!Mounted(s, b) =
        [mounted |-> TRUE, fs_type |-> "FAT16", fatbase |-> s + 1, csize |-> c,
         n_rootdir |-> 512, n_fatent |-> nc + 2, dirbase |-> d - 32, database |-> d]
  <2> DEFINE fsize == b.FATSz * b.NumFATs
             fatbase == s + b.RsvdSecCnt
             root == b.RootEntCnt \div 16
             clusters == (b.TotSec - b.RsvdSecCnt - fsize - root) \div b.SecPerClus
             mclst == clusters + 2
             type == IF mclst >= 65527 THEN "FAT32" ELSE "FAT16"
             small == mclst < 4087
  <2>1. fsize = 2 * f /\ fatbase = s + 1 /\ root = 32
    BY <1>1, <1>3, <1>5, SMT
  <2>2. clusters = nc
    <3>1. c * nc \in Nat /\ (c * nc) \div c = nc
      BY <1>2, SMT
    <3>2. b.TotSec - b.RsvdSecCnt - fsize - root = c * nc
      BY <1>1, <1>3, <2>1, <3>1, SMT
    <3> QED BY <1>1, <3>1, <3>2, SMT
  <2>3. mclst = nc + 2 /\ type = "FAT16" /\ ~small
    BY <1>2, <2>2, SMT
  <2>4. /\ fatbase + fsize = d - 32 /\ fatbase + fsize + root = d
    BY <1>3, <2>1, SMT
  <2>5. Pff!Mounted(s, b) =
          IF small THEN Pff!NotMounted
          ELSE [mounted |-> TRUE, fs_type |-> type, fatbase |-> fatbase,
                csize |-> b.SecPerClus, n_rootdir |-> b.RootEntCnt, n_fatent |-> mclst,
                dirbase |-> IF type = "FAT32" THEN b.RootClus ELSE fatbase + fsize,
                database |-> fatbase + fsize + root]
    BY SMT DEF Pff!Mounted
  <2> HIDE DEF fsize, fatbase, root, clusters, mclst, type, small
  <2>6. "FAT16" # "FAT32"
    OBVIOUS
  <2> QED BY <1>1, <2>1, <2>3, <2>4, <2>5, <2>6, Zenon
<1> QED BY <1>4, <1>6, SMT DEF b, s, d, nc

LEMMA Loader32 ==
  ASSUME Placed32(layout), ~BadCount(layout.nc), kind = "SDHC",
         NEW c \in Shifts, geometry.sectorsPerCluster = c, cardSizeBlocks \in Nat
  PROVE  Pff!Mounted(layout.relSector, BootSector.bpb) =
           [mounted |-> TRUE, fs_type |-> "FAT32", fatbase |-> fatStart, csize |-> c,
            n_rootdir |-> 0, n_fatent |-> layout.nc + 2,
            dirbase |-> 2, database |-> layout.dataStart]
<1> DEFINE b == BootSector.bpb
           s == layout.relSector
           r == layout.reservedSectors
           f == layout.fatSize
           d == layout.dataStart
           nc == layout.nc
<1>1. /\ b.SecPerClus = c /\ b.RsvdSecCnt = r /\ b.NumFATs = 2 /\ b.RootClus = 2
      /\ b.TotSec = layout.partSize /\ b.FATSz = f /\ b.RootEntCnt = 0
  BY DEF BootSector
<1>2. c \in Nat \ {0} /\ nc \in Nat /\ 65525 <= nc
  BY SMT DEF Placed32, Counted, BadCount, Shifts
<1>3. /\ d \in Nat /\ f \in Nat /\ r \in Nat /\ r # 0 /\ s = 8192
      /\ r = d - 8192 - 2 * f /\ layout.partSize = c * nc + d - 8192
  BY SMT DEF Placed32, Counted
<1>4. fatStart = s + r
  BY DEF fatStart
<1> HIDE DEF b, s, r, f, d, nc
<1>5. Pff!Mounted(s, b) =
        [mounted |-> TRUE, fs_type |-> "FAT32", fatbase |-> s + r, csize |-> c,
         n_rootdir |-> 0, n_fatent |-> nc + 2, dirbase |-> 2, database |-> d]
  <2> DEFINE fsize == b.FATSz * b.NumFATs
             fatbase == s + b.RsvdSecCnt
             root == b.RootEntCnt \div 16
             clusters == (b.TotSec - b.RsvdSecCnt - fsize - root) \div b.SecPerClus
             mclst == clusters + 2
             type == IF mclst >= 65527 THEN "FAT32" ELSE "FAT16"
             small == mclst < 4087
  <2>1. fsize = 2 * f /\ fatbase = s + r /\ root = 0
    BY <1>1, <1>3, SMT
  <2>2. clusters = nc
    <3>1. c * nc \in Nat /\ (c * nc) \div c = nc
      BY <1>2, SMT
    <3>2. b.TotSec - b.RsvdSecCnt - fsize - root = c * nc
      BY <1>1, <1>3, <2>1, <3>1, SMT
    <3> QED BY <1>1, <3>1, <3>2, SMT
  <2>3. mclst = nc + 2 /\ type = "FAT32" /\ ~small
    BY <1>2, <2>2, SMT
  <2>4. fatbase + fsize + root = d
    BY <1>3, <2>1, SMT
  <2>5. Pff!Mounted(s, b) =
          IF small THEN Pff!NotMounted
          ELSE [mounted |-> TRUE, fs_type |-> type, fatbase |-> fatbase,
                csize |-> b.SecPerClus, n_rootdir |-> b.RootEntCnt, n_fatent |-> mclst,
                dirbase |-> IF type = "FAT32" THEN b.RootClus ELSE fatbase + fsize,
                database |-> fatbase + fsize + root]
    BY SMT DEF Pff!Mounted
  <2> HIDE DEF fsize, fatbase, root, clusters, mclst, type, small
  <2>6. "FAT16" # "FAT32"
    OBVIOUS
  <2> QED BY <1>1, <2>1, <2>3, <2>4, <2>5, <2>6, Zenon
<1> QED BY <1>4, <1>5, SMT DEF b, s, d, nc

\* Both find the boot sector by way of the partition table.
LEMMA FoundByTable ==
  ASSUME At(0) = PartitionTable, At(layout.relSector) = BootSector, layout.relSector # 0
  PROVE  /\ volumeInit = Volume(layout.relSector, BootSector.bpb)
         /\ pf_mount = Pff!Mounted(layout.relSector, BootSector.bpb)
<1> DEFINE rel == layout.relSector
           m == [card |-> [kind |-> "SDHC", sector |-> sectors, files |-> <<>>],
                 CardType |-> {"SD2", "BLOCK"}, bad |-> {}]
<1>1. PartitionTable.holds = "partition table" /\ PartitionTable.partition = rel
  BY DEF PartitionTable
<1>2. BootSector.holds = "FAT boot record"
  BY DEF BootSector
<1>3. volumeInit = Volume(rel, BootSector.bpb)
  BY <1>1, <1>2 DEF volumeInit
<1>4. \A x : x \notin DOMAIN sectors => At(x) = [holds |-> "nothing"]
  BY DEF At
<1>5. 0 \in DOMAIN sectors /\ rel \in DOMAIN sectors
  <2>1. [holds |-> "nothing"].holds = "nothing"
    OBVIOUS
  <2>2. "nothing" # "partition table" /\ "nothing" # "FAT boot record"
    OBVIOUS
  <2>3. At(0).holds = "partition table" /\ At(rel).holds = "FAT boot record"
    BY <1>1, <1>2
  <2> QED BY <1>4, <2>1, <2>2, <2>3, Zenon
<1>6. sectors[0] = PartitionTable /\ sectors[rel] = BootSector
  BY <1>5 DEF At
<1>7. \A x \in DOMAIN sectors : Pff!disk_readp(m, x) = sectors[x]
  BY DEF Pff!disk_readp
<1> HIDE DEF m
<1>8. Pff!disk_readp(m, 0) = PartitionTable /\ Pff!disk_readp(m, rel) = BootSector
  BY <1>5, <1>6, <1>7
<1>9. Pff!check_fs(m, 0) = 1 /\ Pff!check_fs(m, rel) = 0
  BY <1>1, <1>2, <1>8 DEF Pff!check_fs
<1>10. m.CardType # {}
  BY DEF m
<1>11. Pff!pf_mount(m) = Pff!Mounted(rel, BootSector.bpb)
  BY <1>1, <1>8, <1>9, <1>10 DEF Pff!pf_mount
<1>12. pf_mount = Pff!pf_mount(m)
  BY DEF pf_mount, m
<1> QED BY <1>3, <1>11, <1>12

-----------------------------------------------------------------------------
(***************************************************************************)
(* What a step leaves alone.                                               *)
(***************************************************************************)
LEMMA SameSizes ==
  ASSUME UNCHANGED card
  PROVE  /\ kind' = kind /\ cardSizeBlocks' = cardSizeBlocks
         /\ cardCapacityMB' = cardCapacityMB /\ Geometry' = Geometry
         /\ Below64GB' <=> Below64GB
         /\ Formattable' <=> Formattable
<1>1. kind' = kind /\ cardSizeBlocks' = cardSizeBlocks
  BY DEF card
<1>2. cardCapacityMB' = cardCapacityMB
  BY <1>1 DEF cardCapacityMB
<1>3. \A rows, otherwise : Row(rows, otherwise)' = Row(rows, otherwise)
  BY <1>2 DEF Row
<1>4. Geometry' = Geometry
  BY <1>3 DEF Geometry
<1> QED BY <1>1, <1>2, <1>4 DEF Below64GB, Formattable

LEMMA SameLayout ==
  ASSUME UNCHANGED <<card, geometry>>
  PROVE  Layout' = Layout /\ (\A nc : BadCount(nc)' <=> BadCount(nc))
<1>1. kind' = kind /\ cardSizeBlocks' = cardSizeBlocks /\ geometry' = geometry
  BY DEF card
<1>2. \A d : ClustersFrom(d)' = ClustersFrom(d)
  BY <1>1 DEF ClustersFrom
<1>3. \A d : Before16(d)' = Before16(d) /\ Before32(d)' = Before32(d)
  BY <1>2 DEF Before16, Before32
<1>4. Fits16' = Fits16 /\ Fits32' = Fits32
  BY <1>3 DEF Fits16, Fits32
<1>5. Layout16' = Layout16 /\ Layout32' = Layout32
  BY <1>1, <1>2, <1>3, <1>4 DEF Layout16, Layout32
<1> QED BY <1>1, <1>5 DEF Layout, BadCount

LEMMA SameTable ==
  ASSUME UNCHANGED <<geometry, layout>>
  PROVE  /\ PartitionTable' = PartitionTable /\ fatStart' = fatStart
         /\ lbnToCylinder(layout.relSector)' = lbnToCylinder(layout.relSector)
<1>1. \A n : /\ lbnToCylinder(n)' = lbnToCylinder(n)
             /\ Chs(n)' = Chs(n)
  BY DEF lbnToCylinder, Chs, lbnToHead, lbnToSector, Track
<1>2. lbnToCylinder(layout.relSector)' = lbnToCylinder(layout.relSector)
  BY DEF lbnToCylinder, Track
<1> QED BY <1>1, <1>2 DEF PartitionTable, fatStart

LEMMA SameBoot ==
  ASSUME UNCHANGED <<card, geometry, layout>>
  PROVE  /\ BootSector' = BootSector /\ FatAndDirectory' = FatAndDirectory
         /\ FirstOfFat' = FirstOfFat
BY DEF BootSector, FatAndDirectory, FirstOfFat, fatStart, card

LEMMA ErasingStays ==
  ASSUME ErasedSoFar, UNCHANGED <<card, option, firstBlock, erased>>, step' # "erase",
         step' = "error" \/ step \notin {"erase", "error"}
  PROVE  ErasedSoFar'
<1>1. cardSizeBlocks' = cardSizeBlocks
  BY DEF card
<1>2. \A k : RangeOf(k)' = RangeOf(k)
  BY <1>1 DEF RangeOf
<1>3. {RangeOf(k) : k \in 0..((firstBlock \div ERASE_SIZE) - 1)}'
        = {RangeOf(k) : k \in 0..((firstBlock \div ERASE_SIZE) - 1)}
  BY <1>2
<1> QED BY <1>1, <1>3 DEF ErasedSoFar

-----------------------------------------------------------------------------
(***************************************************************************)
(* The steps of the sketch.                                                *)
(***************************************************************************)
Found(s, b) == IF b \in DOMAIN s THEN s[b] ELSE [holds |-> "nothing"]

LEMMA PutDomain ==
  \A s, b, content : DOMAIN Put(s, b, content) = DOMAIN s \cup {b}
BY DEF Put

LEMMA PutIs ==
  \A s, b, content :
    /\ Found(Put(s, b, content), b) = content
    /\ \A x : x # b => Found(Put(s, b, content), x) = Found(s, x)
BY DEF Put, Found

\* What is known of the layout of a card that goes on.
LEMMA LaidOutIs ==
  ASSUME FormatTypes, Below64GB, AsLaidOut, LaidOut
  PROVE  /\ cardCapacityMB > 6 /\ geometry = Geometry /\ ~BadCount(layout.nc)
         /\ IF kind = "SDHC" THEN Placed32(layout) ELSE Placed16(layout)
<1>1. /\ cardCapacityMB > 6 /\ geometry = Geometry
      /\ layout = Layout /\ ~BadCount(layout.nc)
  BY DEF AsLaidOut, LaidOut, Chosen
<1>2. kind = "SDHC" => Placed32(layout)
  BY <1>1, Layout32Is DEF Layout
<1>3. kind # "SDHC" => Placed16(layout)
  BY <1>1, Layout16Is DEF Layout
<1> QED BY <1>1, <1>2, <1>3

\* The sectors that are written are different ones.
LEMMA Places ==
  ASSUME FormatTypes, Below64GB, AsLaidOut, LaidOut
  PROVE  /\ layout.relSector \in Nat /\ layout.relSector > 0 /\ layout.relSector < 65536
         /\ fatStart \in Nat /\ fatStart > layout.relSector
         /\ kind = "SDHC" => fatStart > layout.relSector + 8
         /\ layout.fatSize \in Nat /\ layout.fatSize > 0
<1>1. CASE kind = "SDHC"
  <2>1. Placed32(layout)
    BY <1>1, LaidOutIs
  <2> QED BY <1>1, <2>1, SMT DEF Placed32, Counted, fatStart
<1>2. CASE kind # "SDHC"
  <2>1. Placed16(layout)
    BY <1>2, LaidOutIs
  <2> QED BY <1>2, <2>1, SMT DEF Placed16, Counted, fatStart
<1> QED BY <1>1, <1>2

LEMMA EraseKeeps ==
  ASSUME FormatInv, EraseCard
  PROVE  FormatInv'
<1>1. /\ step = "erase" /\ firstBlock \in Nat /\ cardSizeBlocks \in Nat
      /\ cardSizeBlocks' = cardSizeBlocks /\ option' = option /\ refused' = refused
      /\ firstBlock' = firstBlock + ERASE_SIZE /\ sectors' = sectors
      /\ step' = IF firstBlock' < cardSizeBlocks THEN "erase"
                 ELSE IF option = "F" THEN "sizes" ELSE "done"
      /\ FormatTypes /\ ErasedSoFar
  BY FormatterAssumption DEF FormatInv, FormatTypes, EraseCard, card
<1> DEFINE n == firstBlock \div ERASE_SIZE
<1>2. n \in Nat /\ firstBlock = ERASE_SIZE * n /\ firstBlock < cardSizeBlocks
      /\ erased = {RangeOf(k) : k \in 0..(n - 1)}
  BY <1>1, SMT DEF ErasedSoFar, ERASE_SIZE
<1>3. firstBlock' \div ERASE_SIZE = n + 1
  BY <1>1, SMT DEF ERASE_SIZE
<1> HIDE DEF n
<1>4. erased' = {RangeOf(k) : k \in 0..n}
  <2>1. erased' = erased \cup {RangeOf(n)}
    BY <1>2, Zenon DEF EraseCard, RangeOf
  <2>2. 0..n = 0..(n - 1) \cup {n}
    BY <1>2
  <2> QED BY <1>2, <2>1, <2>2
<1>5. \A k : RangeOf(k)' = RangeOf(k)
  BY <1>1 DEF RangeOf
<1>6. ErasedSoFar'
  <2>1. (firstBlock \div ERASE_SIZE)' = n + 1
    BY <1>3
  <2>2. firstBlock' = ERASE_SIZE * (n + 1) /\ n + 1 # 0 /\ (n + 1) - 1 = n
    BY <1>1, <1>2, SMT DEF ERASE_SIZE
  <2>3. erased' = {RangeOf(k)' : k \in 0..((n + 1) - 1)}
    BY <1>4, <1>5, <2>2
  <2>4. ERASE_SIZE * ((n + 1) - 1) < cardSizeBlocks'
    BY <1>1, <1>2, <2>2
  <2>5. /\ step' = "erase" => firstBlock' < cardSizeBlocks'
        /\ step' # "erase" => firstBlock' >= cardSizeBlocks'
    BY <1>1, SMT DEF ERASE_SIZE
  <2> QED BY <2>1, <2>2, <2>3, <2>4, <2>5, Zenon DEF ErasedSoFar
<1>7. FormatTypes'
  <2>1. firstBlock' \in Nat
    BY <1>1 DEF ERASE_SIZE
  <2> QED BY <1>1, <2>1 DEF FormatTypes, EraseCard, card
<1>8. Below64GB' => AsLaidOut' /\ Refusals'
  <2>1. Below64GB' => Below64GB
    BY SameSizes DEF EraseCard
  <2>2. Below64GB' => sectors' = NoSectors'
    BY <1>1, <2>1 DEF FormatInv, AsLaidOut, NoSectors
  <2>3. option' = "E" \/ step' \in {"erase", "sizes"}
    BY <1>1 DEF FormatTypes
  <2>4. step' # "error"
    BY <1>1
  <2> QED BY <2>2, <2>3, <2>4
      DEF AsLaidOut, Refusals, Chosen, LaidOut, Booted, FatCleared, Formatting
<1> QED BY <1>6, <1>7, <1>8 DEF FormatInv

\* The card refuses a command, or the sketch refuses the card.
LEMMA ErrorKeeps ==
  ASSUME FormatInv, step' = "error", step # "erase" \/ option # "Q",
         UNCHANGED <<card, option, firstBlock, erased>>,
         refused' \in BOOLEAN, Below64GB => refused' \/ ~Formattable
  PROVE  FormatInv'
<1>1. FormatTypes'
  BY DEF FormatInv, FormatTypes, card
<1>2. ErasedSoFar'
  BY ErasingStays DEF FormatInv
<1>3. Below64GB' => AsLaidOut' /\ Refusals'
  <2>1. (Below64GB' <=> Below64GB) /\ (Formattable' <=> Formattable)
    BY SameSizes
  <2> QED BY <2>1 DEF AsLaidOut, Refusals, Chosen, LaidOut, Booted, FatCleared, Formatting
<1> QED BY <1>1, <1>2, <1>3 DEF FormatInv

LEMMA FailsKeeps ==
  ASSUME FormatInv, FormatFails
  PROVE  FormatInv'
BY ErrorKeeps DEF FormatFails, FormatInv, FormatTypes

LEMMA initSizesKeeps ==
  ASSUME FormatInv, initSizes
  PROVE  FormatInv'
<1>1. FormatTypes /\ step = "sizes" /\ UNCHANGED <<card, option, refused, firstBlock, erased>>
  BY DEF FormatInv, initSizes, Refuse
<1>2. CASE cardCapacityMB <= 6
  <2>1. step' = "error" /\ refused' \in BOOLEAN
    BY <1>1, <1>2 DEF initSizes, Refuse, FormatTypes
  <2>2. Below64GB => ~Formattable
    BY <1>1, <1>2, Capacity, SMT DEF Formattable
  <2> QED BY <1>1, <2>1, <2>2, ErrorKeeps
<1>3. CASE ~(cardCapacityMB <= 6)
  <2>1. /\ step' = "layout" /\ geometry' = Geometry /\ sectors' = sectors
    BY <1>3 DEF initSizes
  <2>2. ErasedSoFar'
    BY <1>1, <2>1, ErasingStays DEF FormatInv
  <2>3. FormatTypes'
    BY <1>1, <2>1 DEF FormatTypes, card
  <2>4. Below64GB' => AsLaidOut' /\ Refusals'
    <3> SUFFICES ASSUME Below64GB' PROVE AsLaidOut' /\ Refusals'
      OBVIOUS
    <3>1. Below64GB /\ cardCapacityMB' = cardCapacityMB /\ Geometry' = Geometry
      BY <1>1, SameSizes
    <3>2. cardCapacityMB > 6
      BY <1>1, <1>3, <3>1, Capacity
    <3>3. sectors' = NoSectors'
      BY <1>1, <2>1, <3>1 DEF FormatInv, AsLaidOut, NoSectors
    <3>4. cardCapacityMB' > 6 /\ geometry' = Geometry'
      BY <2>1, <3>1, <3>2
    <3> QED BY <2>1, <3>3, <3>4
        DEF AsLaidOut, Refusals, LaidOut, Booted, FatCleared, Formatting, Chosen
  <2> QED BY <2>2, <2>3, <2>4 DEF FormatInv
<1> QED BY <1>2, <1>3

LEMMA formatCardKeeps ==
  ASSUME FormatInv, formatCard
  PROVE  FormatInv'
<1>1. /\ FormatTypes /\ step = "layout" /\ option # "E"
      /\ UNCHANGED <<card, option, refused, geometry, firstBlock, erased>>
  BY DEF FormatInv, FormatTypes, formatCard, Refuse
<1>2. Below64GB => cardCapacityMB > 6 /\ geometry = Geometry
  BY <1>1 DEF FormatInv, AsLaidOut, Chosen, Formatting
<1>3. CASE BadCount(Layout.nc)
  <2>1. step' = "error" /\ refused' \in BOOLEAN
    BY <1>1, <1>3 DEF formatCard, Refuse, FormatTypes
  <2>2. Below64GB => ~Formattable
    BY <1>1, <1>2, <1>3, Enough16, Enough32 DEF Layout
  <2> QED BY <1>1, <2>1, <2>2, ErrorKeeps
<1>4. CASE ~BadCount(Layout.nc)
  <2>1. step' = "mbr" /\ layout' = Layout /\ sectors' = sectors
    BY <1>4 DEF formatCard
  <2>2. ErasedSoFar'
    BY <1>1, <2>1, ErasingStays DEF FormatInv
  <2>3. FormatTypes'
    BY <1>1, <2>1 DEF FormatTypes, card
  <2>4. Below64GB' => AsLaidOut' /\ Refusals'
    <3> SUFFICES ASSUME Below64GB' PROVE AsLaidOut' /\ Refusals'
      OBVIOUS
    <3>1. Below64GB /\ cardCapacityMB' = cardCapacityMB /\ Geometry' = Geometry
      BY <1>1, SameSizes
    <3>2. Layout' = Layout /\ (\A nc : BadCount(nc)' <=> BadCount(nc))
      BY <1>1, SameLayout
    <3>3. sectors' = NoSectors'
      BY <1>1, <2>1, <3>1 DEF FormatInv, AsLaidOut, NoSectors
    <3>4. cardCapacityMB' > 6 /\ geometry' = Geometry'
      BY <1>1, <1>2, <3>1
    <3>5. layout' = Layout' /\ ~BadCount(layout.nc)'
      BY <1>1, <1>4, <2>1, <3>2 DEF BadCount, card
    <3>6. DOMAIN sectors' = {}
      BY <3>3 DEF NoSectors
    <3> QED BY <2>1, <3>3, <3>4, <3>5, <3>6
        DEF AsLaidOut, Refusals, LaidOut, Booted, FatCleared, Formatting, Chosen
  <2> QED BY <2>2, <2>3, <2>4 DEF FormatInv
<1> QED BY <1>3, <1>4

\* The layout is not looked at again.
LEMMA LayoutKept ==
  ASSUME FormatInv, LaidOut, UNCHANGED <<card, option, refused, geometry, layout, firstBlock, erased>>,
         step' \in {"boot", "clear", "reserve", "done"}
  PROVE  /\ FormatTypes' /\ ErasedSoFar'
         /\ Below64GB' => /\ Below64GB /\ cardCapacityMB' > 6 /\ geometry' = Geometry'
                          /\ layout' = Layout' /\ ~BadCount(layout.nc)'
<1>1. FormatTypes /\ option # "E" /\ step # "erase" /\ step # "error"
  BY DEF FormatInv, LaidOut, Chosen, Formatting
<1>2. FormatTypes'
  BY <1>1 DEF FormatTypes, card
<1>3. ErasedSoFar'
  BY <1>1, ErasingStays DEF FormatInv
<1>4. ASSUME Below64GB'
      PROVE  /\ Below64GB /\ cardCapacityMB' > 6 /\ geometry' = Geometry'
             /\ layout' = Layout' /\ ~BadCount(layout.nc)'
  <2>1. /\ Below64GB /\ cardCapacityMB' = cardCapacityMB /\ Geometry' = Geometry
    BY <1>4, SameSizes
  <2>2. Layout' = Layout
    BY SameLayout
  <2>3. /\ cardCapacityMB > 6 /\ geometry = Geometry
        /\ layout = Layout /\ ~BadCount(layout.nc)
    BY <2>1 DEF FormatInv, AsLaidOut, LaidOut, Chosen
  <2>4. ~BadCount(layout.nc)'
    BY <2>3 DEF BadCount, card
  <2> QED BY <2>1, <2>2, <2>3, <2>4
<1> QED BY <1>2, <1>3, <1>4

LEMMA writeMbrKeeps ==
  ASSUME FormatInv, writeMbr
  PROVE  FormatInv'
<1>1. /\ FormatTypes /\ step = "mbr" /\ option # "E" /\ LaidOut
      /\ UNCHANGED <<card, option, refused, geometry, layout, firstBlock, erased>>
  BY DEF FormatInv, FormatTypes, writeMbr, Refuse, LaidOut, Chosen, Formatting
<1>2. CASE lbnToCylinder(layout.relSector) > 1023
  <2>1. step' = "error" /\ refused' \in BOOLEAN
    BY <1>1, <1>2 DEF writeMbr, Refuse, FormatTypes
  <2>2. ~Below64GB
    <3> SUFFICES ASSUME Below64GB PROVE FALSE
      OBVIOUS
    <3>1. AsLaidOut
      BY DEF FormatInv
    <3>2. layout.relSector \in Nat /\ layout.relSector < 65536 /\ geometry = Geometry
      BY <1>1, <3>1, Places, LaidOutIs
    <3>3. lbnToCylinder(layout.relSector) <= 1023
      BY <1>1, <3>2, BeginsLow
    <3>4. lbnToCylinder(layout.relSector) \in Int
      <4>1. Track \in Nat \ {0}
        <5>1. /\ geometry.numberOfHeads \in Nat /\ geometry.numberOfHeads >= 2
              /\ geometry.sectorsPerTrack \in {32, 63}
          BY <1>1, <3>2, GeometryFits, SMT
        <5> QED BY <5>1, SMT DEF Track
      <4>2. layout.relSector \div Track \in Nat
        BY <3>2, <4>1, DivRange
      <4> QED BY <4>2, SMT DEF lbnToCylinder, Word16
    <3> QED BY <1>2, <3>3, <3>4, SMT
  <2> QED BY <1>1, <2>1, <2>2, ErrorKeeps
<1>3. CASE ~(lbnToCylinder(layout.relSector) > 1023)
  <2>1. step' = "boot" /\ sectors' = Put(sectors, 0, PartitionTable)
    BY <1>3 DEF writeMbr
  <2>2. /\ FormatTypes' /\ ErasedSoFar'
        /\ Below64GB' => /\ Below64GB /\ cardCapacityMB' > 6 /\ geometry' = Geometry'
                         /\ layout' = Layout' /\ ~BadCount(layout.nc)'
    BY <1>1, <2>1, LayoutKept
  <2>3. Below64GB' => AsLaidOut' /\ Refusals'
    <3> SUFFICES ASSUME Below64GB' PROVE AsLaidOut' /\ Refusals'
      OBVIOUS
    <3>1. Below64GB /\ AsLaidOut /\ sectors = NoSectors
      BY <1>1, <2>2 DEF FormatInv, AsLaidOut
    <3>2. At(0)' = PartitionTable'
      <4>1. Found(sectors', 0) = PartitionTable
        BY <2>1, PutIs
      <4> QED BY <1>1, <4>1, SameTable DEF Found, At
    <3>3. (lbnToCylinder(layout.relSector) <= 1023)'
      <4>1. layout.relSector \in Nat /\ layout.relSector < 65536 /\ geometry = Geometry
        BY <1>1, <3>1, Places, LaidOutIs
      <4>2. lbnToCylinder(layout.relSector) <= 1023
        BY <1>1, <3>1, <4>1, BeginsLow
      <4> QED BY <1>1, <4>2, SameTable
    <3>4. DOMAIN sectors' = {0}
      <4>1. DOMAIN sectors = {}
        BY <3>1 DEF NoSectors
      <4>2. DOMAIN sectors' = DOMAIN sectors \cup {0}
        BY <2>1, PutDomain, Zenon
      <4> QED BY <4>1, <4>2
    <3> QED BY <2>1, <2>2, <3>2, <3>3, <3>4
        DEF AsLaidOut, Refusals, LaidOut, Booted, FatCleared, Formatting, Chosen
  <2> QED BY <2>2, <2>3 DEF FormatInv
<1> QED BY <1>2, <1>3

LEMMA WriteBootKeeps ==
  ASSUME FormatInv, WriteBoot
  PROVE  FormatInv'
<1> DEFINE rel == layout.relSector
           one == Put(sectors, rel, BootSector)
           x1 == Put(one, rel + 6, BootSector)
           x2 == Put(x1, rel + 2, [holds |-> "signature"])
           x3 == Put(x2, rel + 8, [holds |-> "signature"])
           x4 == Put(x3, rel + 1, [holds |-> "fsinfo"])
           x5 == Put(x4, rel + 7, [holds |-> "fsinfo"])
<1>1. /\ FormatTypes /\ step = "boot" /\ option # "E" /\ LaidOut /\ step' = "clear"
      /\ UNCHANGED <<card, option, refused, geometry, layout, firstBlock, erased>>
      /\ sectors' = IF kind = "SDHC" THEN x5 ELSE one
  BY DEF FormatInv, FormatTypes, WriteBoot, LaidOut, Chosen, Formatting
<1>2. /\ FormatTypes' /\ ErasedSoFar'
      /\ Below64GB' => /\ Below64GB /\ cardCapacityMB' > 6 /\ geometry' = Geometry'
                       /\ layout' = Layout' /\ ~BadCount(layout.nc)'
  BY <1>1, LayoutKept
<1>3. Below64GB' => AsLaidOut' /\ Refusals'
  <2> SUFFICES ASSUME Below64GB' PROVE AsLaidOut' /\ Refusals'
    OBVIOUS
  <2>1. /\ Below64GB /\ AsLaidOut /\ At(0) = PartitionTable
        /\ lbnToCylinder(layout.relSector) <= 1023
    BY <1>1, <1>2 DEF FormatInv, AsLaidOut
  <2>2. rel \in Nat /\ rel > 0
    BY <1>1, <2>1, Places
  <2>3. 0 # rel /\ \A i \in {1, 2, 6, 7, 8} : rel + i # rel /\ rel + i # 0
    BY <2>2
  <2> HIDE DEF rel, one, x1, x2, x3, x4, x5
  <2>4. Found(one, 0) = Found(sectors, 0) /\ Found(one, rel) = BootSector
    BY <2>3, PutIs DEF one
  <2>5. Found(x1, 0) = Found(one, 0) /\ Found(x1, rel) = Found(one, rel)
    BY <2>3, PutIs DEF x1
  <2>6. Found(x2, 0) = Found(x1, 0) /\ Found(x2, rel) = Found(x1, rel)
    BY <2>3, PutIs DEF x2
  <2>7. Found(x3, 0) = Found(x2, 0) /\ Found(x3, rel) = Found(x2, rel)
    BY <2>3, PutIs DEF x3
  <2>8. Found(x4, 0) = Found(x3, 0) /\ Found(x4, rel) = Found(x3, rel)
    BY <2>3, PutIs DEF x4
  <2>9. Found(x5, 0) = Found(x4, 0) /\ Found(x5, rel) = Found(x4, rel)
    BY <2>3, PutIs DEF x5
  <2>10. Found(sectors', 0) = Found(sectors, 0) /\ Found(sectors', rel) = BootSector
    BY <1>1, <2>4, <2>5, <2>6, <2>7, <2>8, <2>9
  <2>11. At(0)' = PartitionTable' /\ (lbnToCylinder(layout.relSector) <= 1023)'
    BY <1>1, <2>1, <2>10, SameTable DEF Found, At
  <2>12. At(layout.relSector)' = BootSector'
    <3>1. layout'.relSector = rel
      BY <1>1 DEF rel
    <3> QED BY <1>1, <2>10, <3>1, SameBoot DEF Found, At
  <2>13. kind' # "SDHC" =>
           DOMAIN sectors' \subseteq {0, layout.relSector, fatStart, fatStart + layout.fatSize}'
    <3> SUFFICES ASSUME kind' # "SDHC"
                 PROVE  DOMAIN sectors' \subseteq {0, layout'.relSector, fatStart', fatStart' + layout'.fatSize}
      OBVIOUS
    <3>1. kind # "SDHC" /\ sectors' = one
      BY <1>1 DEF card
    <3>2. DOMAIN sectors \subseteq {0, rel, fatStart, fatStart + layout.fatSize}
      BY <1>1, <2>1, <3>1 DEF AsLaidOut, rel
    <3>3. DOMAIN one = DOMAIN sectors \cup {rel}
      BY PutDomain, Zenon DEF one
    <3>4. fatStart' = fatStart /\ layout' = layout
      BY <1>1, SameTable
    <3> QED BY <3>1, <3>2, <3>3, <3>4 DEF rel
  <2> QED BY <1>1, <1>2, <2>11, <2>12, <2>13
      DEF AsLaidOut, Refusals, LaidOut, Booted, FatCleared, Formatting, Chosen
<1> QED BY <1>2, <1>3 DEF FormatInv

LEMMA clearFatDirKeeps ==
  ASSUME FormatInv, clearFatDir
  PROVE  FormatInv'
<1>1. /\ FormatTypes /\ step = "clear" /\ option # "E" /\ LaidOut /\ step' = "reserve"
      /\ UNCHANGED <<card, option, refused, geometry, layout, firstBlock, erased>>
      /\ sectors' = sectors /\ zeroed' = FatAndDirectory
  BY DEF FormatInv, FormatTypes, clearFatDir, LaidOut, Chosen, Formatting
<1>2. /\ FormatTypes' /\ ErasedSoFar'
      /\ Below64GB' => /\ Below64GB /\ cardCapacityMB' > 6 /\ geometry' = Geometry'
                       /\ layout' = Layout' /\ ~BadCount(layout.nc)'
  BY <1>1, LayoutKept
<1>3. Below64GB' => AsLaidOut' /\ Refusals'
  <2> SUFFICES ASSUME Below64GB' PROVE AsLaidOut' /\ Refusals'
    OBVIOUS
  <2>1. /\ Below64GB /\ AsLaidOut /\ At(0) = PartitionTable
        /\ lbnToCylinder(layout.relSector) <= 1023 /\ At(layout.relSector) = BootSector
        /\ kind # "SDHC" =>
             DOMAIN sectors \subseteq {0, layout.relSector, fatStart, fatStart + layout.fatSize}
    BY <1>1, <1>2 DEF FormatInv, AsLaidOut, Booted
  <2>2. At(0)' = PartitionTable' /\ (lbnToCylinder(layout.relSector) <= 1023)'
    BY <1>1, <2>1, SameTable DEF At
  <2>3. At(layout.relSector)' = BootSector' /\ zeroed' = FatAndDirectory'
    BY <1>1, <2>1, SameBoot DEF At
  <2>4. kind' # "SDHC" =>
          DOMAIN sectors' \subseteq {0, layout'.relSector, fatStart', fatStart' + layout'.fatSize}
    BY <1>1, <2>1, SameTable DEF card
  <2> QED BY <1>1, <1>2, <2>2, <2>3, <2>4
      DEF AsLaidOut, Refusals, LaidOut, Booted, FatCleared, Formatting, Chosen
<1> QED BY <1>2, <1>3 DEF FormatInv

LEMMA ReserveKeeps ==
  ASSUME FormatInv, Reserve
  PROVE  FormatInv'
<1> DEFINE rel == layout.relSector
           copy == fatStart + layout.fatSize
           one == Put(sectors, fatStart, FirstOfFat)
           two == Put(one, copy, FirstOfFat)
<1>1. /\ FormatTypes /\ step = "reserve" /\ option # "E" /\ LaidOut /\ step' = "done"
      /\ UNCHANGED <<card, option, refused, geometry, layout, firstBlock, erased>>
      /\ sectors' = two /\ zeroed' = zeroed
  BY DEF FormatInv, FormatTypes, Reserve, LaidOut, Chosen, Formatting
<1>2. /\ FormatTypes' /\ ErasedSoFar'
      /\ Below64GB' => /\ Below64GB /\ cardCapacityMB' > 6 /\ geometry' = Geometry'
                       /\ layout' = Layout' /\ ~BadCount(layout.nc)'
  BY <1>1, LayoutKept
<1>3. Below64GB' => AsLaidOut' /\ Refusals'
  <2> SUFFICES ASSUME Below64GB' PROVE AsLaidOut' /\ Refusals'
    OBVIOUS
  <2>1. /\ Below64GB /\ AsLaidOut /\ At(0) = PartitionTable
        /\ lbnToCylinder(layout.relSector) <= 1023 /\ At(layout.relSector) = BootSector
        /\ zeroed = FatAndDirectory
        /\ kind # "SDHC" => DOMAIN sectors \subseteq {0, rel, fatStart, copy}
    BY <1>1, <1>2 DEF FormatInv, AsLaidOut, Booted, FatCleared
  <2>2. /\ fatStart # 0 /\ fatStart # rel /\ copy # 0 /\ copy # rel /\ copy # fatStart
    BY <1>1, <2>1, Places, SMT
  <2> HIDE DEF rel, copy, one, two
  <2>3. /\ Found(one, 0) = Found(sectors, 0) /\ Found(one, rel) = Found(sectors, rel)
        /\ Found(one, fatStart) = FirstOfFat
    BY <2>2, PutIs DEF one
  <2>4. /\ Found(two, 0) = Found(one, 0) /\ Found(two, rel) = Found(one, rel)
        /\ Found(two, fatStart) = Found(one, fatStart)
    BY <2>2, PutIs DEF two
  <2>5. At(0)' = PartitionTable' /\ (lbnToCylinder(layout.relSector) <= 1023)'
    BY <1>1, <2>1, <2>3, <2>4, SameTable DEF Found, At
  <2>6. layout' = layout /\ layout'.relSector = rel /\ fatStart' = fatStart
    BY <1>1, SameTable DEF rel
  <2>7. At(layout.relSector)' = BootSector' /\ zeroed' = FatAndDirectory'
    <3>1. At(rel) = Found(sectors, rel) /\ At(rel) = BootSector
      BY <2>1 DEF Found, At, rel
    <3>2. Found(sectors', rel) = BootSector
      BY <1>1, <2>3, <2>4, <3>1
    <3> QED BY <1>1, <2>1, <2>6, <3>2, SameBoot DEF Found, At
  <2>8. At(fatStart)' = FirstOfFat'
    <3>1. Found(sectors', fatStart) = FirstOfFat
      BY <1>1, <2>3, <2>4
    <3> QED BY <1>1, <2>6, <3>1, SameBoot DEF Found, At
  <2>9. kind' # "SDHC" =>
          DOMAIN sectors' \subseteq {0, layout'.relSector, fatStart', fatStart' + layout'.fatSize}
    <3>1. kind' = kind /\ fatStart' + layout'.fatSize = copy
      BY <1>1, <2>6 DEF card, copy
    <3>2. DOMAIN one = DOMAIN sectors \cup {fatStart}
      BY PutDomain, Zenon DEF one
    <3>3. DOMAIN two = DOMAIN one \cup {copy}
      BY PutDomain, Zenon DEF two
    <3> QED BY <1>1, <2>1, <2>6, <3>1, <3>2, <3>3
  <2> QED BY <1>1, <1>2, <2>5, <2>7, <2>8, <2>9
      DEF AsLaidOut, Refusals, LaidOut, Booted, FatCleared, Formatting, Chosen
<1> QED BY <1>2, <1>3 DEF FormatInv

LEMMA FormatBegins ==
  ASSUME FormatInit
  PROVE  FormatInv
<1>1. /\ <<kind, cardSizeBlocks>> \in CardSizes /\ cardSizeBlocks \in Nat \ {0}
      /\ option \in {"E", "F", "Q"} /\ step = IF option = "Q" THEN "sizes" ELSE "erase"
      /\ refused = FALSE /\ firstBlock = 0 /\ erased = {} /\ sectors = NoSectors
  <2>1. PICK c \in CardSizes : kind = c[1] /\ cardSizeBlocks = c[2]
    BY DEF FormatInit
  <2>2. c = <<kind, cardSizeBlocks>> /\ cardSizeBlocks \in Nat \ {0}
    BY <2>1, FormatterAssumption
  <2> QED BY <2>1, <2>2 DEF FormatInit
<1>2. FormatTypes
  BY <1>1 DEF FormatTypes
<1>3. ErasedSoFar
  <2>1. firstBlock \div ERASE_SIZE = 0
    BY <1>1 DEF ERASE_SIZE
  <2>2. {RangeOf(k) : k \in 0..(0 - 1)} = {} /\ ERASE_SIZE * 0 = 0
    BY DEF ERASE_SIZE
  <2>3. firstBlock < cardSizeBlocks
    BY <1>1
  <2> QED BY <1>1, <2>1, <2>2, <2>3 DEF ErasedSoFar
<1>4. AsLaidOut /\ Refusals
  BY <1>1 DEF AsLaidOut, Refusals, LaidOut, Booted, FatCleared, Formatting, Chosen
<1> QED BY <1>2, <1>3, <1>4 DEF FormatInv

LEMMA FormatStays ==
  ASSUME FormatInv, UNCHANGED formatVars
  PROVE  FormatInv'
<1>1. /\ UNCHANGED <<card, option, step, refused, geometry, layout, firstBlock, erased, sectors, zeroed>>
  BY DEF formatVars
<1>2. FormatTypes'
  BY <1>1 DEF FormatInv, FormatTypes, card
<1>3. ErasedSoFar'
  <2>1. \A k : RangeOf(k)' = RangeOf(k)
    BY <1>1 DEF RangeOf, card
  <2> QED BY <1>1, <2>1 DEF FormatInv, ErasedSoFar, card
<1>4. Below64GB' => AsLaidOut' /\ Refusals'
  <2> SUFFICES ASSUME Below64GB' PROVE AsLaidOut' /\ Refusals'
    OBVIOUS
  <2>1. /\ Below64GB /\ cardCapacityMB' = cardCapacityMB /\ Geometry' = Geometry
        /\ kind' = kind /\ (Formattable' <=> Formattable)
    BY <1>1, SameSizes
  <2>2. AsLaidOut /\ Refusals
    BY <2>1 DEF FormatInv
  <2>3. Layout' = Layout /\ (BadCount(layout.nc)' <=> BadCount(layout.nc))
    BY <1>1, SameLayout DEF BadCount, card
  <2>4. /\ PartitionTable' = PartitionTable /\ fatStart' = fatStart
        /\ lbnToCylinder(layout.relSector)' = lbnToCylinder(layout.relSector)
    BY <1>1, SameTable
  <2>5. BootSector' = BootSector /\ FatAndDirectory' = FatAndDirectory /\ FirstOfFat' = FirstOfFat
    BY <1>1, SameBoot
  <2>6. \A b : At(b)' = At(b)
    BY <1>1 DEF At
  <2>7. /\ (Chosen' <=> Chosen) /\ (LaidOut' <=> LaidOut) /\ (Booted' <=> Booted)
        /\ (FatCleared' <=> FatCleared) /\ (Formatting' <=> Formatting)
    BY <1>1 DEF Chosen, LaidOut, Booted, FatCleared, Formatting
  <2>8. At(0)' = At(0) /\ At(layout.relSector)' = At(layout.relSector) /\ At(fatStart)' = At(fatStart)
    BY <1>1, <2>4 DEF At
  <2> QED BY <1>1, <2>1, <2>2, <2>3, <2>4, <2>5, <2>7, <2>8 DEF AsLaidOut, Refusals, NoSectors
<1> QED BY <1>2, <1>3, <1>4 DEF FormatInv

-----------------------------------------------------------------------------
(***************************************************************************)
(* The card at the end.                                                    *)
(***************************************************************************)

\* The ranges cover the card, each block once.
LEMMA ErasedWhole ==
  ASSUME FormatInv, step = "done", option # "Q"
  PROVE  /\ \A e1, e2 \in erased : e1 # e2 => e1[2] < e2[1] \/ e2[2] < e1[1]
         /\ \E e \in erased : e[2] = cardSizeBlocks - 1
         /\ \A e \in erased : e[1] = 0 \/ \E d \in erased : d[2] + 1 = e[1]
<1> DEFINE n == firstBlock \div ERASE_SIZE
           E == ERASE_SIZE
<1>1. /\ E \in Nat \ {0} /\ cardSizeBlocks \in Nat \ {0} /\ n \in Nat
      /\ erased = {RangeOf(k) : k \in 0..(n - 1)}
      /\ firstBlock = E * n /\ firstBlock >= cardSizeBlocks
      /\ n # 0 => E * (n - 1) < cardSizeBlocks
  BY FormatterAssumption DEF FormatInv, FormatTypes, ErasedSoFar, ERASE_SIZE
<1> HIDE DEF n, E
<1>2. n # 0 /\ E * (n - 1) < cardSizeBlocks /\ E * n >= cardSizeBlocks
  BY <1>1, SMT
<1>3. \A k \in 0..(n - 1) : /\ RangeOf(k)[1] = E * k
                            /\ RangeOf(k)[2] = Lesser(E * k + E, cardSizeBlocks) - 1
  BY DEF RangeOf, E
<1>4. ASSUME NEW k \in Nat, k < n - 1 PROVE RangeOf(k)[2] = E * k + E - 1
  <2>1. E * k + E = E * (k + 1) /\ E * (k + 1) <= E * (n - 1) /\ E * k \in Nat
    BY <1>1, <1>4, SMT
  <2>2. Lesser(E * k + E, cardSizeBlocks) = E * k + E
    BY <1>1, <1>2, <2>1, SMT DEF Lesser
  <2> QED BY <1>1, <1>3, <1>4, <2>2
<1>5. RangeOf(n - 1)[2] = cardSizeBlocks - 1
  <2>1. E * (n - 1) + E = E * n /\ E * n \in Nat
    BY <1>1, <1>2, SMT
  <2>2. Lesser(E * (n - 1) + E, cardSizeBlocks) = cardSizeBlocks
    BY <1>1, <1>2, <2>1, SMT DEF Lesser
  <2> QED BY <1>1, <1>2, <1>3, <2>2
<1>6. ASSUME NEW j \in 0..(n - 1), NEW k \in 0..(n - 1), j < k
      PROVE  RangeOf(j)[2] < RangeOf(k)[1]
  <2>1. RangeOf(j)[2] = E * j + E - 1
    BY <1>1, <1>4, <1>6
  <2>2. E * j + E = E * (j + 1) /\ E * (j + 1) <= E * k /\ E * j \in Nat /\ E * k \in Nat
    BY <1>1, <1>6, SMT
  <2> QED BY <1>1, <1>3, <2>1, <2>2, SMT
<1>7. \A e1, e2 \in erased : e1 # e2 => e1[2] < e2[1] \/ e2[2] < e1[1]
  <2> SUFFICES ASSUME NEW j \in 0..(n - 1), NEW k \in 0..(n - 1), RangeOf(j) # RangeOf(k)
               PROVE  RangeOf(j)[2] < RangeOf(k)[1] \/ RangeOf(k)[2] < RangeOf(j)[1]
    BY <1>1
  <2>1. j < k \/ k < j
    BY <1>1
  <2> QED BY <1>6, <2>1
<1>8. \E e \in erased : e[2] = cardSizeBlocks - 1
  BY <1>1, <1>2, <1>5
<1>9. ASSUME NEW k \in 0..(n - 1)
      PROVE  RangeOf(k)[1] = 0 \/ \E d \in erased : d[2] + 1 = RangeOf(k)[1]
  <2>1. CASE k = 0
    BY <1>1, <1>3, <2>1
  <2>2. CASE k # 0
    <3>1. k - 1 \in Nat /\ k - 1 < n - 1 /\ k - 1 \in 0..(n - 1)
      BY <1>1, <2>2
    <3>2. RangeOf(k - 1)[2] = E * (k - 1) + E - 1
      BY <1>4, <3>1
    <3>3. E * (k - 1) + E = E * k /\ E * k \in Nat /\ E * (k - 1) \in Nat
      BY <1>1, <3>1, SMT
    <3>4. RangeOf(k - 1)[2] + 1 = RangeOf(k)[1]
      BY <1>1, <1>3, <3>2, <3>3, SMT
    <3> QED BY <1>1, <3>1, <3>4
  <2> QED BY <2>1, <2>2
<1>10. \A e \in erased : e[1] = 0 \/ \E d \in erased : d[2] + 1 = e[1]
  BY <1>1, <1>9
<1> QED BY <1>7, <1>8, <1>10

\* Both notations of the partition table name its blocks.
LEMMA TableNames ==
  ASSUME FormatTypes, Below64GB, geometry = Geometry,
         layout.relSector \in Nat, layout.partSize \in Nat \ {0},
         layout.relSector + layout.partSize <= cardSizeBlocks
  PROVE  LET mbr == PartitionTable
             Lbn(c) == (c[1] * geometry.numberOfHeads + c[2]) * geometry.sectorsPerTrack + c[3] - 1
         IN /\ mbr.partition = layout.relSector /\ mbr.total = layout.partSize
            /\ Lbn(mbr.begin) = mbr.partition
            /\ mbr.end # TooBig => Lbn(mbr.end) = mbr.partition + mbr.total - 1
<1> DEFINE h == geometry.numberOfHeads
           t == geometry.sectorsPerTrack
           first == layout.relSector
           last == layout.relSector + layout.partSize - 1
           Lbn(c) == (c[1] * h + c[2]) * t + c[3] - 1
<1>1. /\ t \in Nat \ {0} /\ h \in Nat \ {0} /\ h <= 255 /\ cardSizeBlocks \in Nat
      /\ cardSizeBlocks <= Words * (h * t)
  BY GeometryFits, Capacity, SMT DEF Words
<1>2. Words * (h * t) \in Nat
  <2> HIDE DEF h, t
  <2>1. h * t \in Nat
    BY <1>1, SMT
  <2> QED BY <2>1, SMT DEF Words
<1>3. /\ first \in Nat /\ first < Words * (h * t)
      /\ last \in Nat /\ last < Words * (h * t)
  <2> DEFINE W == Words * (h * t)
  <2>1. W \in Nat /\ cardSizeBlocks <= W
    BY <1>1, <1>2
  <2> HIDE DEF W
  <2>2. first < W /\ last \in Nat /\ last < W
    BY <1>1, <2>1, SMT
  <2> QED BY <2>2 DEF W
<1>4. /\ PartitionTable.partition = first /\ PartitionTable.total = layout.partSize
      /\ PartitionTable.begin = Chs(first)
      /\ PartitionTable.end = IF lbnToCylinder(last) <= 1023 THEN Chs(last) ELSE TooBig
  BY DEF PartitionTable
<1>5. Lbn(Chs(first)) = first /\ Lbn(Chs(last)) = last
  BY <1>1, <1>3, ChsNames
<1>6. PartitionTable.end # TooBig => PartitionTable.end = Chs(last)
  BY <1>4
<1> QED BY <1>4, <1>5, <1>6

LEMMA UsedOfFat ==
  Cardinality({0, 1}) = 2 /\ Cardinality({0, 1, 2}) = 3
<1>1. IsFiniteSet({0}) /\ Cardinality({0}) = 1
  BY FS_Singleton
<1>2. 1 \notin {0} /\ {0, 1} = {0} \cup {1}
  OBVIOUS
<1>3. IsFiniteSet({0, 1}) /\ Cardinality({0, 1}) = 2
  <2>1. /\ IsFiniteSet({0} \cup {1})
        /\ Cardinality({0} \cup {1}) = IF 1 \in {0} THEN Cardinality({0}) ELSE Cardinality({0}) + 1
    BY <1>1, FS_AddElement
  <2> QED BY <1>1, <1>2, <2>1
<1>4. 2 \notin {0, 1} /\ {0, 1, 2} = {0, 1} \cup {2}
  OBVIOUS
<1>5. Cardinality({0, 1, 2}) = 3
  <2>1. Cardinality({0, 1} \cup {2})
          = IF 2 \in {0, 1} THEN Cardinality({0, 1}) ELSE Cardinality({0, 1}) + 1
    BY <1>3, FS_AddElement
  <2> QED BY <1>3, <1>4, <2>1
<1> QED BY <1>3, <1>5

\* FAT16: what the logger and the boot loader find.
LEMMA Mounted16 ==
  ASSUME FormatInv, Below64GB, step = "done", option # "E", kind # "SDHC"
  PROVE  LET v == volumeInit
             fs == pf_mount
             mbr == At(0)
             Lbn(c) == (c[1] * geometry.numberOfHeads + c[2]) * geometry.sectorsPerTrack + c[3] - 1
         IN /\ v.fatType = 16 /\ fs.mounted /\ fs.fs_type = "FAT16"
            /\ v.fatStartBlock = fs.fatbase /\ v.rootDirStart = fs.dirbase
            /\ v.dataStartBlock = fs.database /\ v.dataStartBlock = layout.dataStart
            /\ v.clusterCount = fs.n_fatent - 2 /\ v.clusterCount = layout.nc
            /\ v.dataStartBlock + v.clusterCount * v.blocksPerCluster <= cardSizeBlocks
            /\ v.dataStartBlock % BU16 = 0
            /\ freeClusters(v) = v.clusterCount - 0
            /\ mbr.partition + mbr.total = v.dataStartBlock + v.clusterCount * v.blocksPerCluster
            /\ Lbn(mbr.begin) = mbr.partition
            /\ mbr.end # TooBig => Lbn(mbr.end) = mbr.partition + mbr.total - 1
            /\ v.rootDirStart \notin DOMAIN sectors
<1> DEFINE v == volumeInit
           fs == pf_mount
           c == geometry.sectorsPerCluster
           s == layout.relSector
           f == layout.fatSize
           d == layout.dataStart
           nc == layout.nc
           Lbn(x) == (x[1] * geometry.numberOfHeads + x[2]) * geometry.sectorsPerTrack + x[3] - 1
<1>1. FormatTypes /\ AsLaidOut /\ LaidOut /\ Booted /\ FatCleared /\ Formatting
  BY DEF FormatInv, LaidOut, Booted, FatCleared, Chosen, Formatting
<1>2. /\ At(0) = PartitionTable /\ At(s) = BootSector /\ zeroed = FatAndDirectory
      /\ At(fatStart) = FirstOfFat
      /\ DOMAIN sectors \subseteq {0, s, fatStart, fatStart + f}
  BY <1>1 DEF AsLaidOut
<1>3. geometry = Geometry /\ Placed16(layout) /\ ~BadCount(nc)
  BY <1>1, LaidOutIs
<1>4. c \in Shifts /\ c \in Nat \ {0} /\ cardSizeBlocks \in Nat
  BY <1>1, <1>3, GeometryFits, Capacity, SMT
<1>5. s # 0
  BY <1>1, Places
<1>6. v = [fatType |-> 16, fatStartBlock |-> fatStart, blocksPerFat |-> f,
           rootDirStart |-> d - 32, dataStartBlock |-> d, clusterCount |-> nc,
           blocksPerCluster |-> c]
  BY <1>2, <1>3, <1>4, <1>5, FoundByTable, Volume16
<1>7. fs = [mounted |-> TRUE, fs_type |-> "FAT16", fatbase |-> fatStart, csize |-> c,
            n_rootdir |-> 512, n_fatent |-> nc + 2, dirbase |-> d - 32, database |-> d]
  BY <1>2, <1>3, <1>4, <1>5, FoundByTable, Loader16
<1>8. /\ d \in Nat /\ nc \in Nat /\ f \in Nat \ {0} /\ s \in Nat /\ s >= 128
      /\ s = d - 33 - 2 * f /\ d % 128 = 0 /\ nc + 2 <= 256 * f
      /\ layout.partSize \in Nat /\ layout.partSize = c * nc + 2 * f + 33
      /\ c * nc <= cardSizeBlocks - d /\ fatStart = s + 1
  BY <1>3 DEF Placed16, Counted, fatStart
<1>9. freeClusters(v) = nc
  <2>1. /\ v.fatType = 16 /\ v.clusterCount = nc /\ v.fatStartBlock = fatStart
        /\ v.blocksPerFat = f
    BY <1>6
  <2>2. zeroed[1] = fatStart /\ zeroed[2] = d - fatStart
    BY <1>2 DEF FatAndDirectory
  <2>3. At(fatStart).used = {0, 1}
    BY <1>2 DEF FirstOfFat
  <2> HIDE DEF v, c, s, f, d, nc
  <2>4. zeroed[1] <= fatStart /\ zeroed[1] + zeroed[2] >= fatStart + f
    BY <1>8, <2>2, SMT
  <2>5. ~(nc + 2 > 256 * f) /\ (nc + 2) - 2 = nc
    BY <1>8, SMT
  <2> QED BY <2>1, <2>3, <2>4, <2>5, UsedOfFat DEF freeClusters
<1>10. /\ PartitionTable.partition = s /\ PartitionTable.total = layout.partSize
       /\ Lbn(PartitionTable.begin) = PartitionTable.partition
       /\ PartitionTable.end # TooBig =>
            Lbn(PartitionTable.end) = PartitionTable.partition + PartitionTable.total - 1
  <2>1. c * nc \in Nat
    BY <1>4, <1>8, SMT
  <2>2. s + layout.partSize <= cardSizeBlocks /\ layout.partSize # 0
    BY <1>4, <1>8, <2>1, SMT
  <2> QED BY <1>1, <1>3, <1>8, <2>2, TableNames
<1>11. /\ s + layout.partSize = d + nc * c /\ d + nc * c <= cardSizeBlocks
  <2> HIDE DEF c, s, f, d, nc
  <2>1. c * nc = nc * c /\ c * nc \in Nat
    BY <1>4, <1>8, SMT
  <2> QED BY <1>4, <1>8, <2>1, SMT
<1>12. d - 32 \notin DOMAIN sectors
  <2>1. d - 32 # 0 /\ d - 32 # s /\ d - 32 # fatStart /\ d - 32 # fatStart + f
    BY <1>8, SMT
  <2> QED BY <1>2, <2>1
<1>13. (nc + 2) - 2 = nc /\ nc - 0 = nc /\ d % BU16 = 0
  BY <1>8 DEF BU16
<1>14. /\ v.fatType = 16 /\ v.fatStartBlock = fatStart /\ v.rootDirStart = d - 32
       /\ v.dataStartBlock = d /\ v.clusterCount = nc /\ v.blocksPerCluster = c
  BY <1>6
<1>15. /\ fs.mounted /\ fs.fs_type = "FAT16" /\ fs.fatbase = fatStart
       /\ fs.dirbase = d - 32 /\ fs.database = d /\ fs.n_fatent = nc + 2
  BY <1>7, Zenon
<1> HIDE DEF v, fs, c, s, f, d, nc
<1> QED BY <1>2, <1>9, <1>10, <1>11, <1>12, <1>13, <1>14, <1>15, Zenon DEF v, fs, d, nc

\* FAT32: what the logger and the boot loader find.
LEMMA Mounted32 ==
  ASSUME FormatInv, Below64GB, step = "done", option # "E", kind = "SDHC"
  PROVE  LET v == volumeInit
             fs == pf_mount
             mbr == At(0)
             Lbn(c) == (c[1] * geometry.numberOfHeads + c[2]) * geometry.sectorsPerTrack + c[3] - 1
         IN /\ v.fatType = 32 /\ fs.mounted /\ fs.fs_type = "FAT32"
            /\ v.fatStartBlock = fs.fatbase /\ v.rootDirStart = fs.dirbase
            /\ v.dataStartBlock = fs.database /\ v.dataStartBlock = layout.dataStart
            /\ v.clusterCount = fs.n_fatent - 2 /\ v.clusterCount = layout.nc
            /\ v.dataStartBlock + v.clusterCount * v.blocksPerCluster <= cardSizeBlocks
            /\ v.dataStartBlock % BU16 = 0
            /\ freeClusters(v) = v.clusterCount - 1
            /\ mbr.partition + mbr.total = v.dataStartBlock + v.clusterCount * v.blocksPerCluster
            /\ Lbn(mbr.begin) = mbr.partition
            /\ mbr.end # TooBig => Lbn(mbr.end) = mbr.partition + mbr.total - 1
<1> DEFINE v == volumeInit
           fs == pf_mount
           c == geometry.sectorsPerCluster
           s == layout.relSector
           f == layout.fatSize
           d == layout.dataStart
           nc == layout.nc
           Lbn(x) == (x[1] * geometry.numberOfHeads + x[2]) * geometry.sectorsPerTrack + x[3] - 1
<1>1. FormatTypes /\ AsLaidOut /\ LaidOut /\ Booted /\ FatCleared /\ Formatting
  BY DEF FormatInv, LaidOut, Booted, FatCleared, Chosen, Formatting
<1>2. /\ At(0) = PartitionTable /\ At(s) = BootSector /\ zeroed = FatAndDirectory
      /\ At(fatStart) = FirstOfFat
  BY <1>1 DEF AsLaidOut
<1>3. geometry = Geometry /\ Placed32(layout) /\ ~BadCount(nc)
  BY <1>1, LaidOutIs
<1>4. c \in Shifts /\ c \in Nat \ {0} /\ cardSizeBlocks \in Nat
  BY <1>1, <1>3, GeometryFits, Capacity, SMT
<1>5. s # 0
  BY <1>1, Places
<1>6. v = [fatType |-> 32, fatStartBlock |-> fatStart, blocksPerFat |-> f,
           rootDirStart |-> 2, dataStartBlock |-> d, clusterCount |-> nc,
           blocksPerCluster |-> c]
  BY <1>2, <1>3, <1>4, <1>5, FoundByTable, Volume32
<1>7. fs = [mounted |-> TRUE, fs_type |-> "FAT32", fatbase |-> fatStart, csize |-> c,
            n_rootdir |-> 0, n_fatent |-> nc + 2, dirbase |-> 2, database |-> d]
  BY <1>2, <1>3, <1>4, <1>5, FoundByTable, Loader32
<1>8. /\ d \in Nat /\ nc \in Nat /\ f \in Nat \ {0} /\ s \in Nat /\ s = 8192
      /\ layout.reservedSectors = d - 8192 - 2 * f /\ layout.reservedSectors >= 9
      /\ d % 128 = 0 /\ nc + 2 <= 128 * f
      /\ layout.partSize \in Nat /\ layout.partSize = c * nc + d - 8192
      /\ c * nc <= cardSizeBlocks - d /\ fatStart = s + layout.reservedSectors
  BY <1>3, SMT DEF Placed32, Counted, fatStart
<1>9. freeClusters(v) = nc - 1
  <2>1. /\ v.fatType = 32 /\ v.clusterCount = nc /\ v.fatStartBlock = fatStart
        /\ v.blocksPerFat = f
    BY <1>6
  <2>2. zeroed[1] = fatStart /\ zeroed[2] = 2 * f + c
    BY <1>2 DEF FatAndDirectory
  <2>3. At(fatStart).used = {0, 1, 2}
    BY <1>2 DEF FirstOfFat
  <2> HIDE DEF v, c, s, f, d, nc
  <2>4. zeroed[1] <= fatStart /\ zeroed[1] + zeroed[2] >= fatStart + f
    BY <1>4, <1>8, <2>2, SMT
  <2>5. ~(nc + 2 > 128 * f) /\ (nc + 2) - 3 = nc - 1
    BY <1>8, SMT
  <2> QED BY <2>1, <2>3, <2>4, <2>5, UsedOfFat DEF freeClusters
<1>10. /\ PartitionTable.partition = s /\ PartitionTable.total = layout.partSize
       /\ Lbn(PartitionTable.begin) = PartitionTable.partition
       /\ PartitionTable.end # TooBig =>
            Lbn(PartitionTable.end) = PartitionTable.partition + PartitionTable.total - 1
  <2>1. c * nc \in Nat
    BY <1>4, <1>8, SMT
  <2>2. s + layout.partSize <= cardSizeBlocks /\ layout.partSize # 0
    BY <1>4, <1>8, <2>1, SMT
  <2> QED BY <1>1, <1>3, <1>8, <2>2, TableNames
<1>11. /\ s + layout.partSize = d + nc * c /\ d + nc * c <= cardSizeBlocks
  <2> HIDE DEF c, s, f, d, nc
  <2>1. c * nc = nc * c /\ c * nc \in Nat
    BY <1>4, <1>8, SMT
  <2> QED BY <1>4, <1>8, <2>1, SMT
<1>12. (nc + 2) - 2 = nc /\ d % BU16 = 0
  BY <1>8 DEF BU16
<1>13. /\ v.fatType = 32 /\ v.fatStartBlock = fatStart /\ v.rootDirStart = 2
       /\ v.dataStartBlock = d /\ v.clusterCount = nc /\ v.blocksPerCluster = c
  BY <1>6
<1>14. /\ fs.mounted /\ fs.fs_type = "FAT32" /\ fs.fatbase = fatStart
       /\ fs.dirbase = 2 /\ fs.database = d /\ fs.n_fatent = nc + 2
  BY <1>7, Zenon
<1> HIDE DEF v, fs, c, s, f, d, nc
<1> QED BY <1>2, <1>9, <1>10, <1>11, <1>12, <1>13, <1>14, Zenon DEF v, fs, d, nc

\* The invariant, and that it says all that FormattedIsMounted asks.
LEMMA FormatNextKeeps ==
  ASSUME FormatInv, FormatNext
  PROVE  FormatInv'
BY EraseKeeps, initSizesKeeps, formatCardKeeps, writeMbrKeeps, WriteBootKeeps,
   clearFatDirKeeps, ReserveKeeps, FailsKeeps DEF FormatNext

LEMMA MountedByFormatInv ==
  ASSUME FormatInv, Below64GB
  PROVE  FormattedIsMounted
<1>1. Refusals
  BY DEF FormatInv
<1>2. CASE kind = "SDHC"
  BY <1>1, <1>2, Mounted32, ErasedWhole, Zenon DEF FormattedIsMounted
<1>3. CASE kind # "SDHC"
  BY <1>1, <1>3, Mounted16, ErasedWhole, Zenon DEF FormattedIsMounted
<1> QED BY <1>2, <1>3

(***************************************************************************)
(* Every card below 64 GB that the sketch formats is mounted by the logger *)
(* and by the boot loader, which find FAT, directory and data in the same  *)
(* places; the layout lies within the card, all of it is free, and the two *)
(* notations of the partition table agree; a card that is erased is erased *)
(* whole; and no card of a usual size is refused (SdFormatter.ino,         *)
(* SdVolume::init, pf_mount).                                              *)
(***************************************************************************)
THEOREM EveryCardIsMounted == FormatSpec => [](Below64GB => FormattedIsMounted)
<1>1. FormatInit => FormatInv
  BY FormatBegins
<1>2. FormatInv /\ [FormatNext]_formatVars => FormatInv'
  BY FormatNextKeeps, FormatStays
<1>3. FormatInv => (Below64GB => FormattedIsMounted)
  BY MountedByFormatInv
<1> QED BY <1>1, <1>2, <1>3, PTL DEF FormatSpec

=============================================================================
