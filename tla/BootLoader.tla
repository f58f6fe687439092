----------------------------- MODULE BootLoader -----------------------------
(***************************************************************************)
(* The boot loader, main.c, with the flash page by page, and the beginning *)
(* of setup() of the program it starts, which writes the version the boot  *)
(* loader will compare with next time.  The supply may go at any point;    *)
(* a page that is being erased or written, and an EEPROM cell that is      *)
(* being written, then hold anything.  The card may be pulled or put in,   *)
(* and in any call a sector may not answer, or the card never get ready.   *)
(*                                                                         *)
(* A word of a program is a record of the program and its place in it, so  *)
(* no word of one program looks like another's.                            *)
(*                                                                         *)
(* External: the power supply, the user, the card.                         *)
(***************************************************************************)
EXTENDS PetitFat

CONSTANTS
  PageSize,       \* SPM_PAGESIZE, 128 bytes in the code, in words
  BOOT_ADR,       \* 0x7000 in the code, in words
  Cards,          \* the cards there are; files: the programs, by name
  Boards,         \* as the user gets it: [program, version]
  MaxEvents       \* bound: power cuts, failed transfers, changes of the card

ASSUME BootLoaderAssumption ==
  /\ PageSize \in Nat \ {0} /\ BOOT_ADR \in Nat \ {0}
  /\ BOOT_ADR % PageSize = 0
  /\ SectorSize % PageSize = 0     \* a page does not cross a sector
  /\ NoCard \in Cards
  /\ \A b \in Boards : b.program.size \in 0..BOOT_ADR /\ b.version \in [1..2 -> 0..255]
  /\ MaxEvents \in Nat

VARIABLES
  pc,
  flash,        \* the words below the boot loader
  version,      \* the bytes of the word EEPROM_VERSION, low and high
  x, flashver, found,      \* of checkProgram(); x: then the version setup() writes
  fa, Buff,                \* of doProgram()
  CardType, Fatfs, file,
  card,         \* the one in the slot
  events,
  disturbed     \* a transfer failed, or the card was changed in an update

loop == <<x, flashver, found>>
page == <<fa, Buff>>
vars == <<pc, flash, version, loop, page, CardType, Fatfs, file, card, events,
          disturbed>>

Words == 0..(BOOT_ADR - 1)
PageOf(a) == a..(a + PageSize - 1)
Word(p, k) == [program |-> p, place |-> k]
NoProgram == [version |-> -1, size |-> 0]
FF == Word(NoProgram, 0)
Garbage == Word(NoProgram, 1)

\* The program the flash holds to the last word; not what follows it.
Holds(p) == \A k \in 0..(p.size - 1) : flash[k] = Word(p, k)
Whole == flash[0].program # NoProgram /\ Holds(flash[0].program)

EEPROMWord == version[1] + 256 * version[2]
FirmwareName(v) == <<"OSMFW", v \div 100, (v % 100) \div 10, v % 10>>
filename2 == <<"OSMFIRMW">>

Init ==
  /\ \E b \in Boards :
       /\ flash = [a \in Words |->
                     IF a < b.program.size THEN Word(b.program, a) ELSE FF]
       /\ version = b.version
  /\ pc = "checkProgram"
  /\ x = 0 /\ flashver = 0 /\ found = FALSE
  /\ fa = 0 /\ Buff = <<>>
  /\ CardType = {} /\ Fatfs = NotMounted /\ file = NotOpened
  /\ card \in Cards
  /\ events = 0
  /\ disturbed = FALSE

\* What does not answer during a call.
Unanswered(bad) ==
  \/ bad = {} /\ UNCHANGED <<events, disturbed>>
  \/ /\ events < MaxEvents
     /\ \E s \in DOMAIN card.sector \cup {Busy} : bad = {s}
     /\ events' = events + 1 /\ disturbed' = TRUE
BadSets == {{}} \cup {{s} : s \in DOMAIN card.sector \cup {Busy}}
Medium(bad) == [card |-> card, CardType |-> CardType, bad |-> bad]

\* A boot loader that takes an erased EEPROM for a version.
ErasedIsAVersion == EEPROMWord

\* checkProgram() up to its loop.  The result of pf_mount() is not looked at.
FlashVersion == IF EEPROMWord > 999 THEN 9 ELSE EEPROMWord
CheckProgram ==
  /\ pc = "checkProgram"
  /\ \E bad \in BadSets :
       LET type == disk_initialize(card, bad)
       IN /\ Unanswered(bad)
          /\ CardType' = type
          /\ Fatfs' = pf_mount([card |-> card, CardType |-> type,
                                bad |-> bad])
  /\ file' = NotOpened
  /\ flashver' = FlashVersion
  /\ x' = FlashVersion + 10
  /\ found' = FALSE
  /\ pc' = "search"
  /\ UNCHANGED <<flash, version, page, card>>

Open(name) ==
  \E bad \in BadSets :
    Unanswered(bad) /\ file' = pf_open(Medium(bad), Fatfs, name)

\* One turn of the loop; a file is programmed before the next turn.
TryVersion ==
  /\ pc = "search" /\ x > flashver
  /\ Open(FirmwareName(x))
  /\ found' = (found \/ file'.opened)
  /\ pc' = IF file'.opened THEN "read" ELSE pc
  /\ x' = IF file'.opened THEN x ELSE x - 1
  /\ fa' = 0
  /\ UNCHANGED <<flash, version, flashver, Buff, CardType, Fatfs, card>>

TryFirmware ==
  /\ pc = "search" /\ x = flashver
  /\ IF found THEN UNCHANGED <<file, events, disturbed>> ELSE Open(filename2)
  /\ pc' = IF ~found /\ file'.opened THEN "read" ELSE "start"
  /\ fa' = 0
  /\ UNCHANGED <<flash, version, loop, Buff, CardType, Fatfs, card>>

\* doProgram(): a page at a time.  Nothing read: the page is left as it is.
Padded(data) == [k \in 1..PageSize |-> IF k <= Len(data) THEN data[k] ELSE FF]
ReadPage ==
  /\ pc = "read" /\ fa < BOOT_ADR
  /\ \E bad \in BadSets :
       LET r == pf_read(Medium(bad), Fatfs, file, PageSize)
       IN /\ Unanswered(bad)
          /\ file' = r.file
          /\ Buff' = Padded(r.data)
          /\ pc' = IF r.data # <<>> THEN "erase" ELSE pc
          /\ fa' = IF r.data # <<>> THEN fa ELSE fa + PageSize
  /\ UNCHANGED <<flash, version, loop, CardType, Fatfs, card>>

flash_erase ==
  /\ pc = "erase"
  /\ flash' = [a \in Words |-> IF a \in PageOf(fa) THEN FF ELSE flash[a]]
  /\ pc' = "write"
  /\ UNCHANGED <<version, loop, page, CardType, Fatfs, file, card, events,
                 disturbed>>

flash_write ==
  /\ pc = "write"
  /\ flash' = [a \in Words |->
                 IF a \in PageOf(fa) THEN Buff[a - fa + 1] ELSE flash[a]]
  /\ fa' = fa + PageSize
  /\ pc' = "read"
  /\ UNCHANGED <<version, loop, Buff, CardType, Fatfs, file, card, events,
                 disturbed>>

\* The next version, or the end of checkProgram() after OSMFIRMW.BIN.
EndProgram ==
  /\ pc = "read" /\ fa >= BOOT_ADR
  /\ IF found THEN pc' = "search" /\ x' = x - 1
     ELSE pc' = "start" /\ x' = x
  /\ UNCHANGED <<flash, version, flashver, found, page, CardType, Fatfs, file,
                 card, events, disturbed>>

\* Without a program main() calls checkProgram() again.  A disturbance is over
\* when a program that is whole is started.
StartApplication ==
  /\ pc = "start"
  /\ pc' = IF flash[0] # FF THEN "setup" ELSE "checkProgram"
  /\ disturbed' = (disturbed /\ ~Whole)
  /\ UNCHANGED <<flash, version, loop, page, CardType, Fatfs, file, card,
                 events>>

\* setup() of the program that was started, with its VERSIONNUMBER, a word.  Of a
\* mixture of programs it may be the one of any of them, or it never gets here.
MaxWord == 65535
Word16 == 0..MaxWord
VersionsIn ==
  Word16 \cap IF Whole THEN {flash[0].program.version}
            ELSE {flash[a].program.version : a \in Words}
Setup ==
  /\ pc = "setup"
  /\ \E v \in VersionsIn :
       LET bytes == <<v % 256, v \div 256>>
       IN /\ version' = IF version = bytes THEN version
                        ELSE <<bytes[1], version[2]>>
          /\ x' = v
          /\ pc' = IF version = bytes THEN "runs" ELSE "setup2"
  /\ UNCHANGED <<flash, flashver, found, page, CardType, Fatfs, file, card,
                 events, disturbed>>
SetupHigh ==
  /\ pc = "setup2"
  /\ version' = [version EXCEPT ![2] = x \div 256]
  /\ pc' = "runs"
  /\ UNCHANGED <<flash, loop, page, CardType, Fatfs, file, card, events,
                 disturbed>>

\* The power goes: in the middle of an erasure, a write, or an EEPROM write
\* too.  What the memory held is gone.
LoseMemory ==
  /\ pc' = "off"
  /\ x' = 0 /\ flashver' = 0 /\ found' = FALSE /\ fa' = 0 /\ Buff' = <<>>
  /\ CardType' = {} /\ Fatfs' = NotMounted /\ file' = NotOpened
PowerCut ==
  /\ pc # "off" /\ events < MaxEvents /\ events' = events + 1
  /\ \/ UNCHANGED <<flash, version>>
     \/ /\ pc \in {"erase", "write"}
        /\ flash' = [a \in Words |->
                       IF a \in PageOf(fa) THEN Garbage ELSE flash[a]]
        /\ UNCHANGED version
     \/ /\ pc \in {"setup", "setup2"}
        /\ LET i == IF pc = "setup" THEN 1 ELSE 2
           IN \E cell \in {0, 255} : version' = [version EXCEPT ![i] = cell]
        /\ UNCHANGED flash
  /\ LoseMemory
  /\ UNCHANGED <<card, disturbed>>
SwitchOff ==
  /\ pc \in {"runs", "setup"} /\ (pc = "setup" => ~Whole)
  /\ LoseMemory
  /\ UNCHANGED <<flash, version, card, events, disturbed>>
SwitchOn ==
  /\ pc = "off" /\ pc' = "checkProgram"
  /\ UNCHANGED <<flash, version, loop, page, CardType, Fatfs, file, card,
                 events, disturbed>>

\* Another card, or none, while nothing reads it; or pulled at any time.
ChangeCard ==
  /\ events < MaxEvents /\ events' = events + 1
  /\ card' \in Cards \ {card}
  /\ pc \in {"off", "checkProgram"} \/ card' = NoCard
  /\ disturbed' = (disturbed \/ ~Whole \/ pc \in {"read", "erase", "write"})
  /\ UNCHANGED <<pc, flash, version, loop, page, CardType, Fatfs, file>>

Loader ==
  \/ CheckProgram \/ TryVersion \/ TryFirmware \/ ReadPage
  \/ flash_erase \/ flash_write \/ EndProgram \/ StartApplication
Program == Setup \/ SetupHigh
Next ==
  Loader \/ Program \/ PowerCut \/ SwitchOff \/ SwitchOn \/ ChangeCard

\* The processor runs on, and the logger is switched off and on again and
\* again, as a logger on a ship is.
Spec ==
  Init /\ [][Next]_vars
       /\ WF_vars(Loader) /\ WF_vars(Program) /\ WF_vars(SwitchOff)
       /\ WF_vars(SwitchOn)
-----------------------------------------------------------------------------
(***************************************************************************)
(* What is supposed of the cards, which a computer has written: a file     *)
(* that opens under a name the boot loader asks for is a program that fits *)
(* the flash, and its words are in the sectors of a chain of clusters.  And *)
(* a card that is pulled in the search opens nothing any more.             *)
(***************************************************************************)
AsFound(c) == [card |-> c, CardType |-> disk_initialize(c, {}), bad |-> {}]
Pulled(c) == [card |-> NoCard, CardType |-> disk_initialize(c, {}), bad |-> {}]
Mount(c) == pf_mount(AsFound(c))
Opened(c, n) == pf_open(AsFound(c), Mount(c), n)

FirmwareNames == {filename2} \cup {FirmwareName(v) : v \in 0..(999 + 10)}

\* The chains a program may lie in, with the sectors of its words in order.
LastSector(p) == (p.size - 1) \div SectorSize
Chains(c, p) == [0..(LastSector(p) \div Mount(c).csize) -> 2..(Mount(c).n_fatent - 1)]
SectorOf(c, chain, i) ==
  clust2sect(Mount(c), chain[i \div Mount(c).csize]) + (i % Mount(c).csize)

HoldsSector(c, chain, i, p) ==
  LET s == disk_readp(AsFound(c), SectorOf(c, chain, i))
  IN /\ s.holds = "data" /\ s.words = [k \in 1..SectorSize |-> s.words[k]]
     /\ \A o \in 0..(SectorSize - 1) :
          SectorSize * i + o < p.size => s.words[o + 1] = Word(p, SectorSize * i + o)
IsLinked(c, chain, i) ==
  LET k == i \div Mount(c).csize
  IN /\ clust2sect(Mount(c), chain[k]) # 0
     /\ i # 0 /\ i % Mount(c).csize = 0
          => chain[k] = get_fat(AsFound(c), Mount(c), chain[k - 1])

Lies(c, p, file0) ==
  /\ p.size \in 0..BOOT_ADR /\ file0.fsize = p.size /\ Mount(c).csize \in Nat \ {0}
  /\ \E chain \in Chains(c, p) :
       /\ p.size > 0 => chain[0] = file0.org_clust
       /\ \A i \in 0..LastSector(p) : HoldsSector(c, chain, i, p) /\ IsLinked(c, chain, i)

CardsAreSound ==
  \A c \in Cards : \A n \in FirmwareNames :
    /\ ~pf_open(Pulled(c), Mount(c), n).opened
    /\ Opened(c, n).opened => n \in DOMAIN c.files /\ Lies(c, c.files[n], Opened(c, n))

Started == pc \in {"setup", "setup2", "runs"}

\* A program that is started is one of the files, or the program the board
\* came with, to the last word: wherever the power was cut before, also in the
\* middle of an update, and whatever lies where on the card.  Not when a
\* transfer failed or the card was changed in the middle of the update.
StartedIsWhole == Started /\ ~disturbed => Whole

\* The card offers no version the boot loader would still take.
Offered(v) == {n \in 1..10 : FirmwareName(v + n) \in DOMAIN card.files}
UpToDate ==
  IF filename2 \in DOMAIN card.files THEN Holds(card.files[filename2])
  ELSE Offered(IF EEPROMWord > 999 THEN 9 ELSE EEPROMWord) = {}
OneKind == \A n \in DOMAIN card.files :
             n = filename2 \/ filename2 \notin DOMAIN card.files

\* With numbered files on the card, or with OSMFIRMW.BIN, the board comes by
\* restarts to the last program that is reachable in steps of at most ten, and
\* stays with it; it always starts a program again, unless it never had one
\* and the card has none for it.  Power cuts may come in between.  With both
\* kinds of files it may program the two in turn for ever.
BecomesUpToDate ==
  [](~disturbed /\ OneKind) =>
    /\ <>[](pc = "runs" => UpToDate /\ Whole)
    /\ []<>(pc = "runs") \/ <>[](flash[0] = FF /\ UpToDate)
=============================================================================
