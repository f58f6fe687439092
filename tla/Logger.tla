------------------------------- MODULE Logger -------------------------------
(***************************************************************************)
(* The main loop of the logger (SketchBook/OpenSeaMap/OpenSeaMap.ino) and  *)
(* the life of the data files on the card: when a file is created, flushed *)
(* and closed, and what of it survives a card that is pulled and a supply  *)
(* that fails.                                                             *)
(*                                                                         *)
(* One action is one step of loop() or of a function it calls, between     *)
(* which the environment acts: time passes, the stop switch is used, the   *)
(* card is pulled, the supply drops to the gold cap and the cap runs out.  *)
(* A record is known by its kind.  What was written to the open file       *)
(* survives only once the file was closed, because the size in its         *)
(* directory entry is written then (SdBaseFile::sync).                     *)
(*                                                                         *)
(* The library reads the card through a cache of one block.  What the      *)
(* cache holds decides what open() finds when the card is gone.            *)
(*                                                                         *)
(* Time is counted in ticks.  A turn of loop() is assumed to take less     *)
(* than a tick, unless it waits for a card or sits in delay(10000).        *)
(***************************************************************************)
EXTENDS Integers, Sequences, FiniteSets

CONSTANTS
  LastName,        \* highest number of a data file, 9999 in the code
  RootEntries,     \* files the root directory can hold (512 on FAT16)
  FirstBlock,      \* data files that have, or would get, their entry in the
                   \* first block of the root directory (16 entries)
  Second, Minute, Hour,  \* in ticks; 1000, 60000 and 3600000 ms in the code
  HaltTicks,       \* delay(10000) after a shutdown
  SetupTicks,      \* clock at the end of setup()
  ClockMod,        \* 2^32: unsigned long
  WordMod,         \* 2^16: word
  ByteMod,         \* 2^8: byte
  CapTicks,        \* how long the gold cap supplies the logger
  outputGyro, outputVcc,  \* the sensor records are switched on
  MaxClock,        \* bound: ticks a boot lasts
  MaxData,         \* bound: data records ever received
  MaxFaults        \* bound: disturbances by the environment

Name == 1..LastName

ASSUME LoggerAssumption ==
  /\ LastName \in Nat \ {0} /\ RootEntries \in Nat /\ FirstBlock \subseteq Name
  /\ Second \in Nat \ {0} /\ Minute \in Nat \ {0} /\ Hour \in Nat \ {0}
  /\ Minute <= Hour
  /\ HaltTicks \in Nat /\ SetupTicks \in Nat /\ CapTicks \in Nat
  /\ ClockMod \in Nat \ {0} /\ WordMod \in Nat \ {0} /\ ByteMod \in Nat \ {0}
  /\ SetupTicks < ClockMod
  /\ outputGyro \in BOOLEAN /\ outputVcc \in BOOLEAN
  /\ MaxClock \in Nat /\ MaxData \in Nat /\ MaxFaults \in Nat

Record == {"START", "CONFIG", "SENSOR", "DATA", "REASON", "STOP"}

VARIABLES
  clock,            \* millis()
  supply, capAge,   \* "on", "cap" or "off", and how long on the cap
  stopSwitch,       \* SW_STOP is pressed
  card,             \* a card is in the slot
  space,            \* the card has 100 MB free
  files,            \* numbers of the data files in the root directory
  disk,             \* their contents as a reader of the card finds them
  mounted,          \* sd.begin() has initialised the card that is in the slot
  held,             \* data files that are found in the block cache alone: those
                    \* of the first root directory block while it is held
  open,             \* dataFile.isOpen()
  unsynced,         \* records written to dataFile since it was opened
  filename,         \* number in filename, 0 for the template data0000.dat
  lastStartNumber, fileCount, lastFlush, lastMillis, error,
  now,              \* local variable of loop()
  pc,               \* the step of loop() that is next
  back,             \* where stopLogger() and newFile() return to
  delayLeft,        \* what is left of delay(10000)
  turned,           \* a turn of loop() has begun since the last tick
  finished,         \* history: files closed with everything on the card
  interrupted,      \* history: files whose card or supply went while in use
  exhausted,        \* history: newFile() found no free number
  age,              \* history: ticks since the oldest record in unsynced
  fileAge,          \* history: ticks since newFile() created the open file
  idle,             \* history: ticks without recording although possible
  rotated,          \* history: ticks since the last new file by time
  lostByPower,      \* history: the supply went with records outstanding in a
                    \* file that was open when the supply dropped
  stale,            \* history: flushFile() opened the file from the cache,
                    \* without a card, and newFile() has made none since
  dataCount, faults \* what the bounds count

time      == <<clock, capAge, delayLeft, turned>>
slot      == <<supply, stopSwitch, card, space>>
storage   == <<files, disk>>
volume    == <<mounted, held>>
handle    == <<open, unsynced, filename>>
counters  == <<lastStartNumber, fileCount, lastFlush, lastMillis, error>>
control   == <<now, pc, back>>
seen      == <<finished, interrupted, exhausted, lostByPower, stale>>
ages      == <<age, fileAge, idle, rotated>>
bounds    == <<dataCount, faults>>
vars == <<time, slot, storage, volume, handle, counters, control, seen, ages,
          bounds>>

(***************************************************************************)
(* now is a long and lastMillis an unsigned long; nowFlush is cast to a    *)
(* byte and nowCount to a word; / truncates towards zero.                  *)
(***************************************************************************)
Signed(t) == IF t < ClockMod \div 2 THEN t ELSE t - ClockMod
Quot(a, b) == IF a >= 0 THEN a \div b ELSE -((-a) \div b)

secondPassed == (now - Second) % ClockMod > lastMillis

\* Mutant: flushed every second hour.
nowFlushRarely == Quot(Signed(now), 2 * Hour) % ByteMod

\* Mutant: the cast to a word comes before the division, so that the time
\* overruns at 18 hours (as it did once: history of the file, 20140701).
nowCountCastFirst == Quot(Signed(now) % WordMod, Hour)

nowFlush == Quot(Signed(now), Minute) % ByteMod
nowCount == Quot(Signed(now), Hour) % WordMod

-----------------------------------------------------------------------------
(***************************************************************************)
(* A card with no data files, and the power switched on.                   *)
(***************************************************************************)
Init ==
  /\ clock = 0 /\ supply = "on" /\ capAge = 0 /\ stopSwitch = FALSE
  /\ card = TRUE /\ space = TRUE
  /\ files = {} /\ disk = [n \in Name |-> <<>>]
  /\ mounted = FALSE /\ held = {}
  /\ open = FALSE /\ unsynced = <<>> /\ filename = 0
  /\ lastStartNumber = 0 /\ fileCount = 0 /\ lastFlush = 0 /\ lastMillis = 0
  /\ error = FALSE
  /\ now = 0 /\ pc = "setup" /\ back = "serial"
  /\ delayLeft = 0 /\ turned = FALSE
  /\ finished = {} /\ interrupted = {} /\ exhausted = FALSE
  /\ age = 0 /\ fileAge = 0 /\ idle = 0 /\ rotated = Hour
  /\ lostByPower = FALSE /\ stale = FALSE
  /\ dataCount = 0 /\ faults = 0

-----------------------------------------------------------------------------
(***************************************************************************)
(* Writing, closing and opening dataFile, all through one block of cache   *)
(* (SdVolume::cacheFetch): a block that is held costs no transfer, and one *)
(* that cannot be fetched leaves the cache as it is.  The search of the    *)
(* root directory begins with its first block, so that without a card only *)
(* that block's names are found, and only while it is held.                *)
(***************************************************************************)
\* What is found in the cache once the block with the entry of n is held.
EntryBlock(n) == IF n \in FirstBlock THEN files \cap FirstBlock ELSE {}

\* write() fetches a block of data.  Without a card this fails, unless the file
\* ends with a block, whose successor needs no reading.
heldAfterWrite(records) ==
  IF open /\ records # <<>> THEN IF mounted THEN {{}} ELSE {held, {}} ELSE {held}

\* writeData(): only an open file takes records.
write(records) ==
  /\ unsynced' = IF open THEN unsynced \o records ELSE unsynced
  /\ held' \in heldAfterWrite(records)

\* sd.begin(): works when a card is in the slot; what the cache held is forgotten.
mount == card /\ mounted' = TRUE /\ held' = {}

\* sd.exists() and open(): without a card (or with one that was not initialised)
\* only the cache can answer.
exists(n) == n \in (IF mounted THEN files ELSE held)

\* sync(): the size in the directory entry now covers the records; it fails if
\* the card is not there (or was put back and not initialised again).
sync(records) ==
  /\ disk' = IF open /\ mounted
             THEN [disk EXCEPT ![filename] = @ \o unsynced \o records]
             ELSE disk
  /\ held' \in IF open /\ mounted /\ unsynced \o records # <<>>
               THEN {EntryBlock(filename)}
               ELSE heldAfterWrite(records)

\* Mutant: a file that cannot be synchronised stays open.
closeOnlyIfSynced(records) ==
  /\ sync(records)
  /\ open' = (open /\ ~mounted)
  /\ unsynced' = IF mounted THEN <<>> ELSE unsynced
  /\ age' = 0

\* dataFile.close(): the file is closed whether or not sync() worked.
close(records) ==
  /\ sync(records)
  /\ open' = FALSE
  /\ unsynced' = <<>>
  /\ age' = 0

Sensors(on, n) == IF on THEN [i \in 1..n |-> "SENSOR"] ELSE <<>>
writeVCC == Sensors(outputVcc, 1)
writeGyroData == Sensors(outputGyro, 2)

-----------------------------------------------------------------------------
(***************************************************************************)
(* setup(): waits for a card, then for the gold cap to load.               *)
(***************************************************************************)
setup ==
  /\ pc = "setup"
  /\ mount
  /\ clock' = SetupTicks
  /\ lastMillis' = SetupTicks
  /\ pc' = "top"
  /\ UNCHANGED <<capAge, delayLeft, turned, slot, storage, handle,
                 lastStartNumber, fileCount, lastFlush, error, now, back, seen,
                 ages, bounds>>

(***************************************************************************)
(* The top of loop(): the clock, the voltage and the switch are read, once *)
(* per turn, and decide the branch.                                        *)
(***************************************************************************)
\* Mutant: the voltage is not looked at.
ShutdownBySwitchOnly == stopSwitch

Shutdown == supply = "cap" \/ stopSwitch

Top ==
  /\ pc = "top"
  /\ now' = clock
  /\ turned' = TRUE
  /\ pc' = IF Shutdown
           THEN IF open THEN "shutdown" ELSE "halt"
           ELSE IF open THEN "serial" ELSE "stopLogger"
  /\ back' = IF Shutdown THEN "halt" ELSE "serial"
  /\ delayLeft' = IF Shutdown /\ ~open THEN HaltTicks ELSE 0
  /\ UNCHANGED <<clock, capAge, slot, storage, volume, handle, counters, seen,
                 ages, bounds>>

\* The records that say why, before stopLogger().
ShutdownReason ==
  /\ pc = "shutdown"
  /\ write(writeVCC \o <<"REASON">>)
  /\ pc' = "stopLogger"
  /\ UNCHANGED <<time, slot, storage, mounted, open, filename, counters, now,
                 back, seen, ages, bounds>>

\* delay(10000) is over.
HaltEnds ==
  /\ pc = "halt"
  /\ delayLeft = 0
  /\ pc' = "top"
  /\ UNCHANGED <<time, slot, storage, volume, handle, counters, now, back, seen,
                 ages, bounds>>

(***************************************************************************)
(* stopLogger(): called in the shutdown branch and by newFile().           *)
(***************************************************************************)
\* Mutant: the file is closed before the stop record is written.
stopLoggerClosesFirst ==
  /\ pc = "stopLogger"
  /\ close(<<>>)
  /\ finished' = IF open /\ mounted THEN finished \cup {filename} ELSE finished
  /\ pc' = IF back = "halt" THEN "halt" ELSE "begin"
  /\ delayLeft' = IF back = "halt" THEN HaltTicks ELSE 0
  /\ UNCHANGED <<clock, capAge, turned, slot, files, mounted, filename, counters,
                 now, back, interrupted, exhausted, lostByPower, stale, fileAge,
                 idle, rotated, bounds>>

stopLogger ==
  /\ pc = "stopLogger"
  /\ close(<<"STOP">>)
  /\ finished' = IF open /\ mounted THEN finished \cup {filename} ELSE finished
  /\ pc' = IF back = "halt" THEN "halt" ELSE "begin"
  /\ delayLeft' = IF back = "halt" THEN HaltTicks ELSE 0
  /\ UNCHANGED <<clock, capAge, turned, slot, files, mounted, filename, counters,
                 now, back, interrupted, exhausted, lostByPower, stale, fileAge,
                 idle, rotated, bounds>>

-----------------------------------------------------------------------------
(***************************************************************************)
(* newFile(): after stopLogger() it waits for a card, looks for a number   *)
(* no file has, checks the free space, creates the file and writes the     *)
(* first two records.  The result of open() is not looked at.              *)
(***************************************************************************)
\* Mutant: waits for a card with space.
BeginWaitsForSpace ==
  /\ pc = "begin"
  /\ mount /\ space
  /\ pc' = "search"
  /\ UNCHANGED <<time, slot, storage, handle, counters, now, back, seen, ages,
                 bounds>>

Begin ==
  /\ pc = "begin"
  /\ mount
  /\ pc' = "search"
  /\ UNCHANGED <<time, slot, storage, handle, counters, now, back, seen, ages,
                 bounds>>

\* Mutant: the loop goes one number too far.
FreeNumbersOneTooMany ==
  {n \in (lastStartNumber + 1)..(LastName + 1) : ~exists(n)}

\* Mutant: exists() is not asked.
FreeNumbersNotAsked == (lastStartNumber + 1)..LastName

\* The numbers the search accepts.
FreeNumbers == {n \in (lastStartNumber + 1)..LastName : ~exists(n)}

FirstFree == CHOOSE n \in FreeNumbers : \A m \in FreeNumbers : n <= m

\* The loop ends without a break: filename holds the last number it tried.
SearchFindsNone ==
  /\ FreeNumbers = {}
  /\ filename' = IF lastStartNumber < LastName THEN LastName ELSE 0
  /\ exhausted' = TRUE
  /\ held' = IF mounted /\ lastStartNumber < LastName THEN EntryBlock(LastName) ELSE held
  /\ UNCHANGED <<storage, open, unsynced, counters, stale, fileAge, idle>>

\* freeClusterCount() is huge when it fails, so without a card open() is tried.
EnoughSpace == mounted => space

SearchFindsNoSpace ==
  /\ FreeNumbers # {}
  /\ ~EnoughSpace
  /\ filename' = FirstFree
  /\ error' = TRUE
  /\ UNCHANGED <<storage, held, open, unsynced, lastStartNumber, fileCount,
                 lastFlush, lastMillis, exhausted, stale, fileAge, idle>>

\* open() with O_CREAT needs a free entry in the root directory.
RootHasRoom == Cardinality(files) < RootEntries
CanCreate == mounted /\ RootHasRoom

\* When the card goes before the new entry is written, it stays in the cache.
MadeInCache ==
  IF ~mounted /\ RootHasRoom /\ FirstFree \notin files
  THEN {FirstFree} \cap FirstBlock ELSE {}

SearchOpens ==
  /\ FreeNumbers # {}
  /\ EnoughSpace
  /\ filename' = FirstFree
  /\ lastStartNumber' = FirstFree
  /\ IF CanCreate
     THEN /\ files' = files \cup {FirstFree}
          /\ open' = TRUE
          /\ held' = EntryBlock(FirstFree) \cup ({FirstFree} \cap FirstBlock)
          /\ idle' = 0 /\ stale' = FALSE
     ELSE /\ held' \in {held, held \cup MadeInCache}
          /\ UNCHANGED <<files, open, idle, stale>>
  /\ fileAge' = 0
  /\ UNCHANGED <<disk, unsynced, fileCount, lastFlush, lastMillis, error, exhausted>>

Search ==
  /\ pc = "search"
  /\ SearchFindsNone \/ SearchFindsNoSpace \/ SearchOpens
  /\ pc' = "start"
  /\ UNCHANGED <<time, slot, mounted, now, back, finished, interrupted,
                 lostByPower, age, rotated, bounds>>

\* Mutant: only the first file gets its head.
StartRecordsOnce ==
  /\ pc = "start"
  /\ write(IF fileCount = 0 THEN <<"START", "CONFIG">> ELSE <<>>)
  /\ pc' = back
  /\ UNCHANGED <<time, slot, storage, mounted, open, filename, counters, now,
                 back, seen, ages, bounds>>

StartRecords ==
  /\ pc = "start"
  /\ write(<<"START", "CONFIG">>)
  /\ pc' = back
  /\ UNCHANGED <<time, slot, storage, mounted, open, filename, counters, now,
                 back, seen, ages, bounds>>

(***************************************************************************)
(* testSerialA() and testSerialB(): at most one record each; what comes    *)
(* while no file is open is forgotten.                                     *)
(***************************************************************************)
testSerial ==
  /\ pc = "serial"
  /\ \E n \in 0..2 :
       /\ dataCount + n <= MaxData
       /\ write([i \in 1..n |-> "DATA"])
       /\ dataCount' = dataCount + n
  /\ pc' = "second"
  /\ UNCHANGED <<time, slot, storage, mounted, open, filename, counters, now,
                 back, seen, ages, faults>>

(***************************************************************************)
(* The part of loop() that runs once a second: sensor records, then a new  *)
(* file when an hour has begun, else a flush when a minute has.            *)
(***************************************************************************)
NotYet ==
  /\ pc = "second"
  /\ ~secondPassed
  /\ pc' = "top"
  /\ UNCHANGED <<time, slot, storage, volume, handle, counters, now, back, seen,
                 ages, bounds>>

EverySecond(records, next) ==
  /\ pc = "second"
  /\ secondPassed
  /\ lastMillis' = now
  /\ write(writeGyroData \o writeVCC \o records)
  /\ pc' = next
  /\ UNCHANGED <<time, slot, storage, mounted, open, filename, lastStartNumber,
                 fileCount, lastFlush, error, now, seen, ages, bounds>>

NewFileByTime ==
  /\ nowCount > fileCount
  /\ EverySecond(<<"REASON">>, "stopLogger")
  /\ back' = "count"

FlushByTime ==
  /\ nowCount <= fileCount
  /\ nowFlush # lastFlush
  /\ EverySecond(<<>>, "flushClose")
  /\ UNCHANGED back

NothingDue ==
  /\ nowCount <= fileCount
  /\ nowFlush = lastFlush
  /\ EverySecond(<<>>, "top")
  /\ UNCHANGED back

\* fileCount++ after newFile(): a byte.
Count ==
  /\ pc = "count"
  /\ fileCount' = (fileCount + 1) % ByteMod
  /\ rotated' = 0
  /\ pc' = "top"
  /\ UNCHANGED <<time, slot, storage, volume, handle, lastStartNumber, lastFlush,
                 lastMillis, error, now, back, seen, age, fileAge, idle, bounds>>

(***************************************************************************)
(* flushFile(): close(), then open() of whatever filename names, which     *)
(* creates nothing.                                                        *)
(***************************************************************************)
FlushClose ==
  /\ pc = "flushClose"
  /\ close(<<>>)
  /\ pc' = "flushOpen"
  /\ UNCHANGED <<time, slot, files, mounted, filename, counters, now, back, seen,
                 fileAge, idle, rotated, bounds>>

\* Mutant: open() is taken to have worked.
FlushOpenAssumed ==
  /\ pc = "flushOpen"
  /\ open' = (filename # 0)
  /\ held' \in IF mounted THEN {EntryBlock(filename), {}} ELSE {held}
  /\ stale' = (stale \/ (~mounted /\ exists(filename)))
  /\ lastFlush' = nowFlush
  /\ pc' = "top"
  /\ UNCHANGED <<time, slot, storage, mounted, unsynced, filename,
                 lastStartNumber, fileCount, lastMillis, error, now, back,
                 finished, interrupted, exhausted, lostByPower, ages, bounds>>

\* To find the end of a file longer than a cluster open() reads the FAT; when that
\* fails the file is open all the same.
FlushOpen ==
  /\ pc = "flushOpen"
  /\ open' = exists(filename)
  /\ held' \in IF mounted THEN {EntryBlock(filename), {}} ELSE {held}
  /\ stale' = (stale \/ (~mounted /\ exists(filename)))
  /\ lastFlush' = nowFlush
  /\ pc' = "top"
  /\ UNCHANGED <<time, slot, storage, mounted, unsynced, filename,
                 lastStartNumber, fileCount, lastMillis, error, now, back,
                 finished, interrupted, exhausted, lostByPower, ages, bounds>>

-----------------------------------------------------------------------------
(***************************************************************************)
(* The environment.                                                        *)
(***************************************************************************)
Waits == \/ pc = "top" /\ turned
         \/ pc \in {"setup", "begin"} /\ ~card
         \/ pc = "halt" /\ delayLeft > 0

Recording == open /\ mounted

\* Nothing keeps the logger from recording, and no number or space is missing.
Usable ==
  /\ card /\ space /\ supply = "on" /\ ~stopSwitch /\ ~exhausted
  /\ RootHasRoom

Tick ==
  /\ supply # "off"
  /\ Waits
  /\ clock < MaxClock
  /\ clock' = (clock + 1) % ClockMod
  /\ turned' = FALSE
  /\ capAge' = IF supply = "cap" /\ capAge < CapTicks THEN capAge + 1 ELSE capAge
  /\ delayLeft' = IF delayLeft > 0 THEN delayLeft - 1 ELSE 0
  /\ age' = IF unsynced # <<>> THEN age + 1 ELSE 0
  /\ fileAge' = IF open THEN fileAge + 1 ELSE 0
  /\ idle' = IF Usable /\ ~Recording THEN idle + 1 ELSE 0
  /\ rotated' = IF rotated < Hour THEN rotated + 1 ELSE rotated
  /\ UNCHANGED <<slot, storage, volume, handle, counters, control, seen, bounds>>

\* The file that is in use: open, or closed for a moment by flushFile().
InUse == IF open \/ pc = "flushOpen" THEN {filename} \cap files ELSE {}

Disturb == faults < MaxFaults /\ faults' = faults + 1

\* What the switch, the supply and the card do leaves the program where it is
\* (idle counts the ticks between two such events).
ProgramUnchanged ==
  /\ idle' = 0
  /\ UNCHANGED <<clock, delayLeft, turned, storage, handle, counters, control,
                 finished, exhausted, lostByPower, stale, age, fileAge, rotated,
                 dataCount>>

SwitchMoves ==
  /\ stopSwitch' = ~stopSwitch
  /\ IF stopSwitch THEN UNCHANGED faults ELSE Disturb
  /\ ProgramUnchanged
  /\ UNCHANGED <<supply, capAge, card, space, volume, interrupted>>

SupplyMoves ==
  /\ \/ supply = "on" /\ supply' = "cap" /\ Disturb
     \/ supply = "cap" /\ supply' = "on" /\ UNCHANGED faults
  /\ capAge' = 0
  /\ ProgramUnchanged
  /\ UNCHANGED <<stopSwitch, card, space, volume, interrupted>>

\* What a pull within newFile()'s search or flushFile()'s close() leaves in the
\* cache: the directory block they have just read.
CutShort ==
  CASE mounted /\ pc = "search" -> {files \cap FirstBlock}
    [] mounted /\ pc = "flushClose" /\ unsynced # <<>> -> {EntryBlock(filename)}
    [] OTHER -> {}

CardPulled ==
  /\ card /\ card' = FALSE
  /\ mounted' = FALSE
  /\ held' \in {held} \cup CutShort
  /\ interrupted' = interrupted \cup InUse
  /\ Disturb
  /\ ProgramUnchanged
  /\ UNCHANGED <<supply, capAge, stopSwitch, space>>

CardInserted ==
  /\ ~card /\ card' = TRUE
  /\ ProgramUnchanged
  /\ UNCHANGED <<supply, capAge, stopSwitch, space, volume, interrupted, faults>>

SpaceRunsOut ==
  /\ space /\ space' = FALSE
  /\ Disturb
  /\ ProgramUnchanged
  /\ UNCHANGED <<supply, capAge, stopSwitch, card, volume, interrupted>>

(***************************************************************************)
(* The cap is empty: everything in memory is gone.                         *)
(***************************************************************************)
PowerCut ==
  /\ supply = "cap" /\ capAge >= CapTicks
  /\ supply' = "off"
  /\ pc' = "off"
  /\ interrupted' = interrupted \cup InUse
  /\ lostByPower' = (lostByPower \/
                     (Recording /\ unsynced # <<>> /\ fileAge >= CapTicks))
  /\ mounted' = FALSE /\ held' = {}
  /\ open' = FALSE /\ unsynced' = <<>> /\ filename' = 0
  /\ lastStartNumber' = 0 /\ fileCount' = 0 /\ lastFlush' = 0 /\ lastMillis' = 0
  /\ error' = FALSE
  /\ clock' = 0 /\ now' = 0 /\ back' = "serial" /\ delayLeft' = 0
  /\ turned' = FALSE /\ capAge' = 0
  /\ stale' = FALSE
  /\ age' = 0 /\ fileAge' = 0 /\ idle' = 0 /\ rotated' = Hour
  /\ UNCHANGED <<stopSwitch, card, space, storage, finished, exhausted, bounds>>

PowerOn ==
  /\ supply = "off"
  /\ supply' = "on"
  /\ pc' = "setup"
  /\ UNCHANGED <<time, stopSwitch, card, space, storage, volume, handle,
                 counters, now, back, seen, ages, bounds>>

-----------------------------------------------------------------------------
NewFile == Begin \/ Search \/ StartRecords
Housekeeping == NotYet \/ NewFileByTime \/ FlushByTime \/ NothingDue \/ Count
                       \/ FlushClose \/ FlushOpen

Program == setup \/ Top \/ ShutdownReason \/ HaltEnds \/ stopLogger \/ NewFile
                 \/ testSerial \/ Housekeeping

Environment == Tick \/ SwitchMoves \/ SupplyMoves \/ CardPulled \/ CardInserted
                    \/ SpaceRunsOut \/ PowerCut \/ PowerOn

Next == Program \/ Environment

Spec == Init /\ [][Next]_vars

\* The program runs whenever it can, and time passes while it waits.
FairSpec == Spec /\ WF_vars(Program) /\ WF_vars(Tick)

-----------------------------------------------------------------------------
(***************************************************************************)
(* Every variable has its type.                                            *)
(***************************************************************************)
ClockTypes ==
  /\ clock \in 0..(ClockMod - 1) /\ now \in 0..(ClockMod - 1)
  /\ lastMillis \in 0..(ClockMod - 1)
  /\ capAge \in Nat /\ delayLeft \in Nat /\ turned \in BOOLEAN

SlotTypes ==
  /\ supply \in {"on", "cap", "off"}
  /\ stopSwitch \in BOOLEAN /\ card \in BOOLEAN /\ space \in BOOLEAN
  /\ mounted \in BOOLEAN

FileTypes ==
  /\ files \subseteq Name /\ disk \in [Name -> Seq(Record)]
  /\ open \in BOOLEAN /\ unsynced \in Seq(Record) /\ filename \in {0} \cup Name
  /\ held \subseteq Name

CounterTypes ==
  /\ lastStartNumber \in 0..LastName /\ fileCount \in 0..(ByteMod - 1)
  /\ lastFlush \in 0..(ByteMod - 1) /\ error \in BOOLEAN

ControlTypes ==
  /\ pc \in {"off", "setup", "top", "shutdown", "halt", "stopLogger", "begin",
             "search", "start", "serial", "second", "count", "flushClose",
             "flushOpen"}
  /\ back \in {"serial", "halt", "count"}

HistoryTypes ==
  /\ finished \subseteq Name /\ interrupted \subseteq Name
  /\ exhausted \in BOOLEAN /\ lostByPower \in BOOLEAN /\ stale \in BOOLEAN
  /\ age \in Nat /\ fileAge \in Nat /\ idle \in Nat /\ rotated \in Nat
  /\ dataCount \in Nat /\ faults \in Nat

TypeOK == ClockTypes /\ SlotTypes /\ FileTypes /\ CounterTypes /\ ControlTypes
                     /\ HistoryTypes

(***************************************************************************)
(* The handle and the card agree: an open file is the one filename names,  *)
(* on a card that is mounted there is such a file, and only an open file   *)
(* has records outstanding.  What the cache holds is on the mounted card.  *)
(* The file that is in use, or that flushFile() would open again, is not   *)
(* one that was finished, until newFile() finds no free number.            *)
(***************************************************************************)
HandleMatches ==
  /\ open => filename \in Name /\ (mounted => filename \in files)
  /\ ~open => unsynced = <<>>
  /\ pc \in {"off", "setup", "begin", "search", "flushOpen"} => ~open
  /\ supply = "off" => pc = "off"
  /\ mounted => card /\ held \subseteq files
  /\ finished \subseteq files

WritesOrReopens ==
  open \/ pc \in {"start", "serial", "second", "count", "flushClose", "flushOpen"}

NameIsFresh ==
  WritesOrReopens /\ mounted /\ ~exhausted => filename \notin finished

FileInv == HandleMatches /\ NameIsFresh

(***************************************************************************)
(* The records of the open file: its head is written in one piece at its   *)
(* creation and reaches the card with the first sync, and its end is the   *)
(* stop record, unless the card or the supply went while it was in use.    *)
(***************************************************************************)
Headed(s) == Len(s) >= 2 /\ s[1] = "START" /\ s[2] = "CONFIG"
Stopped(s) == s # <<>> /\ s[Len(s)] = "STOP"

UnusedIsEmpty == \A n \in Name \ files : disk[n] = <<>>

\* The file in use, and the closed one that flushFile() would find in this turn.
InFile ==
  \/ open
  \/ pc \in {"start", "serial", "second", "count", "flushClose", "flushOpen"}
     /\ exists(filename)

PulledIsKnown == ~mounted /\ InFile /\ filename \in files => filename \in interrupted

\* A turn that goes on to write has no closed file left to write to.
HeadsMatch ==
  /\ \A n \in files : disk[n] = <<>> \/ Headed(disk[n])
  /\ Recording => IF pc = "start" THEN disk[filename] = <<>> /\ unsynced = <<>>
                                   ELSE Headed(disk[filename] \o unsynced)
  /\ mounted /\ ~open /\ pc \in {"start", "serial", "second", "count", "flushClose"}
       => filename \notin files
  /\ mounted /\ pc = "flushOpen" /\ filename \in files => Headed(disk[filename])

StopsMatch ==
  /\ \A n \in files \ (interrupted \cup InUse) : Stopped(disk[n])
  /\ ~mounted /\ pc = "flushOpen" /\ filename \in files \ interrupted
       => Stopped(disk[filename])

RecordsMatch ==
  UnusedIsEmpty /\ (~exhausted => PulledIsKnown /\ HeadsMatch /\ StopsMatch)

(***************************************************************************)
(* On the cap a turn that goes on to write has begun before the first tick *)
(* of the cap or of the file, so that no file stays open for two ticks of  *)
(* both.                                                                   *)
(***************************************************************************)
WritesOn ==
  \/ pc \in {"begin", "search", "start", "serial", "second", "count",
             "flushClose", "flushOpen"}
  \/ pc = "stopLogger" /\ back # "halt"
  \/ pc = "top" /\ turned /\ open

ShutdownInTime ==
  /\ pc = "halt" => ~open
  /\ pc \in {"begin", "search", "start", "serial", "second", "count",
             "flushClose", "flushOpen"} => back # "halt"
  /\ pc = "shutdown" => back = "halt"
  /\ supply = "cap" /\ open => capAge <= 1 \/ fileAge <= 1
  /\ supply = "cap" /\ WritesOn => capAge = 0 \/ fileAge = 0

(***************************************************************************)
(* Time, as long as millis() is positive as a long and neither the byte of *)
(* the minute nor that of the hour has come round.  A turn that goes on    *)
(* beyond the test of the second has set lastMillis; one that ends with an *)
(* open file has looked at the second less than one after lastMillis.      *)
(***************************************************************************)
CountersFit ==
  /\ SetupTicks <= MaxClock /\ MaxClock < ClockMod \div 2
  /\ MaxClock < Minute * ByteMod /\ MaxClock < Hour * ByteMod /\ MaxClock < Hour * WordMod

HourDue == pc = "count" \/ (back = "count" /\ pc \in {"stopLogger", "begin", "search", "start"})

TurnsInTime ==
  /\ clock <= MaxClock /\ now <= clock /\ lastMillis <= clock
  /\ turned => now = clock
  /\ pc \in {"off", "setup"} => ~turned /\ now = 0 /\ lastFlush = 0 /\ fileCount = 0
  /\ HourDue \/ pc \in {"flushClose", "flushOpen"} => lastMillis = now
  /\ pc = "top" /\ turned /\ open => clock <= lastMillis + Second

\* When the minute of the last flush and the hour counted last began.
MinuteBegan == lastFlush * Minute
HourBegan == fileCount * Hour

\* What is not flushed is from the minute of the last flush or later; when the
\* second was last looked at, no whole minute had passed since.
FlushesInTime ==
  /\ unsynced = <<>> => age = 0
  /\ MinuteBegan + age <= clock
  /\ pc \notin {"stopLogger", "flushClose"} => lastMillis + age < clock + Minute
  /\ age <= Minute + Second

\* The file in use is from the hour that was counted last or later.
RotatesInTime ==
  /\ HourBegan <= clock
  /\ HourDue => HourBegan + Hour <= now
  /\ ~exhausted /\ InFile =>
       /\ HourBegan + fileAge <= clock
       /\ fileAge <= Hour + Second
       /\ pc # "stopLogger" => lastMillis + fileAge < clock + Hour
       /\ pc \in {"start", "count"} => fileAge = 0

\* Where nothing has kept a usable logger from recording since the last event.
NotIdle ==
  /\ idle > 0 => supply = "on" /\ ~stopSwitch /\ card /\ space
  /\ pc = "shutdown" \/ (pc = "stopLogger" /\ back = "halt") => idle = 0
  /\ pc = "search" => mounted \/ idle = 0
  /\ pc \in {"start", "serial", "second", "count", "flushClose"} /\ ~open /\ Usable => idle = 0
  /\ ~exhausted /\ mounted /\ InFile => idle = 0

\* What keeps it is a halt that began before, a search whose card was exchanged, or
\* an open file whose card was: a file until the next flush, or, once a flush has
\* found it in the cache, for as long as it is used.
IdleLimit == (IF stale THEN Hour ELSE Minute) + Second

\* The logger has been idle no longer than it has had the file that is in use.
IdleByFile == ~exhausted /\ InFile => idle <= fileAge

IdleEnds ==
  /\ pc = "halt" => idle + delayLeft <= HaltTicks /\ (turned => idle = 0)
  /\ ~exhausted /\ ~stale /\ open =>
       /\ MinuteBegan + idle <= clock
       /\ idle <= Minute + Second
       /\ pc \notin {"stopLogger", "flushClose"} => lastMillis + idle < clock + Minute
  /\ Usable /\ (pc = "flushOpen" \/ (pc = "top" /\ turned /\ ~open)) => idle <= IdleLimit
  /\ HaltTicks > 0 => idle <= IdleLimit + HaltTicks

ResumesInTime == NotIdle /\ IdleByFile /\ IdleEnds

TimesMatch ==
  CountersFit => TurnsInTime /\ FlushesInTime /\ RotatesInTime /\ ResumesInTime

HandleInv == FileInv /\ RecordsMatch /\ ShutdownInTime /\ TimesMatch

(***************************************************************************)
(* While a card is there, no record waits longer than a minute (and the    *)
(* second it takes to notice) before the file is closed and opened again.  *)
(* Claimed by flushFile() ("Will be calles once a minute"); not so when    *)
(* ByteMod minutes pass between two looks at the minute, because lastFlush *)
(* is a byte.                                                              *)
(***************************************************************************)
FlushedEveryMinute == mounted => age <= Minute + Second

(***************************************************************************)
(* A data file spans no more than the hour after which loop() starts a new *)
(* one, whatever happened before it was created.                           *)
(***************************************************************************)
FileSpansAnHour == Recording /\ ~exhausted => fileAge <= Hour + Second

(***************************************************************************)
(* Every data file with contents begins with the start and configuration   *)
(* records, whatever was pulled or cut before the first flush, as long as  *)
(* newFile() has found a free number every time.                           *)
(***************************************************************************)
StartsWithHeader ==
  ~exhausted => \A n \in files :
    disk[n] # <<>> => SubSeq(disk[n], 1, 2) = <<"START", "CONFIG">>

(***************************************************************************)
(* A data file that is not in use ends with the stop record, unless the    *)
(* card or the supply was taken away while it was in use, and then at the  *)
(* latest the name search or the flush gave up.                            *)
(***************************************************************************)
EndsWithStop ==
  ~exhausted => \A n \in files \ (interrupted \cup InUse) :
                  disk[n] # <<>> /\ disk[n][Len(disk[n])] = "STOP"

(***************************************************************************)
(* A finished file is never written again and no later recording gets its  *)
(* name, as long as newFile() has found a free number every time.          *)
(***************************************************************************)
FinishedIsFinal ==
  [][~exhausted' => \A n \in finished : n \in finished' /\ disk'[n] = disk[n]]_vars

(***************************************************************************)
(* When the gold cap lasts for CapTicks, the loop notices the dropped      *)
(* supply and closes the file before the power is gone.  (A file created   *)
(* on the cap may still be lost: newFile() does not look at the voltage    *)
(* while it waits for a card.)                                             *)
(***************************************************************************)
ShutdownKeepsRecords == ~lostByPower

(***************************************************************************)
(* The logger records again soon after nothing keeps it from doing so: a   *)
(* halt ends, and an open file whose card was exchanged is noticed at the  *)
(* next flush, or, if that found the file in the block cache although the  *)
(* card was gone, when the next hour begins a new file.                    *)
(***************************************************************************)
ResumesSoon == idle <= (IF stale THEN Hour ELSE Minute) + Second + HaltTicks

(***************************************************************************)
(* Every turn of loop() ends, unless there is no card or no power (or the  *)
(* bound on the clock stops a delay).                                      *)
(***************************************************************************)
TurnEnds ==
  pc # "top" ~> (pc = "top" \/ ~card \/ supply = "off" \/ clock = MaxClock)

(***************************************************************************)
(* Claimed by the header of OpenSeaMap.ino ("every hour the system will    *)
(* generate a new file"): two new files by time are an hour apart.         *)
(***************************************************************************)
HourlyFile == [][pc = "count" /\ pc' = "top" => rotated + Second + 1 >= Hour]_vars

(***************************************************************************)
(* Claimed by newFile() ("only open a new file if it doesn't exist"):      *)
(* nothing is recorded into a file of an earlier recording.                *)
(***************************************************************************)
OnlyNewFiles == [][\A n \in finished : disk'[n] = disk[n]]_vars
=============================================================================
