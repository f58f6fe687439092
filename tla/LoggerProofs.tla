---------------------------- MODULE LoggerProofs ----------------------------
(***************************************************************************)
(* What holds of the main loop and its data files for every choice of the  *)
(* constants: the types; the file handle and, with it, that a finished     *)
(* file is never touched again; the head and the end of every file on the  *)
(* card; that the gold cap is enough to close a file; and the times within *)
(* which the loop flushes, begins a new file and records again.            *)
(***************************************************************************)
EXTENDS Logger, RingLemmas

USE LoggerAssumption DEF volume

\* The quotient of the clock and a period is an integer, and a remainder fits.
LEMMA Casts ==
  ASSUME NEW a \in Int, NEW b \in Nat \ {0}, NEW N \in Nat \ {0}
  PROVE  Quot(a, b) \in Int /\ a % N \in 0..(N - 1)
BY DEF Quot

\* The minute that flushFile() is called for is a byte.
LEMMA FlushIsByte ==
  ASSUME now \in Int
  PROVE  nowFlush \in 0..(ByteMod - 1)
<1>1. Signed(now) \in Int
  BY DEF Signed
<1> QED BY <1>1, Casts DEF nowFlush

\* Joining records gives records.
LEMMA Joined ==
  ASSUME NEW s \in Seq(Record), NEW t \in Seq(Record)
  PROVE  s \o t \in Seq(Record)
OBVIOUS

\* It does not matter which records are joined first.
LEMMA JoinedInTurn ==
  ASSUME NEW r \in Seq(Record), NEW s \in Seq(Record), NEW t \in Seq(Record)
  PROVE  r \o (s \o t) = (r \o s) \o t
OBVIOUS

\* What the sensor functions and the shutdown branch write are records.
LEMMA SensorRecords ==
  /\ writeVCC \in Seq(Record) /\ writeGyroData \in Seq(Record)
  /\ <<>> \in Seq(Record) /\ <<"REASON">> \in Seq(Record)
  /\ <<"STOP">> \in Seq(Record) /\ <<"START", "CONFIG">> \in Seq(Record)
  /\ \A n \in Nat : [i \in 1..n |-> "DATA"] \in Seq(Record)
<1>1. [i \in 1..1 |-> "SENSOR"] \in Seq(Record) /\ [i \in 1..2 |-> "SENSOR"] \in Seq(Record)
  BY DEF Record
<1>2. writeVCC \in Seq(Record) /\ writeGyroData \in Seq(Record)
  BY <1>1 DEF writeVCC, writeGyroData, Sensors
<1>3. <<"REASON">> \in Seq(Record) /\ <<"STOP">> \in Seq(Record)
  BY DEF Record
<1>4. <<"START", "CONFIG">> \in Seq(Record)
  BY DEF Record
<1>5. \A n \in Nat : [i \in 1..n |-> "DATA"] \in Seq(Record)
  BY DEF Record
<1> QED BY <1>2, <1>3, <1>4, <1>5

\* The first free number is free, and a number of a data file.
LEMMA FirstFreeIsFree ==
  ASSUME lastStartNumber \in 0..LastName, FreeNumbers # {}
  PROVE  FirstFree \in FreeNumbers /\ FirstFree \in Name
<1>1. FreeNumbers \subseteq Nat /\ FreeNumbers \subseteq Name
  BY DEF FreeNumbers, exists, Name
<1>2. \E n \in FreeNumbers : \A m \in FreeNumbers : n <= m
  BY <1>1, Least
<1>3. FirstFree \in FreeNumbers
  BY <1>2 DEF FirstFree
<1> QED BY <1>1, <1>3

\* What the theorems show to be invariant.
LoggerInv == TypeOK /\ FileInv

\* The file in use has the number of a data file.
LEMMA InUseIsName ==
  ASSUME TypeOK
  PROVE  InUse \subseteq Name
BY DEF TypeOK, FileTypes, InUse

\* What the cache holds of the directory is on the card it was read from: writing
\* adds nothing to it, and closing a file brings in the block of its entry.
LEMMA EntryBlockIs ==
  ASSUME NEW n
  PROVE  EntryBlock(n) \subseteq files
BY DEF EntryBlock

LEMMA WriteHeld ==
  ASSUME NEW records, write(records)
  PROVE  held' \subseteq held
BY DEF write, heldAfterWrite

LEMMA SyncHeld ==
  ASSUME NEW records, sync(records)
  PROVE  held' \subseteq held \/ (open /\ mounted /\ held' \subseteq files)
BY EntryBlockIs DEF sync, heldAfterWrite

LEMMA CutShortIs ==
  ASSUME NEW h \in CutShort
  PROVE  /\ mounted /\ h \subseteq files
         /\ pc = "search" \/ (pc = "flushClose" /\ unsynced # <<>>)
BY EntryBlockIs DEF CutShort

\* A name that is made in the cache alone is free there and on the card.
LEMMA MadeInCacheIs ==
  ASSUME NEW n \in MadeInCache
  PROVE  n = FirstFree /\ ~mounted /\ n \notin files
BY DEF MadeInCache

\* Closing the file keeps the types: the file that is open has a name.
LEMMA CloseTypes ==
  ASSUME TypeOK, FileInv, NEW records \in Seq(Record), close(records)
  PROVE  /\ disk' \in [Name -> Seq(Record)]
         /\ open' = FALSE /\ unsynced' \in Seq(Record) /\ age' \in Nat
         /\ held' \subseteq Name
<1>1. unsynced \in Seq(Record) /\ disk \in [Name -> Seq(Record)]
  BY DEF TypeOK, FileTypes
<1>3. held' \subseteq Name
  BY SyncHeld DEF close, TypeOK, FileTypes
<1>2. CASE open /\ mounted
  <2>1. filename \in Name
    BY <1>2 DEF TypeOK, FileTypes, FileInv, HandleMatches
  <2>2. (disk[filename] \o unsynced) \o records \in Seq(Record)
    BY <1>1, <2>1, Joined
  <2>3. disk' \in [Name -> Seq(Record)]
    BY <1>1, <1>2, <2>1, <2>2 DEF close, sync
  <2> QED BY <1>3, <2>3, SensorRecords DEF close, sync
<1>4. CASE ~(open /\ mounted)
  BY <1>1, <1>3, <1>4, SensorRecords DEF close, sync
<1> QED BY <1>2, <1>4

\* The invariant holds when the logger is switched on for the first time.
LEMMA LoggerInit == Init => LoggerInv
<1> SUFFICES ASSUME Init PROVE LoggerInv
  OBVIOUS
<1>1. TypeOK
  <2>1. disk \in [Name -> Seq(Record)] /\ unsynced \in Seq(Record)
    BY SensorRecords DEF Init
  <2>2. 0 \in 0..(ClockMod - 1) /\ 0 \in 0..(ByteMod - 1) /\ 0 \in 0..LastName
        /\ Hour \in Nat
    OBVIOUS
  <2> QED BY <2>1, <2>2 DEF Init, TypeOK, ClockTypes, SlotTypes, FileTypes,
           CounterTypes, ControlTypes, HistoryTypes
<1>2. FileInv
  BY DEF Init, FileInv, HandleMatches, NameIsFresh, WritesOrReopens
<1> QED BY <1>1, <1>2 DEF LoggerInv

\* Every step of the program and of its environment keeps it.
LEMMA LoggerStep == LoggerInv /\ [Next]_vars => LoggerInv'
<1> SUFFICES ASSUME TypeOK, FileInv, [Next]_vars PROVE TypeOK' /\ FileInv'
  BY DEF LoggerInv
<1> USE DEF TypeOK
<1>1. CASE setup
  <2>1. TypeOK'
    BY <1>1 DEF ClockTypes, setup, mount, time, control, counters, SlotTypes, slot,
           FileTypes, CounterTypes, storage, handle, ControlTypes, HistoryTypes,
           seen, ages, bounds
  <2>2. FileInv'
    BY <1>1 DEF SlotTypes, FileTypes, CounterTypes, FileInv, HandleMatches,
           NameIsFresh, WritesOrReopens, setup, mount, slot, storage, handle, counters,
           control, seen, ages, bounds
  <2> QED BY <2>1, <2>2
<1>2. CASE Top
  <2>1. TypeOK'
    BY <1>2 DEF ClockTypes, Top, time, control, counters, SlotTypes, slot,
           FileTypes, CounterTypes, storage, handle, ControlTypes, HistoryTypes,
           seen, ages, bounds
  <2>2. FileInv'
    BY <1>2 DEF SlotTypes, FileTypes, CounterTypes, FileInv, HandleMatches,
           NameIsFresh, WritesOrReopens, Top, slot, storage, handle, counters,
           control, seen, ages, bounds
  <2> QED BY <2>1, <2>2
<1>3. CASE ShutdownReason
  <2>1. TypeOK'
    BY <1>3, SensorRecords, Joined, WriteHeld DEF ClockTypes, ShutdownReason, write, time,
           control, counters, SlotTypes, slot, FileTypes, CounterTypes, storage,
           handle, ControlTypes, HistoryTypes, seen, ages, bounds
  <2>2. FileInv'
    BY <1>3, WriteHeld DEF SlotTypes, FileTypes, CounterTypes, FileInv, HandleMatches,
           NameIsFresh, WritesOrReopens, ShutdownReason, write, slot, storage,
           handle, counters, control, seen, ages, bounds
  <2> QED BY <2>1, <2>2
<1>4. CASE HaltEnds
  <2>1. TypeOK'
    BY <1>4 DEF ClockTypes, HaltEnds, time, control, counters, SlotTypes, slot,
           FileTypes, CounterTypes, storage, handle, ControlTypes, HistoryTypes,
           seen, ages, bounds
  <2>2. FileInv'
    BY <1>4 DEF SlotTypes, FileTypes, CounterTypes, FileInv, HandleMatches,
           NameIsFresh, WritesOrReopens, HaltEnds, slot, storage, handle,
           counters, control, seen, ages, bounds
  <2> QED BY <2>1, <2>2
<1>5. CASE stopLogger
  <2>1. ClockTypes'
    BY <1>5 DEF ClockTypes, stopLogger, close, sync, time, control, counters
  <2>2. SlotTypes'
    BY <1>5 DEF SlotTypes, stopLogger, close, sync, slot
  <2>3. FileTypes'
    BY <1>5, SensorRecords, CloseTypes DEF FileTypes, CounterTypes, FileInv,
           HandleMatches, stopLogger, close, sync, storage, handle
  <2>4. CounterTypes'
    BY <1>5 DEF CounterTypes, ClockTypes, stopLogger, close, sync, counters
  <2>5. ControlTypes'
    BY <1>5 DEF ControlTypes, stopLogger, close, sync, control
  <2>6. HistoryTypes'
    BY <1>5, SensorRecords, CloseTypes DEF HistoryTypes, FileTypes, FileInv,
           HandleMatches, stopLogger, close, sync, seen, ages, bounds
  <2>7. FileInv'
    BY <1>5, SyncHeld DEF SlotTypes, FileTypes, CounterTypes, FileInv, HandleMatches,
           NameIsFresh, WritesOrReopens, stopLogger, close, sync, slot, storage,
           handle, counters, control, seen, ages, bounds
  <2> QED BY <2>1, <2>2, <2>3, <2>4, <2>5, <2>6, <2>7
<1>6. CASE Begin
  <2>1. TypeOK'
    BY <1>6 DEF ClockTypes, Begin, mount, time, control, counters, SlotTypes, slot,
           FileTypes, CounterTypes, storage, handle, ControlTypes, HistoryTypes,
           seen, ages, bounds
  <2>2. FileInv'
    BY <1>6 DEF SlotTypes, FileTypes, CounterTypes, FileInv, HandleMatches,
           NameIsFresh, WritesOrReopens, Begin, mount, slot, storage, handle, counters,
           control, seen, ages, bounds
  <2> QED BY <2>1, <2>2
<1>7. CASE Search
  <2>0. lastStartNumber \in 0..LastName /\ ~open /\ unsynced = <<>>
    BY <1>7 DEF Search, CounterTypes, FileInv, HandleMatches
  <2>1. ClockTypes' /\ SlotTypes' /\ ControlTypes'
    <3>1. ClockTypes'
      BY <1>7 DEF Search, SearchFindsNone, SearchFindsNoSpace, SearchOpens,
                  ClockTypes, time, counters
    <3> QED BY <1>7, <3>1 DEF Search, SlotTypes, ControlTypes, slot
  <2>2. CASE SearchFindsNone
    <3>1. filename' \in {0} \cup Name
      BY <2>0, <2>2 DEF SearchFindsNone, Name
    <3>2. FileTypes' /\ CounterTypes'
      BY <2>2, <3>1, EntryBlockIs DEF SearchFindsNone, FileTypes, CounterTypes, storage, counters
    <3>3. HistoryTypes'
      BY <1>7, <2>2 DEF Search, SearchFindsNone, HistoryTypes, bounds
    <3>4. FileInv'
      BY <1>7, <2>0, <2>2, EntryBlockIs DEF Search, SearchFindsNone, FileInv, HandleMatches,
           NameIsFresh, WritesOrReopens, storage, slot
    <3> QED BY <2>1, <3>2, <3>3, <3>4
  <2>3. CASE SearchFindsNoSpace
    <3>1. filename' = FirstFree /\ FirstFree \in Name /\ FirstFree \in FreeNumbers
      BY <2>0, <2>3, FirstFreeIsFree DEF SearchFindsNoSpace
    <3>2. mounted => FirstFree \notin files
      BY <3>1 DEF FreeNumbers, exists
    <3>3. FileTypes' /\ CounterTypes'
      BY <2>3, <3>1 DEF SearchFindsNoSpace, FileTypes, CounterTypes, storage
    <3>4. HistoryTypes'
      BY <1>7, <2>3 DEF Search, SearchFindsNoSpace, HistoryTypes, bounds
    <3>5. FileInv'
      BY <1>7, <2>0, <2>3, <3>1, <3>2
      DEF Search, SearchFindsNoSpace, FileInv, HandleMatches, NameIsFresh,
          WritesOrReopens, storage, slot
    <3> QED BY <2>1, <3>3, <3>4, <3>5
  <2>4. CASE SearchOpens
    <3>1. filename' = FirstFree /\ FirstFree \in Name /\ FirstFree \in FreeNumbers
      BY <2>0, <2>4, FirstFreeIsFree DEF SearchOpens
    <3>2. mounted => FirstFree \notin files
      BY <3>1 DEF FreeNumbers, exists
    <3>3. CASE CanCreate
      <4>1. files' = files \cup {FirstFree} /\ open' = TRUE /\ held' \subseteq files'
            /\ fileAge' = 0 /\ idle' = 0 /\ stale' = FALSE /\ exhausted' = exhausted
        BY <2>4, <3>3, EntryBlockIs DEF SearchOpens
      <4>2. FileTypes' /\ CounterTypes'
        BY <2>4, <3>1, <4>1 DEF SearchOpens, FileTypes, CounterTypes, Name
      <4>3. HistoryTypes'
        BY <1>7, <4>1 DEF Search, HistoryTypes, bounds
      <4>4. FileInv'
        BY <1>7, <2>0, <2>4, <3>1, <3>2, <4>1
        DEF Search, SearchOpens, FileInv, HandleMatches, NameIsFresh,
            WritesOrReopens, slot
      <4> QED BY <2>1, <4>2, <4>3, <4>4
    <3>4. CASE ~CanCreate
      <4>1. UNCHANGED <<files, open, idle, stale>> /\ fileAge' = 0
            /\ held' \subseteq held \cup (IF mounted THEN {} ELSE {FirstFree})
        BY <2>4, <3>4, MadeInCacheIs DEF SearchOpens
      <4>2. FileTypes' /\ CounterTypes'
        BY <2>4, <3>1, <4>1 DEF SearchOpens, FileTypes, CounterTypes, Name
      <4>3. HistoryTypes'
        BY <1>7, <2>4, <4>1 DEF Search, SearchOpens, HistoryTypes, bounds
      <4>4. FileInv'
        BY <1>7, <2>0, <2>4, <3>1, <3>2, <4>1
        DEF Search, SearchOpens, FileInv, HandleMatches, NameIsFresh,
            WritesOrReopens, slot
      <4> QED BY <2>1, <4>2, <4>3, <4>4
    <3> QED BY <3>3, <3>4
  <2> QED BY <1>7, <2>2, <2>3, <2>4 DEF Search
<1>8. CASE StartRecords
  <2>1. TypeOK'
    BY <1>8, SensorRecords, Joined, WriteHeld DEF ClockTypes, StartRecords, write, time,
           control, counters, SlotTypes, slot, FileTypes, CounterTypes, storage,
           handle, ControlTypes, HistoryTypes, seen, ages, bounds
  <2>2. FileInv'
    BY <1>8, WriteHeld DEF SlotTypes, FileTypes, ControlTypes, FileInv, HandleMatches,
           NameIsFresh, WritesOrReopens, StartRecords, write, slot, storage,
           handle, counters, control, seen, ages, bounds
  <2> QED BY <2>1, <2>2
<1>9. CASE testSerial
  <2>1. ClockTypes'
    BY <1>9 DEF ClockTypes, testSerial, write, time, control, counters
  <2>2. SlotTypes'
    BY <1>9 DEF SlotTypes, testSerial, write, slot
  <2>3. FileTypes'
    <3>1. PICK n \in 0..2 : write([i \in 1..n |-> "DATA"])
      BY <1>9 DEF testSerial
    <3>5. n \in Nat /\ unsynced \in Seq(Record)
      BY DEF FileTypes
    <3>2. [i \in 1..n |-> "DATA"] \in Seq(Record)
      BY <3>5, SensorRecords, Zenon
    <3>3. unsynced' = unsynced \o [i \in 1..n |-> "DATA"] \/ unsynced' = unsynced
      BY <3>1 DEF write
    <3>4. unsynced' \in Seq(Record)
      BY <3>5, <3>2, <3>3, Joined
    <3>6. held' \subseteq held
      BY <3>1, WriteHeld
    <3> QED BY <1>9, <3>4, <3>6 DEF FileTypes, testSerial, storage
  <2>4. CounterTypes'
    BY <1>9 DEF CounterTypes, ClockTypes, testSerial, write, counters
  <2>5. ControlTypes'
    BY <1>9 DEF ControlTypes, testSerial, write, control
  <2>6. HistoryTypes'
    BY <1>9 DEF HistoryTypes, FileTypes, testSerial, write, seen, ages, bounds
  <2>7. FileInv'
    BY <1>9, WriteHeld DEF SlotTypes, FileTypes, CounterTypes, FileInv, HandleMatches,
           NameIsFresh, WritesOrReopens, testSerial, write, slot, storage,
           handle, counters, control, seen, ages, bounds
  <2> QED BY <2>1, <2>2, <2>3, <2>4, <2>5, <2>6, <2>7
<1>10. CASE NotYet
  <2>1. TypeOK'
    BY <1>10 DEF ClockTypes, NotYet, time, control, counters, SlotTypes, slot,
           FileTypes, CounterTypes, storage, handle, ControlTypes, HistoryTypes,
           seen, ages, bounds
  <2>2. FileInv'
    BY <1>10 DEF SlotTypes, FileTypes, CounterTypes, FileInv, HandleMatches,
           NameIsFresh, WritesOrReopens, NotYet, slot, storage, handle,
           counters, control, seen, ages, bounds
  <2> QED BY <2>1, <2>2
<1>11. CASE NewFileByTime
  <2>1. TypeOK'
    BY <1>11, SensorRecords, Joined, WriteHeld DEF ClockTypes, NewFileByTime, EverySecond,
           write, time, control, counters, SlotTypes, slot, FileTypes,
           CounterTypes, storage, handle, ControlTypes, HistoryTypes, seen,
           ages, bounds
  <2>2. FileInv'
    BY <1>11, WriteHeld DEF SlotTypes, FileTypes, CounterTypes, FileInv, HandleMatches,
           NameIsFresh, WritesOrReopens, NewFileByTime, EverySecond, write,
           slot, storage, handle, counters, control, seen, ages, bounds
  <2> QED BY <2>1, <2>2
<1>12. CASE FlushByTime
  <2>1. TypeOK'
    BY <1>12, SensorRecords, Joined, WriteHeld DEF ClockTypes, FlushByTime, EverySecond,
           write, time, control, counters, SlotTypes, slot, FileTypes,
           CounterTypes, storage, handle, ControlTypes, HistoryTypes, seen,
           ages, bounds
  <2>2. FileInv'
    BY <1>12, WriteHeld DEF SlotTypes, FileTypes, CounterTypes, FileInv, HandleMatches,
           NameIsFresh, WritesOrReopens, FlushByTime, EverySecond, write, slot,
           storage, handle, counters, control, seen, ages, bounds
  <2> QED BY <2>1, <2>2
<1>13. CASE NothingDue
  <2>1. TypeOK'
    BY <1>13, SensorRecords, Joined, WriteHeld DEF ClockTypes, NothingDue, EverySecond,
           write, time, control, counters, SlotTypes, slot, FileTypes,
           CounterTypes, storage, handle, ControlTypes, HistoryTypes, seen,
           ages, bounds
  <2>2. FileInv'
    BY <1>13, WriteHeld DEF SlotTypes, FileTypes, CounterTypes, FileInv, HandleMatches,
           NameIsFresh, WritesOrReopens, NothingDue, EverySecond, write, slot,
           storage, handle, counters, control, seen, ages, bounds
  <2> QED BY <2>1, <2>2
<1>14. CASE Count
  <2>1. TypeOK'
    BY <1>14, Casts DEF ClockTypes, Count, time, control, counters, SlotTypes,
           slot, FileTypes, CounterTypes, storage, handle, ControlTypes,
           HistoryTypes, seen, ages, bounds
  <2>2. FileInv'
    BY <1>14 DEF SlotTypes, FileTypes, CounterTypes, FileInv, HandleMatches,
           NameIsFresh, WritesOrReopens, Count, slot, storage, handle, counters,
           control, seen, ages, bounds
  <2> QED BY <2>1, <2>2
<1>15. CASE FlushClose
  <2>1. ClockTypes'
    BY <1>15 DEF ClockTypes, FlushClose, close, sync, time, control, counters
  <2>2. SlotTypes'
    BY <1>15 DEF SlotTypes, FlushClose, close, sync, slot
  <2>3. FileTypes'
    BY <1>15, SensorRecords, CloseTypes DEF FileTypes, CounterTypes, FileInv,
           HandleMatches, FlushClose, close, sync, storage, handle
  <2>4. CounterTypes'
    BY <1>15 DEF CounterTypes, ClockTypes, FlushClose, close, sync, counters
  <2>5. ControlTypes'
    BY <1>15 DEF ControlTypes, FlushClose, close, sync, control
  <2>6. HistoryTypes'
    BY <1>15, SensorRecords, CloseTypes DEF HistoryTypes, FileTypes, FileInv,
           HandleMatches, FlushClose, close, sync, seen, ages, bounds
  <2>7. FileInv'
    BY <1>15, SyncHeld DEF SlotTypes, FileTypes, CounterTypes, FileInv, HandleMatches,
           NameIsFresh, WritesOrReopens, FlushClose, close, sync, slot, storage,
           handle, counters, control, seen, ages, bounds
  <2> QED BY <2>1, <2>2, <2>3, <2>4, <2>5, <2>6, <2>7
<1>16. CASE FlushOpen
  <2>1. TypeOK'
    BY <1>16, FlushIsByte, EntryBlockIs DEF ClockTypes, FlushOpen, exists, time, control, counters,
           SlotTypes, slot, FileTypes, CounterTypes, storage, handle,
           ControlTypes, HistoryTypes, seen, ages, bounds
  <2>2. FileInv'
    BY <1>16, EntryBlockIs DEF SlotTypes, FileTypes, CounterTypes, FileInv, HandleMatches,
           NameIsFresh, WritesOrReopens, FlushOpen, exists, slot, storage, handle,
           counters, control, seen, ages, bounds
  <2> QED BY <2>1, <2>2
<1>17. CASE Tick
  <2>1. ClockTypes'
    <3>1. clock' \in 0..(ClockMod - 1)
      BY <1>17, Casts DEF ClockTypes, Tick
    <3>2. capAge' \in Nat /\ delayLeft' \in Nat
      BY <1>17 DEF ClockTypes, Tick
    <3> QED BY <1>17, <3>1, <3>2 DEF ClockTypes, Tick, control, counters
  <2>2. SlotTypes'
    BY <1>17 DEF SlotTypes, Tick, slot
  <2>3. FileTypes'
    BY <1>17 DEF FileTypes, CounterTypes, Tick, storage, handle
  <2>4. CounterTypes'
    BY <1>17 DEF CounterTypes, ClockTypes, Tick, counters
  <2>5. ControlTypes'
    BY <1>17 DEF ControlTypes, Tick, control
  <2>6. HistoryTypes'
    BY <1>17 DEF HistoryTypes, FileTypes, Tick, seen, ages, bounds
  <2>7. FileInv'
    BY <1>17 DEF SlotTypes, FileTypes, CounterTypes, FileInv, HandleMatches,
           NameIsFresh, WritesOrReopens, Tick, slot, storage, handle, counters,
           control, seen, ages, bounds
  <2> QED BY <2>1, <2>2, <2>3, <2>4, <2>5, <2>6, <2>7
<1>18. CASE SwitchMoves
  <2>1. TypeOK'
    BY <1>18 DEF ClockTypes, SwitchMoves, ProgramUnchanged, Disturb, time,
           control, counters, SlotTypes, slot, FileTypes, CounterTypes, storage,
           handle, ControlTypes, HistoryTypes, seen, ages, bounds
  <2>2. FileInv'
    BY <1>18 DEF SlotTypes, FileTypes, CounterTypes, FileInv, HandleMatches,
           NameIsFresh, WritesOrReopens, SwitchMoves, ProgramUnchanged, Disturb,
           slot, storage, handle, counters, control, seen, ages, bounds
  <2> QED BY <2>1, <2>2
<1>19. CASE SupplyMoves
  <2>1. TypeOK'
    BY <1>19 DEF ClockTypes, SupplyMoves, ProgramUnchanged, Disturb, time,
           control, counters, SlotTypes, slot, FileTypes, CounterTypes, storage,
           handle, ControlTypes, HistoryTypes, seen, ages, bounds
  <2>2. FileInv'
    BY <1>19 DEF SlotTypes, FileTypes, CounterTypes, FileInv, HandleMatches,
           NameIsFresh, WritesOrReopens, SupplyMoves, ProgramUnchanged, Disturb,
           slot, storage, handle, counters, control, seen, ages, bounds
  <2> QED BY <2>1, <2>2
<1>20. CASE CardPulled
  <2>1. ClockTypes'
    BY <1>20 DEF ClockTypes, CardPulled, ProgramUnchanged, Disturb, time,
           control, counters
  <2>2. SlotTypes'
    BY <1>20 DEF SlotTypes, CardPulled, ProgramUnchanged, Disturb, slot
  <2>3. FileTypes'
    BY <1>20, CutShortIs DEF FileTypes, CounterTypes, CardPulled, ProgramUnchanged, Disturb,
           storage, handle
  <2>4. CounterTypes'
    BY <1>20 DEF CounterTypes, ClockTypes, CardPulled, ProgramUnchanged,
           Disturb, counters
  <2>5. ControlTypes'
    BY <1>20 DEF ControlTypes, CardPulled, ProgramUnchanged, Disturb, control
  <2>6. HistoryTypes'
    BY <1>20, InUseIsName DEF HistoryTypes, FileTypes, CardPulled,
           ProgramUnchanged, Disturb, seen, ages, bounds
  <2>7. FileInv'
    BY <1>20, CutShortIs DEF SlotTypes, FileTypes, CounterTypes, FileInv, HandleMatches,
           NameIsFresh, WritesOrReopens, CardPulled, ProgramUnchanged, Disturb,
           slot, storage, handle, counters, control, seen, ages, bounds
  <2> QED BY <2>1, <2>2, <2>3, <2>4, <2>5, <2>6, <2>7
<1>21. CASE CardInserted
  <2>1. TypeOK'
    BY <1>21 DEF ClockTypes, CardInserted, ProgramUnchanged, time, control,
           counters, SlotTypes, slot, FileTypes, CounterTypes, storage, handle,
           ControlTypes, HistoryTypes, seen, ages, bounds
  <2>2. FileInv'
    BY <1>21 DEF SlotTypes, FileTypes, CounterTypes, FileInv, HandleMatches,
           NameIsFresh, WritesOrReopens, CardInserted, ProgramUnchanged, slot,
           storage, handle, counters, control, seen, ages, bounds
  <2> QED BY <2>1, <2>2
<1>22. CASE SpaceRunsOut
  <2>1. TypeOK'
    <3>1. ClockTypes' /\ CounterTypes' /\ ControlTypes'
      BY <1>22 DEF SpaceRunsOut, ProgramUnchanged, ClockTypes, CounterTypes,
                   ControlTypes, counters, control
    <3>2. SlotTypes' /\ FileTypes'
      BY <1>22 DEF SpaceRunsOut, ProgramUnchanged, SlotTypes, FileTypes,
                   storage, handle
    <3>3. HistoryTypes'
      BY <1>22 DEF SpaceRunsOut, ProgramUnchanged, Disturb, HistoryTypes
    <3> QED BY <3>1, <3>2, <3>3
  <2>2. FileInv'
    BY <1>22 DEF SlotTypes, FileTypes, CounterTypes, FileInv, HandleMatches,
           NameIsFresh, WritesOrReopens, SpaceRunsOut, ProgramUnchanged,
           Disturb, slot, storage, handle, counters, control, seen, ages, bounds
  <2> QED BY <2>1, <2>2
<1>23. CASE PowerCut
  <2>1. ClockTypes'
    <3>1. 0 \in 0..(ClockMod - 1) /\ 0 \in 0..(ByteMod - 1) /\ 0 \in 0..LastName
      OBVIOUS
    <3> QED BY <1>23, <3>1 DEF ClockTypes, PowerCut
  <2>2. SlotTypes'
    BY <1>23 DEF SlotTypes, PowerCut, slot
  <2>3. FileTypes'
    BY <1>23, SensorRecords DEF FileTypes, PowerCut, storage
  <2>4. CounterTypes'
    <3>1. 0 \in 0..(ClockMod - 1) /\ 0 \in 0..(ByteMod - 1) /\ 0 \in 0..LastName
      OBVIOUS
    <3> QED BY <1>23, <3>1 DEF CounterTypes, PowerCut
  <2>5. ControlTypes'
    BY <1>23 DEF ControlTypes, PowerCut, control
  <2>6. HistoryTypes'
    BY <1>23, InUseIsName DEF HistoryTypes, FileTypes, PowerCut, seen, ages,
           bounds
  <2>7. FileInv'
    BY <1>23 DEF SlotTypes, FileTypes, CounterTypes, FileInv, HandleMatches,
           NameIsFresh, WritesOrReopens, PowerCut, slot, storage, handle,
           counters, control, seen, ages, bounds
  <2> QED BY <2>1, <2>2, <2>3, <2>4, <2>5, <2>6, <2>7
<1>24. CASE PowerOn
  <2>1. TypeOK'
    BY <1>24 DEF ClockTypes, PowerOn, time, control, counters, SlotTypes, slot,
           FileTypes, CounterTypes, storage, handle, ControlTypes, HistoryTypes,
           seen, ages, bounds
  <2>2. FileInv'
    BY <1>24 DEF SlotTypes, FileTypes, CounterTypes, FileInv, HandleMatches,
           NameIsFresh, WritesOrReopens, PowerOn, slot, storage, handle,
           counters, control, seen, ages, bounds
  <2> QED BY <2>1, <2>2
<1>25. CASE UNCHANGED vars
  <2>1. TypeOK'
    BY <1>25 DEF vars, ClockTypes, SlotTypes, FileTypes, CounterTypes,
           ControlTypes, HistoryTypes, time, slot, storage, handle, counters,
           control, seen, ages, bounds
  <2>2. FileInv'
    BY <1>25 DEF vars, FileInv, HandleMatches, NameIsFresh, WritesOrReopens,
           slot, storage, handle, counters, control, seen, ages, bounds
  <2> QED BY <2>1, <2>2
<1> QED BY <1>1, <1>2, <1>3, <1>4, <1>5, <1>6, <1>7, <1>8, <1>9, <1>10, <1>11,
           <1>12, <1>13, <1>14, <1>15, <1>16, <1>17, <1>18, <1>19, <1>20, <1>21,
           <1>22, <1>23, <1>24, <1>25
       DEF Next, Program, Environment, NewFile, Housekeeping

-----------------------------------------------------------------------------
\* The invariant holds in every reachable state.
LEMMA LoggerInvariant == Spec => []LoggerInv
BY LoggerInit, LoggerStep, PTL DEF Spec

\* The variables of loop(), of newFile() and of the file handle keep their types:
\* the clock its 32 bits, the counts their byte, the file number its range.
THEOREM TypeCorrect == Spec => []TypeOK
<1>1. LoggerInv => TypeOK
  BY DEF LoggerInv
<1> QED BY <1>1, LoggerInvariant, PTL

\* What is closed is the file of the handle, which was not finished.
LEMMA CloseKeepsFinished ==
  ASSUME LoggerInv, NEW records, close(records), ~exhausted, NEW n \in finished,
         WritesOrReopens \/ ~open
  PROVE  disk'[n] = disk[n]
<1>1. CASE open /\ mounted
  <2>1. filename # n
    BY <1>1 DEF LoggerInv, FileInv, NameIsFresh, WritesOrReopens
  <2>2. disk \in [Name -> Seq(Record)] /\ n \in Name
    BY DEF LoggerInv, TypeOK, FileTypes, HistoryTypes
  <2> QED BY <1>1, <2>1, <2>2 DEF close, sync
<1>2. CASE ~(open /\ mounted)
  BY <1>2 DEF close, sync
<1> QED BY <1>1, <1>2

\* A data file that was closed with everything on the card is never written
\* again and stays a finished file, while newFile() finds free numbers.
THEOREM FinishedFilesKept == Spec => FinishedIsFinal
<1> DEFINE kept == ~exhausted' =>
                     \A n \in finished : n \in finished' /\ disk'[n] = disk[n]
<1>1. ASSUME LoggerInv, [Next]_vars PROVE kept
  <2> SUFFICES ASSUME ~exhausted', NEW n \in finished
               PROVE  n \in finished' /\ disk'[n] = disk[n]
    OBVIOUS
  <2>1. CASE stopLogger
    BY <1>1, <2>1, CloseKeepsFinished DEF stopLogger, WritesOrReopens
  <2>2. CASE FlushClose
    BY <1>1, <2>2, CloseKeepsFinished DEF FlushClose, seen, WritesOrReopens
  <2>3. CASE setup \/ Top \/ ShutdownReason \/ HaltEnds \/ Begin \/ StartRecords
             \/ testSerial
    BY <2>3 DEF setup, Top, ShutdownReason, HaltEnds, Begin, StartRecords, testSerial,
                storage, seen
  <2>4. CASE Search
    BY <2>4 DEF Search, SearchFindsNone, SearchFindsNoSpace, SearchOpens, storage
  <2>5. CASE NotYet \/ NewFileByTime \/ FlushByTime \/ NothingDue \/ Count \/ FlushOpen
    BY <2>5 DEF NotYet, NewFileByTime, FlushByTime, NothingDue, Count, FlushOpen,
                EverySecond, storage, seen
  <2>6. CASE Environment
    BY <2>6 DEF Environment, Tick, SwitchMoves, SupplyMoves, CardPulled, CardInserted,
                SpaceRunsOut, PowerCut, PowerOn, ProgramUnchanged, storage, seen
  <2>7. CASE UNCHANGED vars
    BY <2>7 DEF vars, storage, seen
  <2> QED BY <1>1, <2>1, <2>2, <2>3, <2>4, <2>5, <2>6, <2>7
          DEF Next, Program, NewFile, Housekeeping
<1>2. LoggerInv /\ [Next]_vars => [kept]_vars
  BY <1>1
<1> QED BY <1>2, LoggerInvariant, PTL DEF Spec, FinishedIsFinal
-----------------------------------------------------------------------------
\* Records that are appended leave the head of a file where it is.
LEMMA HeadedJoined ==
  ASSUME NEW s \in Seq(Record), NEW t \in Seq(Record), Headed(s)
  PROVE  s \o t # <<>> /\ Headed(s \o t)
BY DEF Headed

\* Also when they are appended to what is not on the card yet.
LEMMA HeadedLater ==
  ASSUME NEW r \in Seq(Record), NEW s \in Seq(Record), NEW t \in Seq(Record),
         Headed(r \o s)
  PROVE  Headed(r \o (s \o t))
<1>1. Headed((r \o s) \o t)
  BY HeadedJoined, Joined
<1>2. r \o (s \o t) = (r \o s) \o t
  BY JoinedInTurn
<1> QED BY <1>1, <1>2

\* A file that was written up to its stop record ends with it.
LEMMA StoppedJoined ==
  ASSUME NEW s \in Seq(Record)
  PROVE  Stopped(s \o <<"STOP">>)
<1>1. <<"STOP">> \in Seq(Record) /\ Len(<<"STOP">>) = 1 /\ <<"STOP">>[1] = "STOP"
  BY DEF Record
<1>2. Len(s \o <<"STOP">>) = Len(s) + 1 /\ (s \o <<"STOP">>)[Len(s) + 1] = "STOP"
  BY <1>1
<1> QED BY <1>2 DEF Stopped

\* Records, names and card as the steps below need them.
LEMMA RecordTypes ==
  ASSUME LoggerInv
  PROVE  /\ unsynced \in Seq(Record) /\ disk \in [Name -> Seq(Record)]
         /\ files \subseteq Name /\ held \subseteq Name
         /\ open => filename \in Name /\ (mounted => filename \in files)
         /\ (~open => unsynced = <<>>)
BY DEF LoggerInv, TypeOK, FileTypes, FileInv, HandleMatches

\* A step that leaves the card and the file alone keeps what the records promise
\* if it goes on to write only where the step before did, or with an open file.
LEMMA RecordsQuiet ==
  ASSUME RecordsMatch,
         UNCHANGED <<files, disk, mounted, held, open, unsynced, filename,
                     interrupted, exhausted>>,
         \/ pc' = pc
         \/ pc # "start" /\ pc # "flushOpen" /\ pc' # "start" /\ pc' # "flushOpen"
            /\ (open \/ pc' \notin {"serial", "second", "count", "flushClose"}
                     \/ pc \in {"serial", "second", "count", "flushClose"})
  PROVE  RecordsMatch'
BY DEF RecordsMatch, UnusedIsEmpty, PulledIsKnown, HeadsMatch, StopsMatch, Recording,
       InUse, InFile, exists

\* The same for a step that appends records to the open file.
LEMMA RecordsWritten ==
  ASSUME LoggerInv, RecordsMatch, NEW records \in Seq(Record), write(records),
         UNCHANGED <<files, disk, mounted, open, filename, interrupted, exhausted>>,
         pc # "start" /\ pc # "flushOpen" /\ pc' # "start" /\ pc' # "flushOpen",
         open \/ pc' \notin {"serial", "second", "count", "flushClose"}
              \/ pc \in {"serial", "second", "count", "flushClose"}
  PROVE  RecordsMatch'
<1>1. UnusedIsEmpty' /\ held' \subseteq held
  BY WriteHeld DEF RecordsMatch, UnusedIsEmpty
<1>2. ASSUME ~exhausted' PROVE PulledIsKnown' /\ HeadsMatch' /\ StopsMatch'
  <2>1. PulledIsKnown /\ HeadsMatch /\ StopsMatch
    BY <1>2 DEF RecordsMatch
  <2>5. PulledIsKnown'
    BY <1>1, <2>1 DEF PulledIsKnown, InFile, exists
  <2>2. ASSUME Recording' PROVE Headed(disk'[filename'] \o unsynced')
    <3>1. open /\ filename \in Name /\ disk[filename] \in Seq(Record)
          /\ unsynced \in Seq(Record)
      BY <2>2, RecordTypes DEF Recording
    <3>2. Headed(disk[filename] \o unsynced)
      BY <2>1, <2>2 DEF HeadsMatch, Recording
    <3>3. Headed(disk[filename] \o (unsynced \o records))
      BY <3>1, <3>2, HeadedLater
    <3>4. disk'[filename'] \o unsynced' = disk[filename] \o (unsynced \o records)
      BY <3>1 DEF write
    <3> QED BY <3>3, <3>4
  <2>3. HeadsMatch'
    BY <2>1, <2>2 DEF HeadsMatch, Recording
  <2>4. StopsMatch'
    BY <2>1 DEF StopsMatch, InUse
  <2> QED BY <2>3, <2>4, <2>5
<1> QED BY <1>1, <1>2 DEF RecordsMatch

\* Initialising a card while no file is open changes nothing for the records.
LEMMA RecordsMounted ==
  ASSUME LoggerInv, RecordsMatch, setup \/ Begin
  PROVE  RecordsMatch'
<1>1. ~open /\ pc' \in {"top", "search"} /\ pc # "flushOpen"
      /\ UNCHANGED <<files, disk, open, unsynced, filename, interrupted, exhausted>>
  BY DEF setup, Begin, LoggerInv, FileInv, HandleMatches, storage, handle, seen
<1> QED BY <1>1 DEF RecordsMatch, UnusedIsEmpty, PulledIsKnown, HeadsMatch, StopsMatch,
                    Recording, InUse, InFile

\* The end of a recording: the stop record goes to the card with all the others,
\* or the card was pulled and that is known.
LEMMA RecordsStopped ==
  ASSUME LoggerInv, RecordsMatch, stopLogger
  PROVE  RecordsMatch'
<1> USE RecordTypes DEF stopLogger, close, sync
<1>1. UNCHANGED <<files, mounted, filename, interrupted, exhausted>>
      /\ pc' \in {"halt", "begin"} /\ ~open' /\ unsynced' = <<>>
  OBVIOUS
<1>2. CASE open /\ mounted
  <2>1. filename \in files /\ filename \in Name /\ unsynced \in Seq(Record)
        /\ disk[filename] \in Seq(Record) /\ <<"STOP">> \in Seq(Record)
    BY <1>2, SensorRecords
  <2>2. /\ disk'[filename] = (disk[filename] \o unsynced) \o <<"STOP">>
        /\ \A n \in Name \ {filename} : disk'[n] = disk[n]
    BY <1>2, <2>1
  <2>3. UnusedIsEmpty' /\ PulledIsKnown'
    BY <1>1, <1>2, <2>1, <2>2 DEF RecordsMatch, UnusedIsEmpty, PulledIsKnown
  <2>4. ASSUME ~exhausted' PROVE HeadsMatch' /\ StopsMatch'
    <3>1. HeadsMatch /\ StopsMatch
      BY <1>1, <2>4 DEF RecordsMatch
    <3>2. Headed(disk[filename] \o unsynced)
      BY <1>2, <3>1 DEF HeadsMatch, Recording
    <3>3. Headed(disk'[filename]) /\ Stopped(disk'[filename])
      BY <2>1, <2>2, <3>2, HeadedJoined, StoppedJoined, Joined
    <3>4. HeadsMatch'
      BY <1>1, <2>2, <3>1, <3>3 DEF HeadsMatch, Recording
    <3>5. StopsMatch'
      BY <1>1, <2>2, <3>1, <3>3 DEF StopsMatch, InUse
    <3> QED BY <3>4, <3>5
  <2> QED BY <2>3, <2>4 DEF RecordsMatch
<1>3. CASE ~(open /\ mounted)
  <2>1. disk' = disk
    BY <1>3
  <2> QED BY <1>1, <1>3, <2>1 DEF RecordsMatch, UnusedIsEmpty, PulledIsKnown, HeadsMatch,
             StopsMatch, Recording, InUse, InFile
<1> QED BY <1>2, <1>3

\* The first half of a flush: what was outstanding goes to the card.
LEMMA RecordsFlushed ==
  ASSUME LoggerInv, RecordsMatch, FlushClose
  PROVE  RecordsMatch'
<1> USE RecordTypes DEF FlushClose, close, sync
<1>1. UNCHANGED <<files, mounted, filename, interrupted, exhausted>>
      /\ pc = "flushClose" /\ pc' = "flushOpen" /\ ~open' /\ unsynced' = <<>>
  BY DEF seen
<1>2. CASE open /\ mounted
  <2>1. filename \in files /\ filename \in Name /\ unsynced \in Seq(Record)
        /\ disk[filename] \in Seq(Record)
    BY <1>2
  <2>2. /\ disk'[filename] = disk[filename] \o unsynced
        /\ \A n \in Name \ {filename} : disk'[n] = disk[n]
    BY <1>2, <2>1
  <2>3. UnusedIsEmpty' /\ PulledIsKnown'
    BY <1>1, <1>2, <2>1, <2>2 DEF RecordsMatch, UnusedIsEmpty, PulledIsKnown
  <2>4. ASSUME ~exhausted' PROVE HeadsMatch' /\ StopsMatch'
    <3>1. HeadsMatch /\ StopsMatch
      BY <1>1, <2>4 DEF RecordsMatch
    <3>2. Headed(disk'[filename])
      BY <1>2, <2>2, <3>1 DEF HeadsMatch, Recording
    <3>3. HeadsMatch'
      BY <1>1, <2>2, <3>1, <3>2 DEF HeadsMatch, Recording
    <3>4. StopsMatch'
      BY <1>1, <1>2, <2>2, <3>1 DEF StopsMatch, InUse
    <3> QED BY <3>3, <3>4
  <2> QED BY <2>3, <2>4 DEF RecordsMatch
<1>3. CASE ~(open /\ mounted)
  <2>1. disk' = disk /\ held' \subseteq held
    BY <1>3, SyncHeld
  <2> QED BY <1>1, <1>3, <2>1 DEF RecordsMatch, UnusedIsEmpty, PulledIsKnown, HeadsMatch,
             StopsMatch, Recording, InUse, InFile, exists
<1> QED BY <1>2, <1>3

\* The second half: the file that is opened again has its head on the card, and one
\* that is not there any more was complete or is known as interrupted.
LEMMA RecordsReopened ==
  ASSUME LoggerInv, RecordsMatch, FlushOpen
  PROVE  RecordsMatch'
<1>1. /\ UNCHANGED <<files, disk, mounted, unsynced, filename, interrupted, exhausted>>
      /\ pc = "flushOpen" /\ pc' = "top" /\ open' = exists(filename)
  BY DEF FlushOpen, storage
<1>2. ~open /\ unsynced = <<>> /\ \A n \in files : disk[n] \in Seq(Record)
  BY RecordTypes, <1>1 DEF LoggerInv, FileInv, HandleMatches
<1>3. \A n \in files : disk[n] \o unsynced = disk[n]
  BY <1>2
<1> QED BY <1>1, <1>2, <1>3 DEF RecordsMatch, UnusedIsEmpty, PulledIsKnown, HeadsMatch,
            StopsMatch, Recording, InUse, InFile, exists

\* A new file is empty, and a name that gets no file is not that of a data file.
LEMMA RecordsSearched ==
  ASSUME LoggerInv, RecordsMatch, Search
  PROVE  RecordsMatch'
<1>1. /\ UNCHANGED <<disk, mounted, unsynced, interrupted>>
      /\ pc = "search" /\ pc' = "start" /\ ~open /\ unsynced = <<>>
      /\ lastStartNumber \in 0..LastName
  BY DEF Search, SearchFindsNone, SearchFindsNoSpace, SearchOpens, storage, LoggerInv,
         FileInv, HandleMatches, TypeOK, CounterTypes
<1>2. CASE SearchFindsNone
  BY <1>1, <1>2 DEF SearchFindsNone, storage, RecordsMatch, UnusedIsEmpty
<1>3. CASE SearchFindsNoSpace \/ SearchOpens
  <2>1. filename' = FirstFree /\ FirstFree \in Name /\ ~exists(FirstFree)
        /\ exhausted' = exhausted
    BY <1>1, <1>3, FirstFreeIsFree DEF SearchFindsNoSpace, SearchOpens, FreeNumbers
  <2>2. \/ files' = files /\ ~open'
        \/ files' = files \cup {FirstFree} /\ open' /\ mounted
    BY <1>1, <1>3 DEF SearchFindsNoSpace, SearchOpens, CanCreate, storage
  <2>3. mounted => FirstFree \notin files /\ disk[FirstFree] = <<>>
    BY <2>1 DEF RecordsMatch, UnusedIsEmpty, exists
  <2>4. UnusedIsEmpty'
    BY <1>1, <2>1, <2>2 DEF RecordsMatch, UnusedIsEmpty
  <2>6. ~mounted /\ FirstFree \in files => FirstFree \notin held' /\ ~open'
    <3>1. SearchFindsNoSpace => held' = held
      BY DEF SearchFindsNoSpace
    <3>2. SearchOpens /\ ~mounted => held' \in {held, held \cup MadeInCache}
      BY DEF SearchOpens, CanCreate
    <3> QED BY <1>3, <2>1, <2>2, <3>1, <3>2, MadeInCacheIs DEF exists
  <2>7. PulledIsKnown'
    BY <1>1, <2>1, <2>2, <2>6 DEF PulledIsKnown, InFile, exists
  <2>5. ASSUME ~exhausted' PROVE HeadsMatch' /\ StopsMatch'
    <3>1. HeadsMatch /\ StopsMatch
      BY <2>1, <2>5 DEF RecordsMatch
    <3> QED BY <1>1, <2>1, <2>2, <2>3, <3>1 DEF HeadsMatch, StopsMatch, Recording, InUse
  <2> QED BY <2>4, <2>5, <2>7 DEF RecordsMatch
<1> QED BY <1>2, <1>3 DEF Search

\* The head is the first thing that is written.
LEMMA RecordsStarted ==
  ASSUME LoggerInv, RecordsMatch, StartRecords
  PROVE  RecordsMatch'
<1>1. /\ UNCHANGED <<files, disk, mounted, open, filename, interrupted, exhausted>>
      /\ pc = "start" /\ pc' \in {"serial", "halt", "count"}
      /\ unsynced' = IF open THEN unsynced \o <<"START", "CONFIG">> ELSE unsynced
      /\ held' \subseteq held
  BY WriteHeld DEF StartRecords, write, storage, seen, LoggerInv, TypeOK, ControlTypes
<1>2. Headed(<<>> \o (<<>> \o <<"START", "CONFIG">>))
  <2>1. <<"START", "CONFIG">> \in Seq(Record)
    BY SensorRecords
  <2> QED BY <2>1 DEF Headed
<1> QED BY <1>1, <1>2 DEF RecordsMatch, UnusedIsEmpty, PulledIsKnown, HeadsMatch,
            StopsMatch, Recording, InUse, InFile, exists

\* A card that is pulled and a supply that fails interrupt the file in use.
LEMMA RecordsInterrupted ==
  ASSUME LoggerInv, RecordsMatch, CardPulled \/ PowerCut
  PROVE  RecordsMatch'
<1>1. /\ UNCHANGED <<files, disk, exhausted>> /\ ~mounted'
      /\ interrupted' = interrupted \cup InUse
      /\ \/ pc' = "off" /\ ~open'
         \/ /\ pc' = pc /\ open' = open /\ filename' = filename
            /\ held' = held \/ (mounted /\ (pc = "search" \/ unsynced # <<>>))
  <2>1. CASE CardPulled
    BY <2>1, CutShortIs DEF CardPulled, ProgramUnchanged, storage, handle, control
  <2>2. CASE PowerCut
    BY <2>2 DEF PowerCut, storage
  <2> QED BY <2>1, <2>2
<1>2. open \/ pc = "flushOpen" => {filename} \cap files \subseteq interrupted'
  BY <1>1 DEF InUse
<1>3. ASSUME ~exhausted' PROVE PulledIsKnown'
  <2>1. PulledIsKnown /\ HeadsMatch
    BY <1>1, <1>3 DEF RecordsMatch
  <2>2. CASE open' \/ pc' = "flushOpen"
    BY <1>1, <1>2, <2>2 DEF PulledIsKnown
  <2>3. CASE ~open' /\ pc' # "flushOpen"
    <3>1. CASE mounted
      BY <1>1, <2>1, <2>3, <3>1 DEF PulledIsKnown, HeadsMatch, InFile
    <3>2. CASE ~mounted
      BY <1>1, <2>1, <2>3, <3>2 DEF PulledIsKnown, InFile, exists
    <3> QED BY <3>1, <3>2
  <2> QED BY <2>2, <2>3
<1> QED BY <1>1, <1>2, <1>3, RecordTypes DEF RecordsMatch, UnusedIsEmpty, HeadsMatch,
            StopsMatch, Recording, InUse

\* Every step keeps what the records of the files promise.
LEMMA RecordsStep == LoggerInv /\ RecordsMatch /\ [Next]_vars => RecordsMatch'
<1> SUFFICES ASSUME LoggerInv, RecordsMatch, [Next]_vars PROVE RecordsMatch'
  OBVIOUS
<1>1. CASE setup \/ Begin
  BY <1>1, RecordsMounted
<1>2. CASE Top
  BY <1>2, RecordsQuiet DEF Top, storage, handle, seen
<1>3. CASE HaltEnds \/ NotYet \/ Count \/ PowerOn
  <2>1. /\ UNCHANGED <<files, disk, mounted, held, open, unsynced, filename,
                       interrupted, exhausted>>
        /\ pc \in {"halt", "second", "count", "off"} /\ pc' \in {"top", "setup"}
    BY <1>3 DEF HaltEnds, NotYet, Count, PowerOn, storage, handle, seen, LoggerInv,
                FileInv, HandleMatches
  <2> QED BY <2>1, RecordsQuiet
<1>4. CASE Tick \/ SwitchMoves \/ SupplyMoves \/ CardInserted \/ SpaceRunsOut
  BY <1>4, RecordsQuiet
  DEF Tick, SwitchMoves, SupplyMoves, CardInserted, SpaceRunsOut, ProgramUnchanged,
      storage, handle, control, seen
<1>5. CASE ShutdownReason
  <2>1. writeVCC \o <<"REASON">> \in Seq(Record)
    BY SensorRecords, Joined
  <2> QED BY <1>5, <2>1, RecordsWritten DEF ShutdownReason, storage, seen
<1>6. CASE testSerial
  <2>1. PICK n \in 0..2 : write([i \in 1..n |-> "DATA"])
    BY <1>6 DEF testSerial
  <2>2. n \in Nat
    OBVIOUS
  <2>3. [i \in 1..n |-> "DATA"] \in Seq(Record)
    BY <2>2, SensorRecords, Zenon
  <2> QED BY <1>6, <2>1, <2>3, RecordsWritten DEF testSerial, storage, seen
<1>7. CASE NewFileByTime \/ FlushByTime \/ NothingDue
  <2>1. PICK r \in {<<>>, <<"REASON">>}, next \in {"stopLogger", "flushClose", "top"} :
          EverySecond(r, next)
    BY <1>7 DEF NewFileByTime, FlushByTime, NothingDue
  <2>2. (writeGyroData \o writeVCC) \o r \in Seq(Record)
    BY <2>1, SensorRecords, Joined
  <2> QED BY <2>1, <2>2, RecordsWritten DEF EverySecond, storage, seen
<1>8. CASE StartRecords
  BY <1>8, RecordsStarted
<1>9. CASE stopLogger
  BY <1>9, RecordsStopped
<1>10. CASE Search
  BY <1>10, RecordsSearched
<1>11. CASE FlushClose
  BY <1>11, RecordsFlushed
<1>12. CASE FlushOpen
  BY <1>12, RecordsReopened
<1>13. CASE CardPulled \/ PowerCut
  BY <1>13, RecordsInterrupted
<1>14. CASE UNCHANGED vars
  BY <1>14, RecordsQuiet DEF vars, storage, handle, control, seen
<1> QED BY <1>1, <1>2, <1>3, <1>4, <1>5, <1>6, <1>7, <1>8, <1>9, <1>10, <1>11, <1>12,
           <1>13, <1>14
        DEF Next, Program, Environment, NewFile, Housekeeping

\* With the types and the handle, it holds in every reachable state.
LEMMA RecordsInvariant == Spec => []RecordsMatch
<1>1. Init => RecordsMatch
  BY DEF Init, RecordsMatch, UnusedIsEmpty, PulledIsKnown, HeadsMatch, StopsMatch,
         Recording, InUse, InFile
<1> QED BY <1>1, RecordsStep, LoggerInvariant, PTL DEF Spec

\* Every data file with contents begins with the start and the configuration
\* record, whatever was pulled or cut, while newFile() finds free numbers.
THEOREM HeadsOnCard == Spec => []StartsWithHeader
<1>1. ASSUME LoggerInv, RecordsMatch PROVE StartsWithHeader
  <2> SUFFICES ASSUME ~exhausted, NEW n \in files, disk[n] # <<>>
               PROVE  SubSeq(disk[n], 1, 2) = <<"START", "CONFIG">>
    BY DEF StartsWithHeader
  <2>1. Headed(disk[n]) /\ disk[n] \in Seq(Record)
    BY <1>1, RecordTypes DEF RecordsMatch, HeadsMatch
  <2>2. SubSeq(disk[n], 1, 2) = [i \in 1..2 |-> disk[n][i]]
    BY <2>1 DEF Headed
  <2>3. [i \in 1..2 |-> disk[n][i]] = <<disk[n][1], disk[n][2]>>
    OBVIOUS
  <2> QED BY <2>1, <2>2, <2>3 DEF Headed
<1> QED BY <1>1, LoggerInvariant, RecordsInvariant, PTL

\* A data file that is not in use ends with the stop record, unless the card or the
\* supply went while it was in use, while newFile() finds free numbers.
THEOREM StopsOnCard == Spec => []EndsWithStop
<1>1. RecordsMatch => EndsWithStop
  BY DEF RecordsMatch, StopsMatch, Stopped, EndsWithStop
<1> QED BY <1>1, RecordsInvariant, PTL

-----------------------------------------------------------------------------
\* What a tick of the clock means on the cap: only a turn that looks at the voltage
\* next, or that has no file, lets time pass.
LEMMA ShutdownTick ==
  ASSUME LoggerInv, ShutdownInTime, Tick
  PROVE  ShutdownInTime'
<1>1. /\ UNCHANGED <<pc, back, supply, open>> /\ turned' = FALSE
      /\ capAge \in Nat /\ fileAge \in Nat
      /\ (open => pc = "top" /\ turned)
      /\ pc \notin {"search", "start", "serial", "second", "count", "flushClose",
                    "flushOpen", "stopLogger"}
  BY DEF Tick, Waits, slot, handle, control, LoggerInv, TypeOK, ClockTypes,
         HistoryTypes, FileInv, HandleMatches, ShutdownInTime
<1>2. open => fileAge' = fileAge + 1 /\ (capAge = 0 \/ fileAge = 0 \/ supply # "cap")
  BY <1>1 DEF Tick, ShutdownInTime, WritesOn
<1>3. capAge' \in {capAge, capAge + 1} /\ (~open => fileAge' = 0)
  BY DEF Tick
<1> QED BY <1>1, <1>2, <1>3 DEF ShutdownInTime, WritesOn

\* Every step keeps the order of cap, file and turn.
LEMMA ShutdownStep == LoggerInv /\ ShutdownInTime /\ [Next]_vars => ShutdownInTime'
<1> SUFFICES ASSUME LoggerInv, ShutdownInTime, [Next]_vars PROVE ShutdownInTime'
  OBVIOUS
<1> USE DEF ShutdownInTime, WritesOn
<1>1. CASE Tick
  BY <1>1, ShutdownTick
<1>2. CASE setup
  BY <1>2 DEF setup, slot, handle, ages, LoggerInv, FileInv, HandleMatches
<1>3. CASE Top
  BY <1>3 DEF Top, Shutdown, slot, handle, ages
<1>4. CASE ShutdownReason \/ HaltEnds \/ NotYet \/ Count
  BY <1>4 DEF ShutdownReason, HaltEnds, NotYet, Count, time, slot, handle, ages
<1>5. CASE stopLogger
  BY <1>5 DEF stopLogger, close, slot
<1>6. CASE Begin \/ StartRecords
  BY <1>6 DEF Begin, StartRecords, time, slot, handle, ages, LoggerInv, FileInv,
              HandleMatches, TypeOK, ControlTypes
<1>7. CASE Search
  BY <1>7 DEF Search, SearchFindsNone, SearchFindsNoSpace, SearchOpens, time, slot,
              LoggerInv, FileInv, HandleMatches
<1>8. CASE testSerial
  BY <1>8 DEF testSerial, time, slot, ages
<1>9. CASE NewFileByTime \/ FlushByTime \/ NothingDue
  BY <1>9 DEF NewFileByTime, FlushByTime, NothingDue, EverySecond, time, slot, ages
<1>10. CASE FlushClose
  BY <1>10 DEF FlushClose, close, time, slot
<1>15. CASE FlushOpen
  BY <1>15 DEF FlushOpen, exists, time, slot, ages
<1>11. CASE SwitchMoves \/ CardPulled \/ CardInserted \/ SpaceRunsOut
  BY <1>11 DEF SwitchMoves, CardPulled, CardInserted, SpaceRunsOut, ProgramUnchanged,
               handle, control
<1>12. CASE SupplyMoves
  BY <1>12 DEF SupplyMoves, ProgramUnchanged, handle, control
<1>13. CASE PowerCut \/ PowerOn
  BY <1>13 DEF PowerCut, PowerOn, time, handle, ages, LoggerInv, FileInv, HandleMatches
<1>14. CASE UNCHANGED vars
  BY <1>14 DEF vars, time, slot, handle, control, ages
<1> QED BY <1>1, <1>2, <1>3, <1>4, <1>5, <1>6, <1>7, <1>8, <1>9, <1>10, <1>11, <1>12,
           <1>13, <1>14, <1>15
        DEF Next, Program, Environment, NewFile, Housekeeping

\* It holds in every reachable state.
LEMMA ShutdownInvariant == Spec => []ShutdownInTime
<1>1. Init => ShutdownInTime
  BY DEF Init, ShutdownInTime, WritesOn
<1> QED BY <1>1, ShutdownStep, LoggerInvariant, PTL DEF Spec

-----------------------------------------------------------------------------
\* A number that is below the size of the ring is its own position.
LEMMA Fits ==
  ASSUME NEW n \in Nat, NEW N \in Nat \ {0}, n < N
  PROVE  n % N = n
OBVIOUS

\* How often a period fits into a time.
LEMMA Periods ==
  ASSUME NEW t \in Nat, NEW P \in Nat \ {0}
  PROVE  /\ t \div P \in Nat
         /\ (t \div P) * P <= t /\ t < (t \div P) * P + P
<1>1. t \div P \in Nat /\ t % P \in 0..(P - 1) /\ t = P * (t \div P) + (t % P)
  BY DivRange, ModRange, DivMod
<1> QED BY <1>1

\* Periods that do not fill a ring are counted as they are.
LEMMA PeriodsFit ==
  ASSUME NEW t \in Nat, NEW P \in Nat \ {0}, NEW N \in Nat \ {0}, t < P * N
  PROVE  (t \div P) % N = t \div P
<1> DEFINE q == t \div P
<1>1. q \in Nat /\ q * P <= t
  BY Periods
<1> HIDE DEF q
<1>2. q < N
  <2> SUFFICES ASSUME N <= q PROVE FALSE
    BY <1>1
  <2>1. P * N <= P * q
    BY <1>1
  <2> QED BY <1>1, <2>1
<1> QED BY <1>1, <1>2, Fits DEF q

\* More whole periods take more time.
LEMMA PeriodsMono ==
  ASSUME NEW a \in Nat, NEW b \in Nat, NEW P \in Nat \ {0}, a <= b
  PROVE  a * P <= b * P
OBVIOUS

\* Numbers as the steps below need them.
LEMMA TimeTypes ==
  ASSUME LoggerInv
  PROVE  /\ clock \in Nat /\ now \in Nat /\ lastMillis \in Nat /\ delayLeft \in Nat
         /\ clock < ClockMod /\ now < ClockMod /\ lastMillis < ClockMod
         /\ fileCount \in Nat /\ lastFlush \in Nat
         /\ age \in Nat /\ fileAge \in Nat /\ idle \in Nat
         /\ turned \in BOOLEAN /\ open \in BOOLEAN /\ mounted \in BOOLEAN
BY DEF LoggerInv, TypeOK, ClockTypes, CounterTypes, HistoryTypes, FileTypes, SlotTypes

\* While the counters fit, the clock read as a long is the time of the turn, and the
\* minute and the hour are those that have begun.
LEMMA NowFits ==
  ASSUME CountersFit, LoggerInv, TurnsInTime
  PROVE  Signed(now) = now /\ now <= MaxClock
BY TimeTypes DEF CountersFit, TurnsInTime, Signed

LEMMA MinuteIs ==
  ASSUME CountersFit, LoggerInv, TurnsInTime
  PROVE  /\ nowFlush \in Nat
         /\ nowFlush * Minute <= now /\ now < nowFlush * Minute + Minute
<1>1. now \in Nat /\ now < Minute * ByteMod /\ Signed(now) = now
  <2>1. MaxClock < Minute * ByteMod
    BY DEF CountersFit
  <2>2. Minute * ByteMod \in Nat
    OBVIOUS
  <2> QED BY <2>1, <2>2, TimeTypes, NowFits
<1>2. nowFlush = now \div Minute
  <2>1. Quot(Signed(now), Minute) = now \div Minute
    BY <1>1 DEF Quot
  <2>2. nowFlush = Quot(Signed(now), Minute) % ByteMod
    BY DEF nowFlush
  <2> QED BY <1>1, <2>1, <2>2, PeriodsFit
<1> QED BY <1>1, <1>2, Periods

LEMMA HourIs ==
  ASSUME CountersFit, LoggerInv, TurnsInTime
  PROVE  /\ nowCount \in Nat
         /\ nowCount * Hour <= now /\ now < nowCount * Hour + Hour
<1>1. now \in Nat /\ now < Hour * WordMod /\ Signed(now) = now
  <2>1. MaxClock < Hour * WordMod
    BY DEF CountersFit
  <2>2. Hour * WordMod \in Nat
    OBVIOUS
  <2> QED BY <2>1, <2>2, TimeTypes, NowFits
<1>2. nowCount = now \div Hour
  <2>1. Quot(Signed(now), Hour) = now \div Hour
    BY <1>1 DEF Quot
  <2>2. nowCount = Quot(Signed(now), Hour) % WordMod
    BY DEF nowCount
  <2> QED BY <1>1, <2>1, <2>2, PeriodsFit
<1> QED BY <1>1, <1>2, Periods

\* A turn that does not notice a new second is no more than one after the last.
LEMMA SecondIs ==
  ASSUME LoggerInv, ~secondPassed
  PROVE  now <= lastMillis + Second
<1>1. CASE now < Second
  BY <1>1, TimeTypes
<1>2. CASE now >= Second
  <2>1. now - Second \in Nat /\ now - Second < ClockMod
    BY <1>2, TimeTypes
  <2>2. (now - Second) % ClockMod = now - Second
    BY <2>1, Fits
  <2> QED BY <2>1, <2>2, TimeTypes DEF secondPassed
<1> QED BY <1>1, <1>2, TimeTypes

\* A tick moves the clock on, and an open file waits for it only at the top of a
\* turn that has begun.
LEMMA TickIs ==
  ASSUME CountersFit, LoggerInv, ShutdownInTime, Tick
  PROVE  /\ clock' = clock + 1 /\ clock' <= MaxClock /\ turned' = FALSE
         /\ UNCHANGED <<pc, back, open, unsynced, filename, mounted, files, exhausted,
                        now, lastMillis, lastFlush, fileCount>>
         /\ pc \in {"top", "setup", "begin", "halt"}
         /\ open => pc = "top" /\ turned
<1>1. clock + 1 <= MaxClock /\ clock + 1 < ClockMod /\ clock + 1 \in Nat
  <2>1. clock < MaxClock /\ MaxClock < ClockMod
    BY DEF Tick, CountersFit
  <2> QED BY <2>1, TimeTypes
<1>2. clock' = clock + 1
  BY <1>1, Fits DEF Tick
<1>3. /\ pc \in {"top", "setup", "begin", "halt"}
      /\ open => pc = "top" /\ turned
  BY DEF Tick, Waits, LoggerInv, FileInv, HandleMatches, ShutdownInTime
<1> QED BY <1>1, <1>2, <1>3 DEF Tick, storage, handle, counters, control, seen

-----------------------------------------------------------------------------
\* Every step keeps the order of the clock, the turn and the last second.
LEMMA TurnsStep ==
  ASSUME CountersFit, LoggerInv, ShutdownInTime, TurnsInTime, [Next]_vars
  PROVE  TurnsInTime'
<1> USE TimeTypes DEF TurnsInTime, HourDue
<1>1. CASE Tick
  BY <1>1, TickIs
<1>2. CASE setup
  BY <1>2 DEF setup, CountersFit
<1>3. CASE Top
  BY <1>3 DEF Top, counters
<1>4. CASE ShutdownReason \/ HaltEnds \/ stopLogger \/ Begin
  BY <1>4 DEF ShutdownReason, HaltEnds, stopLogger, Begin, close, time, handle, counters,
              ShutdownInTime
<1>5. CASE Search \/ StartRecords \/ testSerial
  <2>1. /\ UNCHANGED <<clock, turned, now, back, lastFlush, fileCount, lastMillis>>
        /\ \/ pc = "search" /\ pc' = "start"
           \/ pc = "start" /\ pc' = back
           \/ pc = "serial" /\ pc' = "second"
    BY <1>5 DEF Search, SearchFindsNone, SearchFindsNoSpace, SearchOpens, StartRecords,
                testSerial, time, counters
  <2>2. back \in {"serial", "halt", "count"}
    BY DEF LoggerInv, TypeOK, ControlTypes
  <2> QED BY <2>1, <2>2
<1>6. CASE NotYet
  BY <1>6, SecondIs DEF NotYet, time, counters
<1>7. CASE NewFileByTime \/ FlushByTime \/ NothingDue
  BY <1>7 DEF NewFileByTime, FlushByTime, NothingDue, EverySecond, time
<1>8. CASE Count
  BY <1>8 DEF Count, time, handle
<1>9. CASE FlushClose
  BY <1>9 DEF FlushClose, time, counters
<1>14. CASE FlushOpen
  <2>1. UNCHANGED <<clock, now, lastMillis, turned, back>> /\ pc = "flushOpen" /\ pc' = "top"
    BY <1>14 DEF FlushOpen, time
  <2> QED BY <2>1
<1>10. CASE SwitchMoves \/ SupplyMoves \/ CardPulled \/ CardInserted \/ SpaceRunsOut
  BY <1>10 DEF SwitchMoves, SupplyMoves, CardPulled, CardInserted, SpaceRunsOut,
               ProgramUnchanged, handle, counters, control
<1>11. CASE PowerCut
  BY <1>11 DEF PowerCut
<1>12. CASE PowerOn
  BY <1>12 DEF PowerOn, time, handle, counters, LoggerInv, FileInv, HandleMatches
<1>13. CASE UNCHANGED vars
  BY <1>13 DEF vars, time, handle, counters, control
<1> QED BY <1>1, <1>2, <1>3, <1>4, <1>5, <1>6, <1>7, <1>8, <1>9, <1>10, <1>11, <1>12,
           <1>13, <1>14
        DEF Next, Program, Environment, NewFile, Housekeeping

-----------------------------------------------------------------------------
\* Writing to a file empties nothing.
LEMMA WrittenStays ==
  ASSUME LoggerInv, NEW records \in Seq(Record), write(records), unsynced' = <<>>
  PROVE  unsynced = <<>>
<1>1. unsynced \in Seq(Record)
  BY RecordTypes
<1>2. unsynced \o records = <<>> => unsynced = <<>>
  BY <1>1
<1> QED BY <1>2 DEF write

\* What a pass of the once-a-second part writes are records.
LEMMA SecondWrites ==
  ASSUME LoggerInv, NEW records \in Seq(Record), NEW next, EverySecond(records, next),
         unsynced' = <<>>
  PROVE  unsynced = <<>>
<1>1. (writeGyroData \o writeVCC) \o records \in Seq(Record)
  BY SensorRecords, Joined
<1> QED BY <1>1, WrittenStays DEF EverySecond

\* A step that lets no time pass and writes no more than it leaves outstanding.
LEMMA FlushesQuiet ==
  ASSUME FlushesInTime, UNCHANGED <<clock, age, lastFlush, lastMillis>>,
         unsynced' = <<>> => unsynced = <<>>,
         pc \in {"stopLogger", "flushClose"} => pc' = pc
  PROVE  FlushesInTime'
BY DEF FlushesInTime, MinuteBegan

\* Numbers after a step.
LEMMA TypesNext ==
  ASSUME LoggerInv'
  PROVE  /\ clock' \in Nat /\ lastMillis' \in Nat /\ delayLeft' \in Nat
         /\ fileCount' \in Nat /\ lastFlush' \in Nat
         /\ age' \in Nat /\ fileAge' \in Nat /\ idle' \in Nat
BY DEF LoggerInv, TypeOK, ClockTypes, CounterTypes, HistoryTypes

\* The minute and the hour that were counted are times.
LEMMA CountedTimes ==
  ASSUME LoggerInv
  PROVE  MinuteBegan \in Nat /\ HourBegan \in Nat
BY TimeTypes DEF MinuteBegan, HourBegan

LEMMA CountedTimesNext ==
  ASSUME LoggerInv'
  PROVE  MinuteBegan' \in Nat /\ HourBegan' \in Nat
BY TypesNext DEF MinuteBegan, HourBegan

\* A step that leaves nothing outstanding.
LEMMA FlushesEmpty ==
  ASSUME LoggerInv', TurnsInTime', age' = 0, MinuteBegan' <= clock'
  PROVE  FlushesInTime'
BY TypesNext, CountedTimesNext DEF FlushesInTime, TurnsInTime

\* An open file grows older only at the top of a turn that saw no new second.
LEMMA FlushesTick ==
  ASSUME CountersFit, LoggerInv, LoggerInv', ShutdownInTime, TurnsInTime, TurnsInTime',
         FlushesInTime, Tick
  PROVE  FlushesInTime'
<1>1. /\ clock' = clock + 1 /\ UNCHANGED <<pc, unsynced, lastMillis, lastFlush>>
      /\ unsynced # <<>> => pc = "top" /\ clock <= lastMillis + Second
  BY TickIs, RecordTypes DEF TurnsInTime
<1>2. MinuteBegan' = MinuteBegan
  BY <1>1 DEF MinuteBegan
<1>3. age' = IF unsynced # <<>> THEN age + 1 ELSE 0
  BY DEF Tick
<1>4. /\ MinuteBegan + age <= clock /\ lastMillis <= clock
      /\ pc \notin {"stopLogger", "flushClose"} => lastMillis + age < clock + Minute
  BY DEF FlushesInTime, TurnsInTime
<1>5. (unsynced = <<>> => age = 0)'
  BY <1>1, <1>3
<1>6. /\ lastMillis' = lastMillis /\ clock' = clock + 1
      /\ clock \in Nat /\ lastMillis \in Nat /\ MinuteBegan \in Nat /\ age \in Nat
  BY <1>1, TimeTypes, CountedTimes
<1>7. CASE unsynced # <<>>
  <2>1. age' = age + 1 /\ clock <= lastMillis + Second
    BY <1>1, <1>3, <1>7
  <2>2. MinuteBegan + age <= clock /\ lastMillis + age < clock + Minute
    BY <1>1, <1>4, <1>7
  <2>3. (MinuteBegan + age <= clock)'
    BY <1>2, <1>6, <2>1, <2>2
  <2>4. (lastMillis + age < clock + Minute)'
    BY <1>6, <2>1, <2>2
  <2>5. age + 1 <= Minute + Second
    BY <1>6, <2>1, <2>2
  <2> QED BY <1>5, <2>1, <2>3, <2>4, <2>5 DEF FlushesInTime
<1>8. CASE unsynced = <<>>
  <2>1. age' = 0
    BY <1>3, <1>8
  <2>2. MinuteBegan <= clock
    BY <1>4, <1>6
  <2>3. MinuteBegan' <= clock'
    BY <1>2, <1>6, <2>2
  <2> QED BY <2>1, <2>3, FlushesEmpty
<1> QED BY <1>7, <1>8

\* Every step keeps the time of what is outstanding.
LEMMA FlushesStep ==
  ASSUME CountersFit, LoggerInv, LoggerInv', ShutdownInTime, TurnsInTime, TurnsInTime',
         FlushesInTime, [Next]_vars
  PROVE  FlushesInTime'
<1>1. MinuteBegan <= clock /\ (unsynced = <<>> => age = 0)
  BY TimeTypes, CountedTimes DEF FlushesInTime
<1>2. CASE Tick
  BY <1>2, FlushesTick
<1>3. CASE setup \/ PowerCut
  <2>1. age' = 0 /\ lastFlush' = 0
    BY <1>1, <1>3 DEF setup, PowerCut, TurnsInTime, ages, LoggerInv, FileInv, HandleMatches
  <2>2. MinuteBegan' <= clock'
    BY <2>1, TypesNext DEF MinuteBegan
  <2> QED BY <2>1, <2>2, FlushesEmpty
<1>4. CASE stopLogger \/ FlushClose
  <2>1. age' = 0 /\ UNCHANGED <<clock, lastFlush>>
    BY <1>4 DEF stopLogger, FlushClose, close, time, counters
  <2>2. MinuteBegan' = MinuteBegan
    BY <2>1 DEF MinuteBegan
  <2> QED BY <1>1, <2>1, <2>2, FlushesEmpty
<1>5. CASE FlushOpen
  <2>1. age' = 0 /\ UNCHANGED clock /\ lastFlush' = nowFlush
    BY <1>1, <1>5 DEF FlushOpen, time, ages, LoggerInv, FileInv, HandleMatches
  <2>2. nowFlush \in Nat /\ nowFlush * Minute <= now /\ now <= clock
    BY MinuteIs DEF TurnsInTime
  <2>3. nowFlush * Minute \in Nat
    BY <2>2
  <2>4. nowFlush * Minute <= clock
    BY <2>2, <2>3, TimeTypes
  <2>5. MinuteBegan' <= clock'
    BY <2>1, <2>4 DEF MinuteBegan
  <2> QED BY <2>1, <2>5, FlushesEmpty
<1>6. CASE NothingDue
  <2>1. /\ UNCHANGED <<clock, age, lastFlush>> /\ lastMillis' = now
        /\ unsynced' = <<>> => unsynced = <<>>
    BY <1>6, SecondWrites, SensorRecords DEF NothingDue, EverySecond, time, ages
  <2>2. now < MinuteBegan + Minute
    BY <1>6, MinuteIs DEF NothingDue, MinuteBegan
  <2>3. now + age < clock + Minute
    <3>1. MinuteBegan + age <= clock
      BY DEF FlushesInTime
    <3>2. now \in Nat /\ age \in Nat /\ clock \in Nat /\ MinuteBegan \in Nat
      BY TimeTypes, CountedTimes
    <3> QED BY <2>2, <3>1, <3>2
  <2>4. MinuteBegan' = MinuteBegan
    BY <2>1 DEF MinuteBegan
  <2> QED BY <2>1, <2>3, <2>4 DEF FlushesInTime
<1>7. CASE NewFileByTime \/ FlushByTime
  <2>1. /\ UNCHANGED <<clock, age, lastFlush>> /\ pc' \in {"stopLogger", "flushClose"}
        /\ unsynced' = <<>> => unsynced = <<>>
    BY <1>7, SecondWrites, SensorRecords
    DEF NewFileByTime, FlushByTime, EverySecond, time, ages
  <2> QED BY <2>1 DEF FlushesInTime, MinuteBegan
<1>8. CASE ShutdownReason \/ testSerial \/ StartRecords
  <2>1. PICK r \in Seq(Record) : write(r)
    <3>1. CASE ShutdownReason
      <4>1. writeVCC \o <<"REASON">> \in Seq(Record)
        BY SensorRecords, Joined
      <4> QED BY <3>1, <4>1 DEF ShutdownReason
    <3>2. CASE testSerial
      <4>1. PICK n \in 0..2 : write([i \in 1..n |-> "DATA"])
        BY <3>2 DEF testSerial
      <4>2. n \in Nat
        OBVIOUS
      <4>3. [i \in 1..n |-> "DATA"] \in Seq(Record)
        BY <4>2, SensorRecords, Zenon
      <4> QED BY <4>1, <4>3
    <3>3. CASE StartRecords
      BY <3>3, SensorRecords DEF StartRecords
    <3> QED BY <1>8, <3>1, <3>2, <3>3
  <2>2. UNCHANGED <<clock, age, lastFlush, lastMillis>> /\ pc \in {"shutdown", "serial", "start"}
    BY <1>8 DEF ShutdownReason, testSerial, StartRecords, time, counters, ages
  <2> QED BY <2>1, <2>2, WrittenStays, FlushesQuiet
<1>9. CASE Top \/ HaltEnds \/ Begin \/ Search \/ NotYet \/ Count
  <2>1. /\ UNCHANGED <<clock, age, lastFlush, lastMillis, unsynced>>
        /\ pc \in {"top", "halt", "begin", "search", "second", "count"}
    BY <1>9 DEF Top, HaltEnds, Begin, Search, SearchFindsNone, SearchFindsNoSpace,
                SearchOpens, NotYet, Count, time, counters, handle, ages
  <2> QED BY <2>1, FlushesQuiet
<1>10. CASE SwitchMoves \/ SupplyMoves \/ CardPulled \/ CardInserted \/ SpaceRunsOut
  <2>1. UNCHANGED <<clock, age, lastFlush, lastMillis, unsynced, pc>>
    BY <1>10 DEF SwitchMoves, SupplyMoves, CardPulled, CardInserted, SpaceRunsOut,
                 ProgramUnchanged, handle, counters, control
  <2> QED BY <2>1, FlushesQuiet
<1>11. CASE PowerOn
  <2>1. UNCHANGED <<clock, age, lastFlush, lastMillis, unsynced>> /\ pc = "off"
    BY <1>11 DEF PowerOn, time, handle, counters, ages, LoggerInv, FileInv, HandleMatches
  <2> QED BY <2>1, FlushesQuiet
<1>12. CASE UNCHANGED vars
  <2>1. UNCHANGED <<clock, age, lastFlush, lastMillis, unsynced, pc>>
    BY <1>12 DEF vars, time, handle, counters, control, ages
  <2> QED BY <2>1, FlushesQuiet
<1> QED BY <1>2, <1>3, <1>4, <1>5, <1>6, <1>7, <1>8, <1>9, <1>10, <1>11, <1>12
        DEF Next, Program, Environment, NewFile, Housekeeping

-----------------------------------------------------------------------------
\* Only the search brings a file into use: writing adds no name to the cache, a card
\* that is pulled leaves names that were on it, and flushFile() opens what it finds.
LEMMA InFileBefore ==
  ASSUME LoggerInv, RecordsMatch, [Next]_vars, ~Search, ~exhausted', InFile'
  PROVE  InFile /\ ~exhausted
<1> USE DEF InFile, exists
<1>1. CASE setup \/ Begin \/ stopLogger \/ PowerOn \/ PowerCut
  BY <1>1 DEF setup, Begin, stopLogger, close, PowerOn, PowerCut, handle, LoggerInv,
              FileInv, HandleMatches
<1>2. CASE Top \/ HaltEnds \/ NotYet \/ Count
  BY <1>2 DEF Top, HaltEnds, NotYet, Count, handle, seen
<1>3. CASE ShutdownReason \/ StartRecords \/ testSerial \/ NewFileByTime \/ FlushByTime
           \/ NothingDue
  <2>1. /\ UNCHANGED <<open, mounted, filename, files, exhausted>> /\ held' \subseteq held
        /\ pc \in {"start", "serial", "second"} \/ pc' = "stopLogger"
    BY <1>3, WriteHeld
    DEF ShutdownReason, StartRecords, testSerial, NewFileByTime, FlushByTime, NothingDue,
        EverySecond, storage, seen
  <2> QED BY <2>1
<1>4. CASE FlushClose
  <2>1. /\ UNCHANGED <<mounted, filename, files, exhausted>> /\ pc = "flushClose"
        /\ held' \subseteq held \/ (open /\ mounted)
    BY <1>4, SyncHeld DEF FlushClose, close, seen
  <2>2. mounted /\ ~open => filename \notin files
    BY <2>1 DEF RecordsMatch, HeadsMatch
  <2> QED BY <1>4, <2>1, <2>2 DEF FlushClose, close
<1>5. CASE FlushOpen
  BY <1>5 DEF FlushOpen
<1>6. CASE CardPulled
  <2>1. /\ UNCHANGED <<open, filename, files, exhausted, pc>>
        /\ held' = held \/ (mounted /\ held' \subseteq files)
    BY <1>6, CutShortIs DEF CardPulled, ProgramUnchanged, storage, handle, control
  <2>2. mounted => held \subseteq files
    BY DEF LoggerInv, FileInv, HandleMatches
  <2>3. ~mounted'
    BY <1>6 DEF CardPulled
  <2> QED BY <2>1, <2>2, <2>3
<1>7. CASE Tick \/ SwitchMoves \/ SupplyMoves \/ CardInserted \/ SpaceRunsOut
           \/ UNCHANGED vars
  BY <1>7 DEF Tick, SwitchMoves, SupplyMoves, CardInserted, SpaceRunsOut,
              ProgramUnchanged, vars, storage, volume, handle, control, seen
<1> QED BY <1>1, <1>2, <1>3, <1>4, <1>5, <1>6, <1>7
        DEF Next, Program, Environment, NewFile, Housekeeping

\* A step that lets no time pass, opens no file and finds no hour due.
LEMMA RotatesQuiet ==
  ASSUME RotatesInTime, UNCHANGED <<clock, fileAge, fileCount, lastMillis>>,
         HourDue' => HourDue /\ now' = now,
         ~exhausted' /\ InFile' =>
           /\ ~exhausted /\ InFile /\ (pc = "stopLogger" => pc' = pc)
           /\ pc' \in {"start", "count"} => pc \in {"start", "count"}
  PROVE  RotatesInTime'
BY DEF RotatesInTime, HourBegan

\* A step after which the file in use, if any, is as good as new.
LEMMA RotatesAnew ==
  ASSUME LoggerInv', TurnsInTime', HourBegan' <= clock', ~HourDue' \/ (HourBegan + Hour <= now)',
         ~exhausted' /\ InFile' => fileAge' = 0
  PROVE  RotatesInTime'
BY TypesNext, CountedTimesNext DEF RotatesInTime, TurnsInTime

\* Like what is outstanding, an open file grows older only at the top of a turn that
\* saw no new second.
LEMMA RotatesTick ==
  ASSUME CountersFit, LoggerInv, ShutdownInTime, TurnsInTime, RotatesInTime, Tick
  PROVE  RotatesInTime'
<1>1. /\ clock' = clock + 1
      /\ UNCHANGED <<pc, back, open, mounted, filename, files, exhausted, now,
                     lastMillis, fileCount>>
      /\ pc \in {"top", "setup", "begin", "halt"}
      /\ open => pc = "top" /\ clock <= lastMillis + Second
  BY TickIs DEF TurnsInTime
<1>2. HourBegan' = HourBegan /\ HourDue' = HourDue
  BY <1>1 DEF HourBegan, HourDue
<1>3. fileAge' = IF open THEN fileAge + 1 ELSE 0
  BY DEF Tick
<1>4. /\ HourBegan <= clock /\ (HourDue => HourBegan + Hour <= now)
      /\ ~exhausted /\ open =>
           HourBegan + fileAge <= clock /\ lastMillis + fileAge < clock + Hour
  BY <1>1 DEF RotatesInTime, InFile
<1>5. HourBegan' <= clock' /\ (HourDue => HourBegan + Hour <= now)'
  BY <1>1, <1>2, <1>4, TimeTypes, CountedTimes
<1>6. ASSUME ~exhausted, open
      PROVE  /\ HourBegan + (fileAge + 1) <= clock + 1
             /\ lastMillis + (fileAge + 1) < clock + 1 + Hour
             /\ fileAge + 1 <= Hour + Second
  <2>1. HourBegan + fileAge <= clock /\ lastMillis + fileAge < clock + Hour
        /\ clock <= lastMillis + Second
    BY <1>1, <1>4, <1>6
  <2>2. /\ HourBegan \in Nat /\ fileAge \in Nat /\ clock \in Nat /\ lastMillis \in Nat
        /\ Hour \in Nat /\ Second \in Nat
    BY TimeTypes, CountedTimes
  <2> QED BY <2>1, <2>2
<1>7. InFile' => open
  BY <1>1 DEF InFile
<1>8. ASSUME ~exhausted', InFile'
      PROVE  /\ (HourBegan + fileAge <= clock)' /\ (fileAge <= Hour + Second)'
             /\ (lastMillis + fileAge < clock + Hour)' /\ pc' \notin {"start", "count"}
  BY <1>1, <1>2, <1>3, <1>6, <1>7, <1>8
<1> QED BY <1>5, <1>8 DEF RotatesInTime

\* Every step keeps the time of the file and the hours counted.
LEMMA RotatesStep ==
  ASSUME CountersFit, LoggerInv, LoggerInv', RecordsMatch, ShutdownInTime, TurnsInTime,
         TurnsInTime', RotatesInTime, [Next]_vars
  PROVE  RotatesInTime'
<1>1. HourBegan <= clock
  BY DEF RotatesInTime
<1>2. CASE Tick
  BY <1>2, RotatesTick
<1>3. CASE setup \/ PowerCut
  <2>1. fileCount' = 0 /\ ~open' /\ pc' \in {"top", "off"}
    BY <1>3 DEF setup, PowerCut, TurnsInTime, handle, LoggerInv, FileInv, HandleMatches
  <2>2. HourBegan' <= clock'
    BY <2>1, TypesNext DEF HourBegan
  <2>3. ~HourDue' /\ ~InFile'
    BY <2>1 DEF HourDue, InFile
  <2> QED BY <2>1, <2>2, <2>3, RotatesAnew
<1>4. CASE Search
  <2>1. /\ UNCHANGED <<clock, fileCount, now, back, mounted>> /\ pc = "search" /\ pc' = "start"
        /\ ~open /\ lastStartNumber \in 0..LastName
    BY <1>4 DEF Search, SearchFindsNone, SearchFindsNoSpace, SearchOpens, time, counters,
                LoggerInv, FileInv, HandleMatches, TypeOK, CounterTypes
  <2>2. ~exhausted' /\ InFile' => fileAge' = 0
    <3>1. CASE SearchFindsNone
      BY <3>1 DEF SearchFindsNone
    <3>2. CASE SearchFindsNoSpace
      <4>1. mounted /\ ~open' /\ files' = files /\ filename' = FirstFree
        BY <2>1, <3>2 DEF SearchFindsNoSpace, EnoughSpace, storage
      <4>2. FirstFree \notin files
        BY <2>1, <3>2, <4>1, FirstFreeIsFree DEF SearchFindsNoSpace, FreeNumbers, exists
      <4> QED BY <2>1, <4>1, <4>2 DEF InFile, exists
    <3>3. CASE SearchOpens
      BY <3>3 DEF SearchOpens
    <3> QED BY <1>4, <3>1, <3>2, <3>3 DEF Search
  <2>3. HourBegan' = HourBegan /\ (HourDue' => HourDue)
    BY <2>1 DEF HourBegan, HourDue
  <2>4. HourDue' => (HourBegan + Hour <= now)'
    BY <2>1, <2>3 DEF RotatesInTime
  <2> QED BY <1>1, <2>1, <2>2, <2>3, <2>4, RotatesAnew
<1>5. CASE NewFileByTime
  <2>1. /\ UNCHANGED <<clock, fileAge, fileCount, now, open, mounted, filename, files,
                       exhausted>>
        /\ pc' = "stopLogger" /\ pc = "second" /\ nowCount > fileCount
    BY <1>5 DEF NewFileByTime, EverySecond, time, storage, seen, ages
  <2>2. nowCount \in Nat /\ nowCount * Hour <= now
    BY HourIs
  <2>3. (fileCount + 1) * Hour <= nowCount * Hour
    <3>1. fileCount + 1 \in Nat /\ fileCount + 1 <= nowCount
      BY <2>1, <2>2, TimeTypes
    <3> QED BY <2>2, <3>1, PeriodsMono
  <2>4. (fileCount + 1) * Hour = HourBegan + Hour
    BY TimeTypes DEF HourBegan
  <2>5. HourBegan + Hour <= now
    <3>1. nowCount * Hour \in Nat
      BY <2>2
    <3> QED BY <2>2, <2>3, <2>4, <3>1, TimeTypes, CountedTimes
  <2>6. HourBegan' = HourBegan
    BY <2>1 DEF HourBegan
  <2>7. ~exhausted' /\ InFile' => InFile
    BY <1>5, <2>1, InFileBefore DEF Search
  <2> QED BY <2>1, <2>5, <2>6, <2>7 DEF RotatesInTime
<1>6. CASE FlushByTime \/ NothingDue
  <2>1. /\ UNCHANGED <<clock, fileAge, fileCount, now, back, open, mounted, filename, files,
                       exhausted>>
        /\ pc' \in {"flushClose", "top"} /\ pc = "second" /\ nowCount <= fileCount
        /\ lastMillis' = now
    BY <1>6 DEF FlushByTime, NothingDue, EverySecond, time, storage, seen, ages
  <2>2. HourBegan' = HourBegan /\ ~HourDue' /\ (~exhausted' /\ InFile' => InFile)
    BY <2>1, InFileBefore DEF HourBegan, HourDue, Search
  <2>3. now < HourBegan + Hour
    <3>1. nowCount \in Nat /\ now < nowCount * Hour + Hour
      BY HourIs
    <3>2. nowCount * Hour <= HourBegan
      BY <2>1, <3>1, PeriodsMono, TimeTypes DEF HourBegan
    <3>3. nowCount * Hour \in Nat
      BY <3>1
    <3> QED BY <3>1, <3>2, <3>3, TimeTypes, CountedTimes
  <2>4. ASSUME ~exhausted, InFile PROVE now + fileAge < clock + Hour
    <3>1. HourBegan + fileAge <= clock
      BY <2>4 DEF RotatesInTime
    <3> QED BY <2>3, <3>1, TimeTypes, CountedTimes
  <2> QED BY <2>1, <2>2, <2>4 DEF RotatesInTime
<1>7. CASE Count
  <2>1. /\ UNCHANGED <<clock, fileAge, lastMillis, open, mounted>>
        /\ pc = "count" /\ pc' = "top"
        /\ fileCount' = (fileCount + 1) % ByteMod
    BY <1>7 DEF Count, time, handle, ages
  <2>2. HourBegan + Hour <= now /\ now <= clock /\ now <= MaxClock
    BY <2>1, NowFits DEF RotatesInTime, HourDue, TurnsInTime
  <2>3. fileCount + 1 < ByteMod
    <3>1. (fileCount + 1) * Hour < Hour * ByteMod
      <4>1. (fileCount + 1) * Hour = HourBegan + Hour
        BY TimeTypes DEF HourBegan
      <4>2. MaxClock < Hour * ByteMod
        BY DEF CountersFit
      <4>3. Hour * ByteMod \in Nat
        OBVIOUS
      <4> QED BY <2>2, <4>1, <4>2, <4>3, TimeTypes, CountedTimes
    <3> SUFFICES ASSUME ByteMod <= fileCount + 1 PROVE FALSE
      BY TimeTypes
    <3>2. ByteMod * Hour <= (fileCount + 1) * Hour
      BY PeriodsMono, TimeTypes
    <3>3. (fileCount + 1) * Hour \in Nat /\ ByteMod * Hour \in Nat
      BY TimeTypes
    <3> QED BY <3>1, <3>2, <3>3
  <2>4. fileCount' = fileCount + 1
    BY <2>1, <2>3, Fits, TimeTypes
  <2>5. HourBegan' = HourBegan + Hour
    BY <2>4, TimeTypes DEF HourBegan
  <2>6. HourBegan' <= clock'
    BY <2>1, <2>2, <2>5, TimeTypes, CountedTimes
  <2>7. ~HourDue' /\ (~exhausted' /\ InFile' => fileAge' = 0)
    BY <2>1, InFileBefore DEF HourDue, RotatesInTime, Search
  <2> QED BY <2>1, <2>6, <2>7, RotatesAnew
<1>8. CASE FlushClose
  <2>1. /\ UNCHANGED <<clock, fileAge, fileCount, lastMillis, now, mounted, filename,
                       files, exhausted>>
        /\ pc = "flushClose" /\ pc' = "flushOpen" /\ ~open'
    BY <1>8 DEF FlushClose, close, time, counters, seen
  <2>2. ~exhausted' /\ InFile' => InFile
    BY <2>1, InFileBefore DEF Search
  <2>3. HourBegan' = HourBegan /\ ~HourDue'
    BY <2>1 DEF HourBegan, HourDue
  <2> QED BY <2>1, <2>2, <2>3 DEF RotatesInTime
<1>9. CASE FlushOpen
  <2>1. /\ UNCHANGED <<clock, fileAge, fileCount, lastMillis, exhausted>>
        /\ pc = "flushOpen" /\ pc' = "top"
    BY <1>9 DEF FlushOpen, time, seen, ages
  <2>2. ~exhausted' /\ InFile' => ~exhausted /\ InFile
    BY <2>1, InFileBefore DEF Search
  <2>3. ~HourDue'
    BY <2>1 DEF HourDue
  <2> QED BY <2>1, <2>2, <2>3, RotatesQuiet
<1>10. CASE stopLogger
  <2>1. /\ UNCHANGED <<clock, fileAge, fileCount, lastMillis, now, back, exhausted>>
        /\ pc = "stopLogger" /\ pc' \in {"halt", "begin"} /\ ~open'
    BY <1>10 DEF stopLogger, close, counters
  <2>2. ~InFile' /\ (HourDue' => HourDue)
    BY <2>1 DEF InFile, HourDue
  <2> QED BY <2>1, <2>2, RotatesQuiet
<1>11. CASE Top \/ ShutdownReason \/ HaltEnds \/ Begin \/ testSerial \/ NotYet
  <2>1. /\ UNCHANGED <<clock, fileAge, fileCount, lastMillis, open, filename, files, exhausted>>
        /\ pc \in {"top", "shutdown", "halt", "begin", "serial", "second"}
        /\ pc' \notin {"start", "count", "flushOpen"}
        /\ HourDue' => HourDue /\ now' = now
    BY <1>11 DEF Top, ShutdownReason, HaltEnds, Begin, testSerial, NotYet, HourDue,
                 time, storage, handle, counters, seen, ages, ShutdownInTime
  <2>2. ~exhausted' /\ InFile' => ~exhausted /\ InFile
    BY <2>1, InFileBefore DEF Search
  <2> QED BY <2>1, <2>2, RotatesQuiet
<1>12. CASE StartRecords
  <2>1. /\ UNCHANGED <<clock, fileAge, fileCount, lastMillis, open, exhausted, now, back>>
        /\ pc = "start" /\ pc' = back /\ back \in {"serial", "count", "halt"}
    BY <1>12 DEF StartRecords, time, counters, seen, ages, LoggerInv, TypeOK, ControlTypes
  <2>2. ~exhausted' /\ InFile' => ~exhausted /\ InFile
    BY <2>1, InFileBefore DEF Search
  <2>3. HourDue' => HourDue
    BY <2>1 DEF HourDue
  <2> QED BY <2>1, <2>2, <2>3, RotatesQuiet
<1>13. CASE SwitchMoves \/ SupplyMoves \/ CardPulled \/ CardInserted \/ SpaceRunsOut
            \/ PowerOn \/ UNCHANGED vars
  <2>1. /\ UNCHANGED <<clock, fileAge, fileCount, lastMillis, open, filename, files,
                       exhausted, now, back>>
        /\ pc' = pc \/ (pc' = "setup" /\ pc = "off")
        /\ mounted' => mounted
    <3>1. CASE SwitchMoves \/ SupplyMoves \/ CardPulled \/ CardInserted \/ SpaceRunsOut
      BY <3>1 DEF SwitchMoves, SupplyMoves, CardPulled, CardInserted, SpaceRunsOut,
                  ProgramUnchanged, storage, handle, counters, control
    <3>2. CASE PowerOn
      BY <3>2 DEF PowerOn, time, storage, handle, counters, seen, ages, LoggerInv, FileInv,
                  HandleMatches
    <3>3. CASE UNCHANGED vars
      BY <3>3 DEF vars, time, storage, handle, counters, control, seen, ages
    <3> QED BY <1>13, <3>1, <3>2, <3>3
  <2>2. ~exhausted' /\ InFile' => ~exhausted /\ InFile
    BY <2>1, InFileBefore DEF Search
  <2>3. HourDue' => HourDue
    BY <2>1 DEF HourDue
  <2> QED BY <2>1, <2>2, <2>3, RotatesQuiet
<1> QED BY <1>2, <1>3, <1>4, <1>5, <1>6, <1>7, <1>8, <1>9, <1>10, <1>11, <1>12, <1>13
        DEF Next, Program, Environment, NewFile, Housekeeping

-----------------------------------------------------------------------------
\* Whether the logger could record depends on the slot, the files and the search.
LEMMA UsableSame ==
  ASSUME UNCHANGED <<supply, stopSwitch, card, space, files, exhausted>>
  PROVE  Usable' = Usable
BY DEF Usable, RootHasRoom

\* Right after an event of the environment nothing has kept it.
LEMMA NotIdleAtOnce ==
  ASSUME idle' = 0
  PROVE  NotIdle'
BY DEF NotIdle

\* A step of the program that brings no file into use and leaves none without one.
LEMMA NotIdleQuiet ==
  ASSUME NotIdle,
         UNCHANGED <<idle, supply, stopSwitch, card, space, files, exhausted>>,
         pc' = "shutdown" \/ (pc' = "stopLogger" /\ back' = "halt")
           => pc = "shutdown" \/ (pc = "stopLogger" /\ back = "halt") \/ idle = 0,
         pc' = "search" => mounted',
         pc' \in {"start", "serial", "second", "count", "flushClose"} /\ ~open'
           => pc \in {"start", "serial", "second", "count", "flushClose"} /\ ~open,
         ~exhausted' /\ mounted' /\ InFile' => mounted /\ InFile
  PROVE  NotIdle'
BY UsableSame DEF NotIdle

\* Time counts against the logger only while it is usable and does not record.
LEMMA NotIdleTick ==
  ASSUME CountersFit, LoggerInv, ShutdownInTime, NotIdle, Tick
  PROVE  NotIdle'
<1>1. idle' = 0 \/ (Usable /\ ~Recording)
  BY DEF Tick
<1>2. CASE Usable /\ ~Recording
  <2>1. /\ UNCHANGED <<pc, open, mounted, filename, files, exhausted, supply, stopSwitch,
                       card, space>>
        /\ pc \in {"top", "setup", "begin", "halt"}
    BY TickIs DEF Tick, slot
  <2>2. supply' = "on" /\ ~stopSwitch' /\ card' /\ space'
    BY <1>2, <2>1 DEF Usable
  <2>3. ~(mounted' /\ InFile')
    BY <1>2, <2>1 DEF InFile, Recording
  <2> QED BY <2>1, <2>2, <2>3 DEF NotIdle
<1> QED BY <1>1, <1>2, NotIdleAtOnce

\* A usable logger leaves its search with a file.
LEMMA NotIdleSearch ==
  ASSUME LoggerInv, NotIdle, Search
  PROVE  NotIdle'
<1>1. /\ UNCHANGED <<supply, stopSwitch, card, space, mounted, back>>
      /\ pc = "search" /\ pc' = "start" /\ ~open
      /\ (idle > 0 => supply = "on" /\ ~stopSwitch /\ card /\ space)
      /\ mounted \/ idle = 0
  BY DEF Search, slot, LoggerInv, FileInv, HandleMatches, NotIdle
<1>2. CASE SearchFindsNone
  <2>1. exhausted' /\ UNCHANGED <<idle, open>>
    BY <1>2 DEF SearchFindsNone
  <2> QED BY <1>1, <2>1 DEF NotIdle, Usable
<1>3. CASE SearchFindsNoSpace
  <2>1. ~space /\ UNCHANGED <<idle, open>>
    BY <1>3 DEF SearchFindsNoSpace, EnoughSpace
  <2>2. idle' = 0
    BY <1>1, <2>1, TimeTypes
  <2> QED BY <2>2, NotIdleAtOnce
<1>4. CASE SearchOpens /\ CanCreate
  <2>1. idle' = 0
    BY <1>4 DEF SearchOpens
  <2> QED BY <2>1, NotIdleAtOnce
<1>5. CASE SearchOpens /\ ~CanCreate
  <2>1. UNCHANGED <<files, open, idle, exhausted>>
    BY <1>5 DEF SearchOpens
  <2>2. ~mounted \/ ~Usable
    BY <1>5 DEF CanCreate, Usable
  <2>3. Usable' = Usable
    BY <1>1, <2>1, UsableSame
  <2>4. Usable' => idle' = 0
    BY <1>1, <2>1, <2>2, <2>3
  <2>5. ~(mounted' /\ InFile')
    <3>1. filename' = FirstFree /\ lastStartNumber \in 0..LastName /\ FreeNumbers # {}
      BY <1>5 DEF SearchOpens, LoggerInv, TypeOK, CounterTypes
    <3>2. ~exists(FirstFree)
      BY <3>1, FirstFreeIsFree DEF FreeNumbers
    <3> QED BY <1>1, <2>1, <3>1, <3>2 DEF InFile, exists
  <2> QED BY <1>1, <2>1, <2>4, <2>5 DEF NotIdle
<1> QED BY <1>2, <1>3, <1>4, <1>5 DEF Search

\* Every step keeps what is known of the time without recording.
LEMMA NotIdleStep ==
  ASSUME CountersFit, LoggerInv, RecordsMatch, ShutdownInTime, NotIdle, [Next]_vars
  PROVE  NotIdle'
<1>1. CASE Tick
  BY <1>1, NotIdleTick
<1>2. CASE SwitchMoves \/ SupplyMoves \/ CardPulled \/ CardInserted \/ SpaceRunsOut
  <2>1. idle' = 0
    BY <1>2 DEF SwitchMoves, SupplyMoves, CardPulled, CardInserted, SpaceRunsOut,
                ProgramUnchanged
  <2> QED BY <2>1, NotIdleAtOnce
<1>3. CASE PowerCut
  BY <1>3, NotIdleAtOnce DEF PowerCut
<1>4. CASE PowerOn
  <2>1. idle' = 0
    <3>1. idle' = idle /\ supply = "off"
      BY <1>4 DEF PowerOn, ages
    <3>2. ~(idle > 0)
      BY <3>1 DEF NotIdle
    <3> QED BY <3>1, <3>2, TimeTypes
  <2> QED BY <2>1, NotIdleAtOnce
<1>5. CASE Search
  BY <1>5, NotIdleSearch
<1>6. CASE setup \/ Begin
  <2>1. /\ UNCHANGED <<idle, supply, stopSwitch, card, space, files, exhausted, open>>
        /\ pc' \in {"top", "search"} /\ ~open /\ mounted'
    BY <1>6 DEF setup, Begin, mount, slot, storage, handle, seen, ages, LoggerInv, FileInv,
                HandleMatches
  <2>2. ~InFile'
    BY <2>1 DEF InFile
  <2> QED BY <2>1, <2>2, NotIdleQuiet
<1>7. CASE Top
  <2>1. /\ UNCHANGED <<idle, supply, stopSwitch, card, space, files, exhausted, open,
                       mounted>>
        /\ pc' \in {"shutdown", "halt", "serial", "stopLogger"}
        /\ pc' = "shutdown" => supply = "cap" \/ stopSwitch
        /\ pc' = "serial" => open
        /\ pc' = "stopLogger" => back' # "halt"
    BY <1>7 DEF Top, Shutdown, slot, storage, handle, seen, ages
  <2>2. pc' = "shutdown" => idle = 0
    BY <2>1, TimeTypes DEF NotIdle
  <2>3. ~exhausted' /\ InFile' => InFile
    BY <2>1, InFileBefore DEF Search
  <2> QED BY <2>1, <2>2, <2>3, NotIdleQuiet
<1>8. CASE ShutdownReason \/ HaltEnds \/ StartRecords \/ testSerial \/ NotYet \/ Count
  <2>1. /\ UNCHANGED <<idle, supply, stopSwitch, card, space, files, exhausted, open,
                       mounted, filename>>
        /\ \/ pc = "shutdown" /\ pc' = "stopLogger"
           \/ pc \in {"halt", "second", "count"} /\ pc' = "top"
           \/ pc = "start" /\ pc' \in {"serial", "halt", "count"}
           \/ pc = "serial" /\ pc' = "second"
    BY <1>8 DEF ShutdownReason, HaltEnds, StartRecords, testSerial, NotYet, Count, slot,
                storage, handle, seen, ages, LoggerInv, TypeOK, ControlTypes
  <2>2. ~exhausted' /\ InFile' => InFile
    BY <2>1, InFileBefore DEF Search
  <2> QED BY <2>1, <2>2, NotIdleQuiet
<1>9. CASE NewFileByTime \/ FlushByTime \/ NothingDue
  <2>1. /\ UNCHANGED <<idle, supply, stopSwitch, card, space, files, exhausted, open,
                       mounted, filename>>
        /\ pc = "second" /\ pc' \in {"stopLogger", "flushClose", "top"}
        /\ pc' = "stopLogger" => back' # "halt"
    BY <1>9 DEF NewFileByTime, FlushByTime, NothingDue, EverySecond, slot, storage, seen,
                ages
  <2>2. ~exhausted' /\ InFile' => InFile
    BY <2>1, InFileBefore DEF Search
  <2> QED BY <2>1, <2>2, NotIdleQuiet
<1>10. CASE stopLogger
  <2>1. /\ UNCHANGED <<idle, supply, stopSwitch, card, space, files, exhausted>>
        /\ ~open' /\ pc' \in {"halt", "begin"}
    BY <1>10 DEF stopLogger, close, slot
  <2>2. ~InFile'
    BY <2>1 DEF InFile
  <2> QED BY <2>1, <2>2, NotIdleQuiet
<1>11. CASE FlushClose
  <2>1. /\ UNCHANGED <<idle, supply, stopSwitch, card, space, files, exhausted, mounted,
                       filename>>
        /\ pc = "flushClose" /\ pc' = "flushOpen" /\ ~open'
    BY <1>11 DEF FlushClose, close, slot, seen
  <2>2. ~exhausted' /\ InFile' => InFile
    BY <2>1, InFileBefore DEF Search
  <2> QED BY <2>1, <2>2, NotIdleQuiet
<1>12. CASE FlushOpen
  <2>1. /\ UNCHANGED <<idle, supply, stopSwitch, card, space, files, exhausted, mounted>>
        /\ pc = "flushOpen" /\ pc' = "top"
    BY <1>12 DEF FlushOpen, slot, storage, seen, ages
  <2>2. ~exhausted' /\ InFile' => InFile
    BY <2>1, InFileBefore DEF Search
  <2> QED BY <2>1, <2>2, NotIdleQuiet
<1>13. CASE UNCHANGED vars
  <2>1. /\ UNCHANGED <<idle, supply, stopSwitch, card, space, files, exhausted, mounted,
                       open, filename, pc, back>>
    BY <1>13 DEF vars, slot, storage, handle, control, seen, ages
  <2>2. ~exhausted' /\ InFile' => InFile
    BY <2>1, InFileBefore DEF Search
  <2> QED BY <2>1, <2>2, UsableSame DEF NotIdle
<1> QED BY <1>1, <1>2, <1>3, <1>4, <1>5, <1>6, <1>7, <1>8, <1>9, <1>10, <1>11, <1>12, <1>13
        DEF Next, Program, Environment, NewFile, Housekeeping

-----------------------------------------------------------------------------
\* The limit is that of the minute, or beyond it.
LEMMA IdleLimits ==
  ASSUME LoggerInv
  PROVE  IdleLimit \in Nat /\ Minute + Second <= IdleLimit
BY DEF IdleLimit, LoggerInv, TypeOK, HistoryTypes

\* While a file is in use, the logger has not been without recording for longer than
\* it has had the file.
LEMMA IdleByFileStep ==
  ASSUME CountersFit, LoggerInv, LoggerInv', RecordsMatch, ShutdownInTime, NotIdle,
         IdleByFile, [Next]_vars
  PROVE  IdleByFile'
<1>1. ASSUME idle' = 0 PROVE IdleByFile'
  BY <1>1, TypesNext DEF IdleByFile
<1>2. CASE Tick
  <2>1. ~exhausted' /\ InFile' => ~exhausted /\ open
    BY <1>2, TickIs DEF InFile
  <2>2. open => InFile
    BY DEF InFile
  <2>3. /\ idle' = 0 \/ idle' = idle + 1
        /\ fileAge' = IF open THEN fileAge + 1 ELSE 0
    BY <1>2 DEF Tick
  <2>4. CASE idle' = idle + 1
    BY <2>1, <2>2, <2>3, <2>4, TimeTypes DEF IdleByFile
  <2> QED BY <1>1, <2>3, <2>4
<1>3. CASE SwitchMoves \/ SupplyMoves \/ CardPulled \/ CardInserted \/ SpaceRunsOut
           \/ PowerCut
  BY <1>1, <1>3 DEF SwitchMoves, SupplyMoves, CardPulled, CardInserted, SpaceRunsOut,
                    PowerCut, ProgramUnchanged
<1>4. CASE Search
  <2>1. /\ pc = "search" /\ pc' = "start" /\ ~open /\ mounted' = mounted
        /\ lastStartNumber \in 0..LastName
        /\ mounted \/ idle = 0
    BY <1>4 DEF Search, LoggerInv, FileInv, HandleMatches, TypeOK, CounterTypes, NotIdle
  <2>2. CASE SearchFindsNone
    BY <2>2 DEF SearchFindsNone, IdleByFile
  <2>3. CASE SearchFindsNoSpace \/ (SearchOpens /\ ~CanCreate)
    <3>1. /\ idle' = idle /\ ~open' /\ files' = files
          /\ filename' = FirstFree /\ FreeNumbers # {}
      BY <2>1, <2>3 DEF SearchFindsNoSpace, SearchOpens, storage
    <3>2. ~exists(FirstFree)
      BY <2>1, <3>1, FirstFreeIsFree DEF FreeNumbers
    <3>3. mounted => ~InFile'
      BY <2>1, <3>1, <3>2 DEF InFile, exists
    <3> QED BY <1>1, <2>1, <3>1, <3>3 DEF IdleByFile
  <2>4. CASE SearchOpens /\ CanCreate
    BY <1>1, <2>4 DEF SearchOpens
  <2> QED BY <1>4, <2>2, <2>3, <2>4 DEF Search
<1>5. CASE ~Search /\ UNCHANGED <<idle, fileAge>>
  BY <1>5, InFileBefore DEF IdleByFile
<1>6. CASE setup \/ Top \/ ShutdownReason \/ HaltEnds \/ stopLogger \/ Begin
           \/ StartRecords \/ testSerial \/ NotYet \/ NewFileByTime \/ FlushByTime
           \/ NothingDue \/ Count \/ FlushClose \/ FlushOpen \/ PowerOn \/ UNCHANGED vars
  <2>1. UNCHANGED <<idle, fileAge>>
    BY <1>6 DEF setup, Top, ShutdownReason, HaltEnds, stopLogger, Begin, StartRecords,
                testSerial, NotYet, NewFileByTime, FlushByTime, NothingDue, EverySecond,
                Count, FlushClose, FlushOpen, PowerOn, vars, ages
  <2> QED BY <1>4, <1>5, <2>1
<1> QED BY <1>2, <1>3, <1>4, <1>6 DEF Next, Program, Environment, NewFile, Housekeeping

-----------------------------------------------------------------------------
\* The time without recording begins anew, with a file or without.
LEMMA IdleAnew ==
  ASSUME LoggerInv', TurnsInTime', MinuteBegan' <= clock', idle' = 0,
         pc' = "halt" => delayLeft' <= HaltTicks
  PROVE  IdleEnds'
BY TypesNext, CountedTimesNext DEF IdleEnds, IdleLimit, TurnsInTime

\* A step of the program that lets no time pass and brings no file into use.
LEMMA IdleQuiet ==
  ASSUME IdleEnds, UNCHANGED <<clock, idle, lastFlush, lastMillis, stale>>,
         ~exhausted' /\ open' => ~exhausted /\ open /\ (pc \in {"stopLogger", "flushClose"} => pc' = pc),
         pc' = "halt" => \/ pc = "halt" /\ UNCHANGED <<delayLeft, turned>>
                         \/ delayLeft' = HaltTicks /\ idle = 0,
         Usable' /\ (pc' = "flushOpen" \/ (pc' = "top" /\ turned' /\ ~open')) => idle <= IdleLimit
  PROVE  IdleEnds'
<1>1. MinuteBegan' = MinuteBegan /\ IdleLimit' = IdleLimit
  BY DEF MinuteBegan, IdleLimit
<1>2. (pc = "halt" => idle + delayLeft <= HaltTicks /\ (turned => idle = 0))'
  BY DEF IdleEnds
<1>3. (~exhausted /\ ~stale /\ open =>
        /\ MinuteBegan + idle <= clock
        /\ idle <= Minute + Second
        /\ pc \notin {"stopLogger", "flushClose"} => lastMillis + idle < clock + Minute)'
  BY <1>1 DEF IdleEnds
<1> QED BY <1>1, <1>2, <1>3 DEF IdleEnds

\* No tick passes without a recording unless the file is to be looked at, the logger
\* is about to look for one, or it halts.
LEMMA IdleTick ==
  ASSUME CountersFit, LoggerInv, LoggerInv', ShutdownInTime, TurnsInTime, TurnsInTime',
         RotatesInTime', IdleByFile', MinuteBegan <= clock, NotIdle, IdleEnds, Tick
  PROVE  IdleEnds'
<1>1. /\ clock' = clock + 1 /\ turned' = FALSE
      /\ UNCHANGED <<pc, open, exhausted, stale, lastMillis, lastFlush>>
      /\ pc \in {"top", "setup", "begin", "halt"}
      /\ open => pc = "top" /\ clock <= lastMillis + Second
  BY TickIs DEF TurnsInTime, Tick, seen
<1>2. MinuteBegan' = MinuteBegan /\ IdleLimit' = IdleLimit
  BY <1>1 DEF MinuteBegan, IdleLimit
<1>3. /\ idle' = IF Usable /\ ~Recording THEN idle + 1 ELSE 0
      /\ delayLeft' = IF delayLeft > 0 THEN delayLeft - 1 ELSE 0
  BY DEF Tick
<1>4. \/ pc = "top" /\ turned
      \/ pc \in {"setup", "begin"} /\ ~card
      \/ pc = "halt" /\ delayLeft > 0 /\ ~open
  BY DEF Tick, Waits, ShutdownInTime
<1>5. ASSUME ~exhausted, ~stale, open
      PROVE  /\ MinuteBegan + (idle + 1) <= clock + 1
             /\ lastMillis + (idle + 1) < clock + 1 + Minute
             /\ idle + 1 <= Minute + Second
  <2>1. MinuteBegan + idle <= clock /\ lastMillis + idle < clock + Minute
        /\ clock <= lastMillis + Second
    BY <1>1, <1>5 DEF IdleEnds
  <2>2. /\ MinuteBegan \in Nat /\ idle \in Nat /\ clock \in Nat /\ lastMillis \in Nat
        /\ Minute \in Nat /\ Second \in Nat
    BY TimeTypes, CountedTimes
  <2> QED BY <2>1, <2>2
<1>6. MinuteBegan <= clock /\ lastMillis <= clock /\ open' = open /\ exhausted' = exhausted
  BY <1>1 DEF TurnsInTime
<1>7. CASE ~(Usable /\ ~Recording)
  <2>1. idle' = 0
    BY <1>3, <1>7
  <2>2. MinuteBegan' <= clock'
    BY <1>1, <1>2, <1>6, TimeTypes, CountedTimes
  <2>3. pc' = "halt" => delayLeft' <= HaltTicks
    BY <1>1, <1>3, <1>4, TimeTypes DEF IdleEnds
  <2> QED BY <2>1, <2>2, <2>3, IdleAnew
<1>8. CASE Usable /\ ~Recording
  <2>1. idle' = idle + 1 /\ card /\ ~exhausted
    BY <1>3, <1>8 DEF Usable
  <2>2. CASE pc = "top" /\ turned /\ open
    <3>1. ~stale => /\ (MinuteBegan + idle <= clock)' /\ (lastMillis + idle < clock + Minute)'
                    /\ (idle <= Minute + Second)'
      BY <1>1, <1>2, <1>5, <2>1, <2>2
    <3>2. (idle <= IdleLimit)'
      <4>1. CASE stale
        <5>1. (idle <= fileAge)' /\ (fileAge <= Hour + Second)'
          BY <1>6, <2>1, <2>2 DEF IdleByFile, RotatesInTime, InFile
        <5>2. IdleLimit' = Hour + Second
          BY <1>1, <4>1 DEF IdleLimit
        <5> QED BY <5>1, <5>2, TypesNext
      <4>2. CASE ~stale
        BY <1>2, <3>1, <4>2 DEF IdleLimit
      <4> QED BY <4>1, <4>2
    <3>3. (idle <= IdleLimit + HaltTicks)'
      BY <1>2, <3>2, IdleLimits, TypesNext
    <3> QED BY <1>1, <2>2, <3>1, <3>3 DEF IdleEnds
  <2>3. CASE pc = "top" /\ turned /\ ~open
    <3>1. idle <= IdleLimit
      BY <1>8, <2>3 DEF IdleEnds
    <3>2. HaltTicks > 0 => (idle <= IdleLimit + HaltTicks)'
      BY <1>2, <2>1, <3>1, IdleLimits, TimeTypes
    <3> QED BY <1>1, <2>3, <3>2 DEF IdleEnds
  <2>4. CASE pc = "halt" /\ delayLeft > 0 /\ ~open
    <3>1. idle + delayLeft <= HaltTicks
      BY <2>4 DEF IdleEnds
    <3>2. (idle + delayLeft <= HaltTicks)'
      BY <1>3, <2>1, <2>4, <3>1, TimeTypes
    <3>3. (idle <= IdleLimit + HaltTicks)'
      BY <1>2, <2>1, <2>4, <3>1, IdleLimits, TimeTypes
    <3> QED BY <1>1, <2>4, <3>2, <3>3 DEF IdleEnds
  <2> QED BY <1>4, <2>1, <2>2, <2>3, <2>4
<1> QED BY <1>7, <1>8

\* Every step keeps the time within which the logger records again.
LEMMA IdleStep ==
  ASSUME CountersFit, LoggerInv, LoggerInv', RecordsMatch, ShutdownInTime, TurnsInTime,
         TurnsInTime', RotatesInTime, RotatesInTime', MinuteBegan <= clock, NotIdle,
         IdleByFile, IdleByFile', IdleEnds, [Next]_vars
  PROVE  IdleEnds'
<1>1. CASE Tick
  BY <1>1, IdleTick
<1>2. CASE SwitchMoves \/ SupplyMoves \/ CardPulled \/ CardInserted \/ SpaceRunsOut
  <2>1. idle' = 0 /\ UNCHANGED <<clock, lastFlush, pc, delayLeft>>
    BY <1>2 DEF SwitchMoves, SupplyMoves, CardPulled, CardInserted, SpaceRunsOut,
                ProgramUnchanged, counters, control
  <2>2. MinuteBegan' <= clock'
    BY <2>1 DEF MinuteBegan
  <2>3. pc' = "halt" => delayLeft' <= HaltTicks
    BY <2>1, TimeTypes DEF IdleEnds
  <2> QED BY <2>1, <2>2, <2>3, IdleAnew
<1>3. CASE PowerCut
  <2>1. idle' = 0 /\ lastFlush' = 0 /\ pc' = "off"
    BY <1>3 DEF PowerCut
  <2>2. MinuteBegan' <= clock'
    BY <2>1, TypesNext DEF MinuteBegan
  <2> QED BY <2>1, <2>2, IdleAnew
<1>4. CASE setup
  <2>1. /\ UNCHANGED <<idle, stale>> /\ lastFlush' = 0 /\ pc' = "top" /\ ~open' /\ ~turned'
    BY <1>4 DEF setup, handle, seen, ages, TurnsInTime, LoggerInv, FileInv, HandleMatches
  <2> QED BY <2>1 DEF IdleEnds, IdleLimit
<1>5. CASE PowerOn
  <2>1. /\ UNCHANGED <<clock, idle, lastFlush, lastMillis, stale, open>> /\ pc' = "setup" /\ ~open
    BY <1>5 DEF PowerOn, time, handle, counters, seen, ages, LoggerInv, FileInv, HandleMatches
  <2> QED BY <2>1, IdleQuiet
<1>6. CASE Top
  <2>1. /\ UNCHANGED <<clock, idle, lastFlush, lastMillis, stale, open, exhausted>> /\ pc = "top"
        /\ pc' \in {"shutdown", "halt", "serial", "stopLogger"}
        /\ pc' = "halt" => delayLeft' = HaltTicks /\ (supply = "cap" \/ stopSwitch)
    BY <1>6 DEF Top, Shutdown, handle, counters, seen, ages
  <2>2. pc' = "halt" => idle = 0
    BY <2>1, TimeTypes DEF NotIdle
  <2> QED BY <2>1, <2>2, IdleQuiet
<1>7. CASE HaltEnds
  <2>1. /\ UNCHANGED <<clock, idle, lastFlush, lastMillis, stale, open, turned>>
        /\ pc = "halt" /\ pc' = "top" /\ ~open
    BY <1>7 DEF HaltEnds, time, handle, counters, seen, ages, ShutdownInTime
  <2>2. turned => idle <= IdleLimit
    BY <2>1, IdleLimits DEF IdleEnds
  <2> QED BY <2>1, <2>2, IdleQuiet
<1>8. CASE stopLogger
  <2>1. /\ UNCHANGED <<clock, idle, lastFlush, lastMillis, stale>> /\ pc = "stopLogger" /\ ~open'
        /\ \/ pc' = "halt" /\ back = "halt" /\ delayLeft' = HaltTicks
           \/ pc' = "begin"
    BY <1>8 DEF stopLogger, close, counters
  <2>2. pc' = "halt" => idle = 0
    BY <2>1 DEF NotIdle
  <2> QED BY <2>1, <2>2, IdleQuiet
<1>9. CASE Search
  <2>1. /\ UNCHANGED <<clock, lastFlush, lastMillis>> /\ pc' = "start"
        /\ idle' = 0 \/ (UNCHANGED <<idle, stale>> /\ ~open')
    <3>1. ~open
      BY <1>9 DEF Search, LoggerInv, FileInv, HandleMatches
    <3>2. UNCHANGED <<lastFlush, lastMillis>>
      BY <1>9 DEF Search, SearchFindsNone, SearchFindsNoSpace, SearchOpens, counters
    <3>3. idle' = 0 \/ (UNCHANGED <<idle, stale>> /\ ~open')
      BY <1>9, <3>1 DEF Search, SearchFindsNone, SearchFindsNoSpace, SearchOpens
    <3> QED BY <1>9, <3>2, <3>3 DEF Search, time
  <2>2. MinuteBegan' <= clock'
    BY <2>1 DEF MinuteBegan
  <2>3. CASE idle' = 0
    BY <2>1, <2>2, <2>3, IdleAnew
  <2>4. CASE UNCHANGED <<idle, stale>> /\ ~open'
    BY <2>1, <2>4, IdleQuiet
  <2> QED BY <2>1, <2>3, <2>4
<1>10. CASE ShutdownReason \/ Begin \/ StartRecords \/ testSerial
  <2>1. /\ UNCHANGED <<clock, idle, lastFlush, lastMillis, stale, open, exhausted>>
        /\ pc \in {"shutdown", "begin", "start", "serial"}
        /\ pc' \in {"stopLogger", "search", "serial", "count", "second"}
    BY <1>10 DEF ShutdownReason, Begin, StartRecords, testSerial, time, handle, counters,
                 seen, ages, ShutdownInTime, LoggerInv, TypeOK, ControlTypes
  <2> QED BY <2>1, IdleQuiet
<1>11. CASE NotYet \/ Count
  <2>1. /\ UNCHANGED <<clock, idle, lastFlush, lastMillis, stale, open, exhausted>>
        /\ UNCHANGED <<supply, stopSwitch, card, space, files>>
        /\ pc \in {"second", "count"} /\ pc' = "top"
    BY <1>11 DEF NotYet, Count, time, slot, storage, handle, counters, seen, ages
  <2>2. Usable' /\ ~open' => idle = 0
    BY <2>1, UsableSame DEF NotIdle
  <2>3. idle = 0 => idle <= IdleLimit
    BY IdleLimits
  <2> QED BY <2>1, <2>2, <2>3, IdleQuiet
<1>12. CASE NothingDue
  <2>1. /\ UNCHANGED <<clock, idle, lastFlush, stale, open, exhausted>>
        /\ UNCHANGED <<supply, stopSwitch, card, space, files>>
        /\ pc = "second" /\ pc' = "top" /\ lastMillis' = now /\ nowFlush = lastFlush
    BY <1>12 DEF NothingDue, EverySecond, time, slot, storage, seen, ages
  <2>2. Usable' /\ ~open' => idle = 0
    BY <2>1, UsableSame DEF NotIdle
  <2>3. idle = 0 => idle <= IdleLimit
    BY IdleLimits
  <2>4. MinuteBegan' = MinuteBegan /\ IdleLimit' = IdleLimit
    BY <2>1 DEF MinuteBegan, IdleLimit
  <2>5. now < MinuteBegan + Minute
    BY <2>1, MinuteIs DEF MinuteBegan
  <2>6. ASSUME ~exhausted, ~stale, open PROVE now + idle < clock + Minute
    <3>1. MinuteBegan + idle <= clock
      BY <2>6 DEF IdleEnds
    <3> QED BY <2>5, <3>1, TimeTypes, CountedTimes
  <2> QED BY <2>1, <2>2, <2>3, <2>4, <2>6 DEF IdleEnds
<1>13. CASE NewFileByTime \/ FlushByTime
  <2>1. /\ UNCHANGED <<clock, idle, lastFlush, stale, open, exhausted>>
        /\ pc' \in {"stopLogger", "flushClose"}
    BY <1>13 DEF NewFileByTime, FlushByTime, EverySecond, time, seen, ages
  <2>2. MinuteBegan' = MinuteBegan /\ IdleLimit' = IdleLimit
    BY <2>1 DEF MinuteBegan, IdleLimit
  <2> QED BY <2>1, <2>2 DEF IdleEnds
<1>14. CASE FlushClose
  <2>1. /\ UNCHANGED <<clock, idle, lastFlush, lastMillis, stale>>
        /\ UNCHANGED <<supply, stopSwitch, card, space, files, exhausted>>
        /\ pc = "flushClose" /\ pc' = "flushOpen" /\ ~open'
    BY <1>14 DEF FlushClose, close, time, slot, counters, seen
  <2>2. Usable' => idle <= IdleLimit
    <3>1. Usable' = Usable /\ (Usable => ~exhausted)
      BY <2>1, UsableSame DEF Usable
    <3>2. Usable /\ ~open => idle = 0
      BY <2>1 DEF NotIdle
    <3>3. ~exhausted /\ open => idle <= IdleLimit
      <4>1. ~exhausted /\ open => idle <= fileAge /\ fileAge <= Hour + Second
        BY DEF IdleByFile, RotatesInTime, InFile
      <4>2. ~exhausted /\ ~stale /\ open => idle <= Minute + Second
        BY DEF IdleEnds
      <4> QED BY <4>1, <4>2, TimeTypes DEF IdleLimit
    <3>4. idle = 0 => idle <= IdleLimit
      BY IdleLimits
    <3> QED BY <3>1, <3>2, <3>3, <3>4
  <2> QED BY <2>1, <2>2, IdleQuiet
<1>15. CASE FlushOpen
  <2>1. /\ UNCHANGED <<clock, idle, lastMillis, exhausted>>
        /\ UNCHANGED <<supply, stopSwitch, card, space, files>>
        /\ pc = "flushOpen" /\ pc' = "top" /\ lastFlush' = nowFlush
        /\ open' = exists(filename) /\ stale' = (stale \/ (~mounted /\ open'))
    BY <1>15 DEF FlushOpen, time, slot, storage, seen, ages
  <2>2. CASE ~exhausted /\ mounted /\ open'
    <3>1. idle' = 0
      BY <2>1, <2>2 DEF NotIdle, InFile
    <3>2. nowFlush \in Nat /\ nowFlush * Minute <= now /\ now <= clock
      BY MinuteIs DEF TurnsInTime
    <3>3. nowFlush * Minute \in Nat
      BY <3>2
    <3>4. MinuteBegan' <= clock'
      BY <2>1, <3>2, <3>3, TimeTypes DEF MinuteBegan
    <3> QED BY <2>1, <3>1, <3>4, IdleAnew
  <2>3. CASE exhausted \/ ~mounted \/ ~open'
    <3>1. IdleLimit <= IdleLimit' /\ IdleLimit \in Nat /\ IdleLimit' \in Nat
      <4>1. stale => stale'
        BY <2>1
      <4>2. /\ IdleLimit = (IF stale THEN Hour ELSE Minute) + Second
            /\ IdleLimit' = (IF stale' THEN Hour ELSE Minute) + Second
        BY DEF IdleLimit
      <4> QED BY <4>1, <4>2
    <3>2. Usable' => ~exhausted /\ idle <= IdleLimit
      BY <2>1, UsableSame DEF IdleEnds, Usable
    <3>3. HaltTicks > 0 => idle <= IdleLimit + HaltTicks
      BY DEF IdleEnds
    <3>4. (Usable /\ (pc = "flushOpen" \/ (pc = "top" /\ turned /\ ~open)) => idle <= IdleLimit)'
      BY <2>1, <3>1, <3>2, TimeTypes
    <3>5. (HaltTicks > 0 => idle <= IdleLimit + HaltTicks)'
      BY <2>1, <3>1, <3>3, TimeTypes
    <3>6. exhausted' \/ stale' \/ ~open'
      BY <2>1, <2>3
    <3> QED BY <2>1, <3>4, <3>5, <3>6 DEF IdleEnds
  <2> QED BY <2>2, <2>3
<1>16. CASE UNCHANGED vars
  <2>1. /\ UNCHANGED <<clock, idle, lastFlush, lastMillis, stale, open, exhausted, turned>>
        /\ UNCHANGED <<supply, stopSwitch, card, space, files, pc, delayLeft>>
    BY <1>16 DEF vars, time, slot, storage, handle, counters, control, seen, ages
  <2>2. Usable' /\ (pc' = "flushOpen" \/ (pc' = "top" /\ turned' /\ ~open'))
          => idle <= IdleLimit
    BY <2>1, UsableSame DEF IdleEnds
  <2>3. MinuteBegan' = MinuteBegan /\ IdleLimit' = IdleLimit
    BY <2>1 DEF MinuteBegan, IdleLimit
  <2> QED BY <2>1, <2>2, <2>3 DEF IdleEnds
<1> QED BY <1>1, <1>2, <1>3, <1>4, <1>5, <1>6, <1>7, <1>8, <1>9, <1>10, <1>11, <1>12,
           <1>13, <1>14, <1>15, <1>16
        DEF Next, Program, Environment, NewFile, Housekeeping

-----------------------------------------------------------------------------
\* The times hold in every reachable state, if the counters fit.
LEMMA TimesInvariant == Spec => []TimesMatch
<1>1. Init => TimesMatch
  <2> SUFFICES ASSUME Init, CountersFit
               PROVE  TurnsInTime /\ FlushesInTime /\ RotatesInTime /\ ResumesInTime
    BY DEF TimesMatch
  <2>1. MinuteBegan = 0 /\ HourBegan = 0
    BY DEF Init, MinuteBegan, HourBegan
  <2>2. TurnsInTime /\ FlushesInTime
    BY <2>1 DEF Init, TurnsInTime, FlushesInTime, HourDue
  <2>3. RotatesInTime /\ ResumesInTime
    BY <2>1 DEF Init, RotatesInTime, ResumesInTime, NotIdle, IdleByFile, IdleEnds, IdleLimit,
                HourDue, InFile
  <2> QED BY <2>2, <2>3
<1>2. ASSUME LoggerInv, LoggerInv', RecordsMatch, ShutdownInTime, TimesMatch, [Next]_vars
      PROVE  TimesMatch'
  <2> SUFFICES ASSUME CountersFit'
               PROVE  (TurnsInTime /\ FlushesInTime /\ RotatesInTime /\ ResumesInTime)'
    BY DEF TimesMatch
  <2>1. CountersFit
    BY DEF CountersFit
  <2>2. TurnsInTime /\ FlushesInTime /\ RotatesInTime /\ NotIdle /\ IdleByFile
        /\ IdleEnds
    BY <1>2, <2>1 DEF TimesMatch, ResumesInTime
  <2>3. TurnsInTime'
    BY <1>2, <2>1, <2>2, TurnsStep
  <2>4. FlushesInTime'
    BY <1>2, <2>1, <2>2, <2>3, FlushesStep
  <2>5. RotatesInTime'
    BY <1>2, <2>1, <2>2, <2>3, RotatesStep
  <2>6. NotIdle'
    BY <1>2, <2>1, <2>2, NotIdleStep
  <2>7. MinuteBegan <= clock
    BY <1>2, <2>2, TimeTypes, CountedTimes DEF FlushesInTime
  <2>8. IdleByFile'
    BY <1>2, <2>1, <2>2, IdleByFileStep
  <2>9. IdleEnds'
    BY <1>2, <2>1, <2>2, <2>3, <2>5, <2>7, <2>8, IdleStep
  <2> QED BY <2>3, <2>4, <2>5, <2>6, <2>8, <2>9 DEF ResumesInTime
<1> QED BY <1>1, <1>2, LoggerInvariant, RecordsInvariant, ShutdownInvariant, PTL DEF Spec

\* The handle, the card, the records and the file names agree in every reachable
\* state, on the cap the loop is never late, and what it has to do in time is done.
THEOREM HandleCorrect == Spec => []HandleInv
<1>1. LoggerInv /\ RecordsMatch /\ ShutdownInTime /\ TimesMatch => HandleInv
  BY DEF LoggerInv, HandleInv
<1> QED BY <1>1, LoggerInvariant, RecordsInvariant, ShutdownInvariant, TimesInvariant, PTL

\* No record waits longer than a minute and a second for the file to be closed, as
\* long as the byte of the minute does not come round.
THEOREM RecordsFlushedInTime == CountersFit /\ Spec => []FlushedEveryMinute
<1> SUFFICES ASSUME CountersFit PROVE Spec => []FlushedEveryMinute
  OBVIOUS
<1>1. TimesMatch => FlushedEveryMinute
  BY DEF TimesMatch, FlushesInTime, FlushedEveryMinute
<1> QED BY <1>1, TimesInvariant, PTL

\* A data file spans no more than an hour and a second, as long as the byte and the
\* word of the hour do not come round and newFile() finds free numbers.
THEOREM FilesSpanAnHour == CountersFit /\ Spec => []FileSpansAnHour
<1> SUFFICES ASSUME CountersFit PROVE Spec => []FileSpansAnHour
  OBVIOUS
<1>1. TimesMatch => FileSpansAnHour
  BY DEF TimesMatch, RotatesInTime, InFile, Recording, FileSpansAnHour
<1> QED BY <1>1, TimesInvariant, PTL

\* A usable logger records again within a minute, a second and the delay after a
\* shutdown, if that delay is not empty; within an hour instead of the minute, once
\* flushFile() has opened the file from the cache although the card was gone.
THEOREM RecordingResumes == CountersFit /\ HaltTicks > 0 /\ Spec => []ResumesSoon
<1> SUFFICES ASSUME CountersFit, HaltTicks > 0 PROVE Spec => []ResumesSoon
  OBVIOUS
<1>1. TimesMatch => ResumesSoon
  BY DEF TimesMatch, ResumesInTime, IdleEnds, IdleLimit, ResumesSoon
<1> QED BY <1>1, TimesInvariant, PTL

\* A gold cap that lasts for two ticks is enough: whatever else happens, the loop
\* has closed every file that is two ticks old before the supply is gone.
THEOREM RecordsSurviveShutdown == CapTicks >= 2 /\ Spec => []ShutdownKeepsRecords
<1> SUFFICES ASSUME CapTicks >= 2 PROVE Spec => []ShutdownKeepsRecords
  OBVIOUS
<1>1. Init => ShutdownKeepsRecords
  BY DEF Init, ShutdownKeepsRecords
<1>2. ASSUME LoggerInv, ShutdownInTime, ShutdownKeepsRecords, [Next]_vars
      PROVE  ShutdownKeepsRecords'
  <2>1. CASE PowerCut
    <3>1. ~(Recording /\ fileAge >= CapTicks)
      BY <1>2, <2>1 DEF PowerCut, ShutdownInTime, Recording, LoggerInv, TypeOK,
                        ClockTypes, HistoryTypes
    <3> QED BY <1>2, <2>1, <3>1 DEF PowerCut, ShutdownKeepsRecords
  <2>2. CASE Program \/ UNCHANGED vars
    <3>1. lostByPower' = lostByPower
      BY <2>2 DEF Program, setup, Top, ShutdownReason, HaltEnds, stopLogger, NewFile,
                  Begin, Search, StartRecords, testSerial, Housekeeping, NotYet,
                  NewFileByTime, FlushByTime, NothingDue, EverySecond, Count,
                  FlushClose, FlushOpen, seen, vars
    <3> QED BY <1>2, <3>1 DEF ShutdownKeepsRecords
  <2>3. CASE Tick \/ SwitchMoves \/ SupplyMoves \/ CardPulled \/ CardInserted
             \/ SpaceRunsOut \/ PowerOn
    <3>1. lostByPower' = lostByPower
      BY <2>3 DEF Tick, SwitchMoves, SupplyMoves, CardPulled, CardInserted,
                  SpaceRunsOut, PowerOn, ProgramUnchanged, seen
    <3> QED BY <1>2, <3>1 DEF ShutdownKeepsRecords
  <2> QED BY <1>2, <2>1, <2>2, <2>3 DEF Next, Environment
<1> QED BY <1>1, <1>2, LoggerInvariant, ShutdownInvariant, PTL DEF Spec
=============================================================================
