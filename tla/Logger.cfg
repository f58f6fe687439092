SPECIFICATION FairSpec
CONSTANTS
  LastName = 4
  RootEntries = 3
  FirstBlock = {1, 2}
  Second = 1
  Minute = 3
  Hour = 8
  HaltTicks = 1
  SetupTicks = 1
  ClockMod = 64
  WordMod = 4
  ByteMod = 6
  CapTicks = 2
  outputGyro = TRUE
  outputVcc = FALSE
  MaxClock = 12
  MaxData = 1
  MaxFaults = 2
INVARIANTS
  TypeOK
  HandleInv
  FlushedEveryMinute
  FileSpansAnHour
  StartsWithHeader
  EndsWithStop
  ShutdownKeepsRecords
  ResumesSoon
PROPERTIES
  FinishedIsFinal
  TurnEnds
CHECK_DEADLOCK FALSE
