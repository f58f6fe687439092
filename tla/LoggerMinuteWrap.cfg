SPECIFICATION Spec
CONSTANTS
  LastName = 4
  RootEntries = 3
  FirstBlock = {1, 2}
  Second = 1
  Minute = 3
  Hour = 6
  HaltTicks = 1
  SetupTicks = 1
  ClockMod = 64
  WordMod = 4
  ByteMod = 3
  CapTicks = 2
  outputGyro = TRUE
  outputVcc = FALSE
  MaxClock = 12
  MaxData = 0
  MaxFaults = 1
INVARIANTS
  FlushedEveryMinute
CHECK_DEADLOCK FALSE
