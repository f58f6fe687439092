SPECIFICATION Spec
CONSTANTS
  LastName = 2
  RootEntries = 2
  FirstBlock = {1, 2}
  Second = 1
  Minute = 2
  Hour = 4
  HaltTicks = 1
  SetupTicks = 1
  ClockMod = 64
  WordMod = 16
  ByteMod = 8
  CapTicks = 2
  outputGyro = TRUE
  outputVcc = FALSE
  MaxClock = 10
  MaxData = 1
  MaxFaults = 1
PROPERTIES
  OnlyNewFiles
CHECK_DEADLOCK FALSE
