SPECIFICATION Spec
CONSTANTS
  LastName = 6
  RootEntries = 6
  FirstBlock = {1, 2}
  Second = 1
  Minute = 2
  Hour = 8
  HaltTicks = 1
  SetupTicks = 1
  ClockMod = 64
  WordMod = 16
  ByteMod = 2
  CapTicks = 2
  outputGyro = TRUE
  outputVcc = FALSE
  MaxClock = 24
  MaxData = 0
  MaxFaults = 0
PROPERTIES
  HourlyFile
CHECK_DEADLOCK FALSE
