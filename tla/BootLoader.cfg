SPECIFICATION Spec
CONSTANTS
  SectorSize = 4
  DirEntries = 2
  Fat16Entries = 4
  Fat32Entries = 2
  MinFat16 = 6
  MinFat32 = 12
  PageSize = 2
  BOOT_ADR = 12
  Cards <- MCCards
  Boards <- MCBoards
  MaxEvents = 2
INVARIANTS
  StartedIsWhole
PROPERTIES
  BecomesUpToDate
CHECK_DEADLOCK FALSE
