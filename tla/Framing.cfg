CONSTANTS
  MAX_NMEA_BUFFER = 5
  NmeaChar <- MCNmeaChar
  SeaTalkChar <- MCSeaTalkChar
  MaxSteps = 7
  MaxCharsB = 2
  MaxChanges = 2
  HeapStart = 8
  HeapEnd = 24
  MaxMargin = 2
  HeapWord = 64
  BlockLens = {1, 3, 6, 62, 63}
  HeapBlocks = 3
  StringsEnd = 20
  MaxText = 3
  ParseCalls = 2
  SerialEvents = 3
SPECIFICATION MCSpec
INVARIANTS
  FileHoldsTheLines
  FileHoldsTheDatagrams
  LibrariesAreExact
CHECK_DEADLOCK FALSE
