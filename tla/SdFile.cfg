CONSTANTS
  Clusters = 3
  BlocksPerCluster = 2
  UnitsPerBlock = 2
  EntriesPerBlock = 4
  DirBlocks = 2
  SlotsPerBlock = 2
  Files = 2
  Required = 1
  CnfUnits = 1
  MaxUnits = 5
  MaxWrite = 3
  FaultKinds = {"cut", "out", "refused", "late"}
  MaxFaults = 2
  TreeClusters = 4
  RootSlots = 2
  SlotsPerCluster = 3
  TreeUnits = 2
  MaxDepth = 2
  Sizes = {1, 3}
  MaxSize = 4
  MaxCalls = 2
  CardModels <- MCModels
  CardBlocks = 3
  BlockBytes = 2
  SectorMask = 1
  CardSizes <- CardSize
  MaxBoundaries = 66
  StreamCalls = 3
SPECIFICATION MCSpec
INVARIANTS
  SavedIsKept
  VolumeSound
  CallsAreExact
  BlocksAreExact
  FormattedIsMounted
CHECK_DEADLOCK FALSE
