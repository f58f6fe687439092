SPECIFICATION FairSpec
CONSTANTS
  RxSize = 3
  BitsPerByte = 2
  HwDepth = 1
  Byte <- MCByte
  Zero = 0
  MaxChars = 4
INVARIANTS
  InOrder
  AvailableIsKept
  RingInv
PROPERTIES
  IsQueue
  EveryCharIsRead
