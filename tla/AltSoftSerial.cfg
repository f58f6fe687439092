CONSTANTS
  DataBits = 2
  RX_BUFFER_SIZE = 2
  Byte <- MCByte
  TimerMod = 40
  MaxLatency = 2
  MaxFrames = 3
  SERIAL_TX_BUFFER_SIZE = 2
  Char = {1, 257, 258}
  Modes = {8, 9}
  MaxChars = 4
SPECIFICATION MCSpec
INVARIANTS
  FramesAssembled
  SentInOrder
PROPERTIES
  IsQueue
  NothingWaits
