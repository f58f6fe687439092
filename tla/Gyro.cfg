SPECIFICATION Spec
CONSTANTS
  TWI_BUFFER_LENGTH = 32
  BUFFER_LENGTH = 32
  PowerOn <- MCPowerOn
  NoAdvance <- MCNoAdvance
  Garbage = {0, 255}
  FewAccesses <- MCFewAccesses
  MaxFaults = 1
INVARIANTS
  FieldsAreExact
  WritesStayInPlace
PROPERTIES
  EveryCallReturns
CHECK_DEADLOCK FALSE
