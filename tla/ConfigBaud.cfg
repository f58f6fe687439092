CONSTANTS
  VesselBytes = 2
  Forms <- MCFastForms
  OtherTexts <- MCOtherTexts
  MaxEvents = 0
SPECIFICATION Spec
INVARIANTS
  DocumentedBaudRates
CHECK_DEADLOCK FALSE
