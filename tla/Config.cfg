CONSTANTS
  VesselBytes = 2
  Forms <- MCForms
  OtherTexts <- MCOtherTexts
  MaxEvents = 4
SPECIFICATION Spec
INVARIANTS
  OpenedAsConfigured
  RestartKeepsSettings
  ChosenOrErased
PROPERTIES
  StartEnds
CHECK_DEADLOCK FALSE
