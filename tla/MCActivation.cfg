CONSTANTS
  MaxReactivations = 2
  MaxInput = 2
  MaxUpdates = 2
SPECIFICATION FairSpec
INVARIANTS
  TypeOK
  NothingFails
  ActivationIsCurrent
  ActivateOnce
  ReactivationIsRecognised
PROPERTIES
  EventuallyActive
  FontListActivates
CHECK_DEADLOCK FALSE
