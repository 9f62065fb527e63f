CONSTANTS
  MaxReactivations = 1
  MaxInput = 1
  MaxUpdates = 1
SPECIFICATION LegacySpec
PROPERTY FontListActivates
CHECK_DEADLOCK FALSE
