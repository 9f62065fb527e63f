CONSTANTS
  MaxReactivations = 0
  MaxInput = 1
  MaxUpdates = 1
SPECIFICATION RereadSpec
PROPERTY EventuallyActive
CHECK_DEADLOCK FALSE
