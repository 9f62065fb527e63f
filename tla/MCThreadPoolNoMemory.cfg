SPECIFICATION SpecNoMemory
CONSTANTS
  Clients = {c1}
  Processors = 1
  MaxThreads = 1
  Minimums = {1}
  Maximums = {1}
  MaxSubmits = 1
  MaxResizes = 0
  MaxFailures = 0
  None = None
CHECK_DEADLOCK FALSE
INVARIANT SubmittedIsOwned
