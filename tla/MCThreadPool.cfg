CONSTANTS
  Clients = {c1, c2}
  Processors = 2
  MaxThreads = 2
  Minimums = {1}
  Maximums = {1, 2}
  MaxSubmits = 2
  MaxResizes = 2
  MaxFailures = 1
  None = None
SPECIFICATION FairSpec
INVARIANTS
  CountsOutstanding
  SubmittedIsOwned
  CloseLosesNothing
PROPERTIES
  ImplementsWorkItems
  WaitEnds
  OwnerReturns
CHECK_DEADLOCK FALSE
