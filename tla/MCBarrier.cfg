CONSTANTS
  Threads = {t1, t2, t3}
  Processors = 2
  MaxRounds = 3
SPECIFICATION FairSpec
INVARIANTS
  NeverTooMany
PROPERTIES
  ImplementsRendezvous
  EverybodyLeaves
CHECK_DEADLOCK FALSE
