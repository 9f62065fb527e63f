CONSTANTS
  Threads = {t1, t2, t3}
  NoThread = NoThread
  MaxSpin = 1
  MaxDepth = 2
SPECIFICATION FairSpec
INVARIANTS
  MutualExclusion
  RecursionIsRecognised
  NoSurplusPost
PROPERTY WaiterIsWoken
