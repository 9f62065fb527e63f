CONSTANT Clients = {c1, c2, c3}
SPECIFICATION FairSpec
INVARIANTS
  AssertionsHold
  ServerWaitsForAll
  BarrierIsForAll
PROPERTIES
  RoundsFollowOneAnother
  FrameIsSent
