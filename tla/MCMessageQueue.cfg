CONSTANTS
  InitialCapacity = 2
  MaxMessages = 8
  Quit = Quit
  NoMessage = NoMessage
SPECIFICATION FairSpec
INVARIANTS
  WorkerFindsMessage
  QuitIsLast
PROPERTIES
  QueueIsFifo
  PostedIsDelivered
