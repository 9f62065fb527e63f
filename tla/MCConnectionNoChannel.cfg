CONSTANTS
  MaxChannels = 0
  ClientSettings <- ShadowWinClients
  ServerSettings <- DefaultServers
SPECIFICATION Spec
INVARIANT MessageChannelExists
CHECK_DEADLOCK FALSE
