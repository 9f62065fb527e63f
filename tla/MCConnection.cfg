CONSTANTS
  MaxChannels = 2
  ClientSettings <- AllClients
  ServerSettings <- AllServers
SPECIFICATION FairSpec
INVARIANTS
  NothingFails
  SettingsAgree
  JoinsAgree
  MessageChannelExists
PROPERTY Connected
CHECK_DEADLOCK FALSE
