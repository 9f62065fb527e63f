CONSTANTS
    ClientSettings <- AllClientSettings
    ServerSettings <- AllServerSettings
    MaxConns = 6
    MaxLosses = 1
SPECIFICATION FairSpec
CHECK_DEADLOCK FALSE
INVARIANTS
    AgreedProtocol
    OnlyLastServed
    NothingMissed
    StrongestCommon
PROPERTIES
    NegotiationEnds
    NoPeerLeftBehind
