SPECIFICATION Spec
CONSTANTS
    Block <- MCBlock
    NoBlock = "none"
    Parent <- MCParent
    Number <- MCNumber
    Depth = 1
    Endpoint = {"e1"}
    Settled = "a3"
    FinalLag = 2
    MaxCatchup = 2
    ChannelCap = 2
    MaxSkips = 1
    MaxRestarts = 1
INVARIANTS
    IngestionTypeOK
    ViewIsChain
    ViewMatchesTree
    FinalRevertedAtFloor
    AssembledFirst
PROPERTIES
    FinalAscends
    RevertedWasCanonical
CHECK_DEADLOCK FALSE
