SPECIFICATION FairSpec
CONSTANTS
    Block <- MCFork
    NoBlock = "none"
    Parent <- MCForkParent
    Number <- MCForkNumber
    Depth = 3
    Endpoint = {"e1"}
    Settled = "a2"
    FinalLag = 1
    MaxCatchup = 1
    ChannelCap = 1
    MaxSkips = 0
    MaxRestarts = 0
PROPERTIES
    CatchesUp
    FinalityArrives
CHECK_DEADLOCK FALSE
