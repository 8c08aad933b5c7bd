SPECIFICATION FairSpec
CONSTANTS
    Block <- MCFork
    NoBlock = "none"
    Parent <- MCForkParent
    Number <- MCForkNumber
    Depth = 3
    Endpoint = {"e1"}
    Settled = "a2"
    FinalLag = 3
    MaxCatchup = 2
    ChannelCap = 1
    MaxSkips = 0
    MaxRestarts = 0
PROPERTY AlwaysCatchesUp
CHECK_DEADLOCK FALSE
