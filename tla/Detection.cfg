SPECIFICATION FairSpec
CONSTANTS
    Block <- MCBlock
    NoBlock = "none"
    Parent <- MCParent
    Number <- MCNumber
    Depth = 3
    Window = 2
    Unencodable = {"g"}
    Undecodable = {"c2"}
    WorkCap = 2
    DoneCap = 1
    MaxFaults = 2
INVARIANTS
    SnapshotsInWindow
    CommittedIsPublished
    FoldedOnce
    RewindIsExact
PROPERTY EveryBlockDetected
CHECK_DEADLOCK FALSE
