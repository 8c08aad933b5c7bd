SPECIFICATION Spec
CONSTANTS
    Block <- MCBlock
    NoBlock = "none"
    Parent <- MCParent
    Number <- MCNumber
    Depth = 3
    Window = 2
    Unencodable = {}
    Undecodable = {}
    WorkCap = 1
    DoneCap = 1
    MaxFaults = 0
INVARIANT BackIsCanonicalTip
CHECK_DEADLOCK FALSE
