SPECIFICATION CallsSpec
CONSTANTS
    Block <- MCBlock
    NoBlock = "none"
    Parent <- MCParent
    Number <- MCNumber
    Depth = 2
    FinalityAdvances = TRUE
INVARIANTS
    TipIsBest
    BoundedHeights
PROPERTIES
    UpdateIsReplayable
    FinalRevertedOnlyAtFloor
    FinalizedOnce
