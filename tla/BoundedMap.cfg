SPECIFICATION MapSpec
CONSTANTS
    Key = {"k1", "k2", "k3", "k4", "k5"}
    Item = {"x"}
    Capacity = 2
    Reuse = FALSE
    MaxOrder = 6
INVARIANT NeverOverfull
PROPERTY ImplementsFifoCache
CHECK_DEADLOCK FALSE
