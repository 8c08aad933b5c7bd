SPECIFICATION Spec
CONSTANTS
    bx = bx
    by = by
    Leg <- MCLeg
    TxOf <- MCTxOf
    ChainOf <- MCChainOf
    KindOf <- MCKindOf
    KeyOf <- MCKeyOf
    Observed <- MCObserved
    Window = 1
    Capacity = 2
    Retention = 0
    FindingCap = 1
    Block = {bx, by}
    BlockOf <- MCBlockOf
    Feed <- MCFeed
    DedupCap = 2
    ChannelCap = 1
    MaxTime = 1
    MaxLag = 1
    MaxFaults = 1
SYMMETRY Symmetry
INVARIANTS
    ReplayRestoresBuffer
    LegsJoinOnce
    FindingsFollowTheirLegs
CHECK_DEADLOCK FALSE
