SPECIFICATION Spec
CONSTANTS
    Partition <- MCPartition
    Record <- MCRecord
    Log <- MCLog
    SeekMayFail = FALSE
    Capacity = 2
    MaxFaults = 1
    MaxCrashes = 1
INVARIANTS
    ConvergesToReference
    CommittedIsPersisted
    AnalyticsNotDoubled
    JobsConverge
PROPERTIES
    RowNeverRegresses
CHECK_DEADLOCK FALSE
