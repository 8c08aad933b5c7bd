SPECIFICATION Spec
CONSTANTS
    Partition <- MCPartition
    Record <- MCRecord
    Log <- MCLog
    SeekMayFail = FALSE
    MaxFailures = 3
INVARIANT CommittedIsSettled
PROPERTIES
    ImplementsDelivery
    EverythingSettled
CHECK_DEADLOCK FALSE
