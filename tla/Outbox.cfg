SPECIFICATION Spec
CONSTANTS
    Key = {k}
    NoKey = none
    Flusher = {f1, f2}
    Batch = 2
    MaxRows = 3
    MaxWrites = 1
    MaxFailures = 1
INVARIANTS AnnouncedWasWritten StampedWasSent DuplicatesNeedFailures
PROPERTIES EveryAnnouncementPublished
CHECK_DEADLOCK FALSE
