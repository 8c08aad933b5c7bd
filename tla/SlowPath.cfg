SPECIFICATION FairSpec
CONSTANTS
    NumAlerts = 5
    Block <- MCBlock
    BlockOf <- MCBlockOf
    Number <- MCNumber
    Confirmed = {1, 2, 3}
    Fault <- MCFault
    Worker = {"w1"}
    QueueCap = 1
    DeliveryLimit = 1
    OrphanCap = 1
    MaxReverts = 1
    MaxStops = 1
INVARIANTS
    AlertsAccounted
    CancelledWasReverted
    NamedAreRetracted
PROPERTY EveryAlertSettled
CHECK_DEADLOCK FALSE
