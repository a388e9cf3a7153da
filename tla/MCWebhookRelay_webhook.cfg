SPECIFICATION FairSpec
CONSTANTS
    Deliveries <- MCDeliveries
    Monitors <- MCMonitors
    QueueCapacity = 2
    RetentionCapacity = 1
    BatchSize = 2
    MaxStops = 1
INVARIANTS
    TypeOK
    AcceptedIsKept
    WakesOnce
    BatchIsPending
PROPERTIES
    PendingIsForwarded
