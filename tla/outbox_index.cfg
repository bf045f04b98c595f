CONSTANTS
    Op <- MCOp
    RetryDelay = 1
    Retention = 1
    MaxRecords = 1
    ExpiredLimit = 1
    ExcessLimit = 1
    MaxTime = 1
    MaxTorn = 1
SPECIFICATION Spec
INVARIANTS
    IndexComplete
    IndexExact
PROPERTIES
    QueuedNotPruned
    ImplementsQueue
CHECK_DEADLOCK FALSE
