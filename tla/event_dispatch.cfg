CONSTANTS
    Op = {1, 2}
    MaxOperations = 1
    PeriodicMax = 1
    RetryDelay = 1
    MaxStarts = 2
    Bounds <- MCBounds
SPECIFICATION FairSpec
INVARIANTS
    SignalNotLost
    OneLoop
PROPERTIES
    DueDispatched
CHECK_DEADLOCK FALSE
