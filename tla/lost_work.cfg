SPECIFICATION Spec
CHECK_DEADLOCK FALSE
SYMMETRY WorkerSymmetry
CONSTANTS
    a1 = a1
    a2 = a2
    w1 = w1
    w2 = w2
    UserOps = {"write", "undelete", "cancel", "destroy", "delete_version"}
    Assoc = {a1, a2}
    DeleteAssoc = {a1}
    Worker = {w1, w2}
    Lease = 1
    RetryDelay = 1
    MaxAttempts = 1
    QueueCapacity = 9
    RemoteCAS = TRUE
    Overrun = TRUE
    MaxVersion = 1
    MaxSalt = 0
    MaxClaims = 2
    MaxTime = 1
    MaxProc = 1
INVARIANT NoLostWork
