SPECIFICATION Spec
CHECK_DEADLOCK FALSE
SYMMETRY WorkerSymmetry
CONSTANTS
    a1 = a1
    w1 = w1
    w2 = w2
    UserOps = {"write", "retry", "cancel", "disable", "enable", "config"}
    Assoc = {a1}
    DeleteAssoc = {a1}
    Worker = {w1, w2}
    Lease = 2
    RetryDelay = 1
    MaxAttempts = 2
    QueueCapacity = 9
    RemoteCAS = TRUE
    Overrun = TRUE
    MaxVersion = 2
    MaxSalt = 0
    MaxClaims = 2
    MaxTime = 2
    MaxProc = 2
INVARIANT TypeOK
INVARIANT ClaimIntact
INVARIANT OneCommitter
 
