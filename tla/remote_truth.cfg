SPECIFICATION Spec
CHECK_DEADLOCK FALSE
SYMMETRY WorkerSymmetry
CONSTANTS
    a1 = a1
    w1 = w1
    w2 = w2
    UserOps = {"write", "data_delete", "undelete", "manual_sync"}
    Assoc = {a1}
    DeleteAssoc = {a1}
    Worker = {w1, w2}
    Lease = 2
    RetryDelay = 1
    MaxAttempts = 2
    QueueCapacity = 2
    RemoteCAS = TRUE
    Overrun = FALSE
    MaxVersion = 2
    MaxSalt = 1
    MaxClaims = 1
    MaxTime = 1
    MaxProc = 1
INVARIANT SyncedIsRemote
INVARIANT NoLostWork
INVARIANT QueueWithinCapacity
PROPERTY RemoteNeverOlder
