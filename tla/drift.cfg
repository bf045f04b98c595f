SPECIFICATION FairSpec
CHECK_DEADLOCK FALSE
CONSTANTS
    Object = {1, 2}
    ChangeKinds = {"write", "delete", "association", "destination", "config", "tamper", "reconcile", "fault"}
    Batches = {1, 2}
    QueueCapacity = 4
    MaxVersion = 2
    MaxChanges = 2
INVARIANT OneRepair
PROPERTY SweepReachesAll
PROPERTY StatusConverges
PROPERTY DriftRepaired
