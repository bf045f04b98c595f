SPECIFICATION Spec
CHECK_DEADLOCK FALSE
SYMMETRY CallerSymmetry
CONSTANTS
    r1 = r1
    f1 = f1
    f2 = f2
    c1 = c1
    c2 = c2
    Ref = {r1}
    Fp = {f1, f2}
    Caller = {c1, c2}
    MaxBuilds = 3
    MaxEpoch = 1
INVARIANT TypeOK
INVARIANT RightRuntime
INVARIANT OneOwner
INVARIANT NeverPublishedStale
INVARIANT SingleFlight
INVARIANT NoStrandedWaiter
