CONSTANTS
    Client = {c1, c2}
    Assoc = {"a", "b", "k"}
    Path = {"p", "q", "r"}
    Dest = {"d"}
    Name = {"n", "m", "pattern"}
    Key = {"n", "m"}
    Config = {1, 2}
    PathOf <- MCPathOf
    DestOf <- MCDestOf
    OwnName <- MCOwnName
    PerKey = {"k"}
    KeyName <- MCKeyName
    InitialKeys = {{"m"}}
    InitialAssocs = {{}, {"a"}, {"k"}}
    Postures = {TRUE, FALSE}
    MaxSecrets = 2
    MaxRequests = 3
    MaxFaults = 1
SPECIFICATION Spec
SYMMETRY Symmetry
INVARIANTS
    AssociationIndexed
    OwnNameOnce
    DestinationPresent
    SensitiveStored
    
CHECK_DEADLOCK FALSE
