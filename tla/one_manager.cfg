CONSTANTS
    Client = {c1}
    Assoc = {"a", "b", "k"}
    Path = {"p", "q", "r"}
    Dest = {"d"}
    Name = {"n", "m", "pattern"}
    Key = {"n", "m"}
    Config = {1}
    PathOf <- MCPathOf
    DestOf <- MCDestOf
    OwnName <- MCOwnName
    PerKey = {"k"}
    KeyName <- MCKeyName
    InitialKeys = {{"m"}}
    InitialAssocs = {{}, {"a"}, {"k"}}
    Postures = {FALSE}
    MaxSecrets = 0
    MaxRequests = 5
    MaxFaults = 0
SPECIFICATION Spec
INVARIANT
    OneManager
CHECK_DEADLOCK FALSE
