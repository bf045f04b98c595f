CONSTANTS
    Worker = {w1, w2}
    Kinds = {"aws", "gitlab", "k8s", "k8s_map"}
    Readable = {TRUE, FALSE}
    Payload <- MCPayload
    MapKeys <- MCMapKeys
    MaxEdits = 2
SPECIFICATION Spec
SYMMETRY Symmetry

    
    
PROPERTIES
    ForeignUntouched
    UnmanagedKept
    VersionForward
