SPECIFICATION Spec
CHECK_DEADLOCK FALSE
SYMMETRY AssocSymmetry
CONSTANTS
    a1 = a1
    a2 = a2
    Assoc = {a1, a2}
    DeleteAssoc = {a1}
    UserOps = {"write", "data_delete", "undelete"}
    MaxVersion = 2
    MaxSalt = 0
    MaxInterrupts = 1
    MaxRecoveryInterrupts = 1
INVARIANT TypeOK
INVARIANT WorkRecorded
INVARIANT CurrentVersionExists
