SPECIFICATION FairSpec
CHECK_DEADLOCK FALSE
CONSTANTS
    a1 = a1
    Assoc = {a1}
    DeleteAssoc = {a1}
    UserOps = {"write", "data_delete", "undelete", "manual_sync"}
    MaxVersion = 1
    MaxSalt = 1
    MaxInterrupts = 2
    MaxRecoveryInterrupts = 1
PROPERTY IntentsDrain
