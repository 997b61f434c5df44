CONSTANTS
    Users = {a, b}
    NoUser = NoUser
    kBatchSize = 1
    SyncLimit = 1
    MaxFailures = 1
    MaxMsgs = 2
    MaxTime = 1
    MaxLogins = 2
SPECIFICATION MsgSpec
INVARIANTS AckedIsAccountedFor  
CHECK_DEADLOCK FALSE
