CONSTANTS
    Cmds = {login, list}
    LoginCmd = login
    NoCmd = NoCmd
    MaxRequests = 2
    MaxBeats = 1
    MaxTimeouts = 2
    MaxLosses = 1
    MaxPushes = 1
    MaxConnects = 2
SPECIFICATION FairSpec
INVARIANTS ReconnectIsSafe
PROPERTIES ResponseIsOwn CallsReturn
CHECK_DEADLOCK FALSE
