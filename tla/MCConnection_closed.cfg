CONSTANTS
    Workers = {w1, w2}
    Pushers = {p1}
    MaxRequests = 1
    Unparsable = {}
    MaxPushes = 1
    SendBuffer = 1
    ClientWaits = FALSE
    Heartbeats = FALSE
SPECIFICATION Spec
INVARIANTS PersistentIsKept
CHECK_DEADLOCK FALSE
