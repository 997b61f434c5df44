CONSTANTS
    Workers = {w1, w2}
    Pushers = {p1}
    MaxRequests = 2
    Unparsable = {1}
    MaxPushes = 1
    SendBuffer = 1
    ClientWaits = TRUE
    Heartbeats = TRUE
SPECIFICATION FairSpec
INVARIANTS NeverDeaf  OneWorkerPerConnection
PROPERTIES RequestsAnswered 
CHECK_DEADLOCK FALSE
