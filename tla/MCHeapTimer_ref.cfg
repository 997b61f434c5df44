CONSTANTS
    Ids = {d1, d2, d3}
    Timeout = 2
    MaxTime = 4
SPECIFICATION TimerSpec
INVARIANTS TimerIsFound
CHECK_DEADLOCK FALSE
