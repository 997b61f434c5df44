CONSTANTS
    Ids = {d1, d2, d3, d4}
    Timeout = 2
    MaxTime = 4
SPECIFICATION TimerSpec
INVARIANTS HeapOrdered WaitEndsInTime
SYMMETRY Symmetry
CHECK_DEADLOCK FALSE
