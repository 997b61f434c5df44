CONSTANTS
    t1 = t1
    t2 = t2
    Threads = {t1, t2}
    Capacity = 1
    MAX_LINES = 2
    MaxLines <- ThreeAndOne
    MaxDays = 2
SPECIFICATION FairSpec
INVARIANTS LineInOnePlace FileMatchesCount
PROPERTIES LineIsWritten DestructorReturns
CHECK_DEADLOCK FALSE
