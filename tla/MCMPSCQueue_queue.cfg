CONSTANTS
    Producers = {p1, p2}
    Nodes = {d, n1, n2, n3}
    Dummy = d
    Null = Null
SPECIFICATION FairSpec
INVARIANTS NoReclaimedAccess
PROPERTIES LinkedIsDelivered ImplementsFifo
CHECK_DEADLOCK FALSE
