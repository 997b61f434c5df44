CONSTANTS
    a = a
    b = b
    Users <- TwoUsers
    Requests <- BothWays
    MaxLogins = 2
    MaxFailures = 1
SPECIFICATION Spec
INVARIANTS FriendshipIsMutual  
SYMMETRY Symmetry
CHECK_DEADLOCK FALSE
