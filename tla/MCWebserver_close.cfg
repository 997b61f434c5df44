CONSTANTS
    u1 = u1
    Objs = {o1, o2}
    Fds = {1, 2, 3}
    Users = {u1}
    LoginAs <- SameUser
    Workers = {w1}
    Pushers = {p1}
    Main = Main
    MAX_FD = 2
    MaxTasks = 2
    None = None
SPECIFICATION Spec
INVARIANTS ClosedOnce  OnlineUserIsReachable  
CHECK_DEADLOCK FALSE
