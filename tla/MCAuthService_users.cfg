CONSTANTS
    Threads = {t1, t2}
    Conns = {c1}
    MayFail = {c1}
    NoConn = NoConn
    NoThread = NoThread
    Scripts <- MCScripts
    MaxTasks = 3
    Names = {alice, bob}
    Passwords = {pw1, pw2}
    Ids = {1, 2}
    Empty = Empty
    NoRow = NoRow
    MayThrow = TRUE
    alice = alice
    bob = bob
    pw1 = pw1
    pw2 = pw2
SPECIFICATION AuthFairSpec
INVARIANTS ExclusiveOwnership NoUseAfterClose  RegisteredIsStored LoginIsOwn RegistrationIsSeen
 
CHECK_DEADLOCK FALSE
