---------------------------- MODULE SqlConnPool ----------------------------
(***************************************************************************)
(* The MySQL connection pool, server/src/pool/sqlconnpool.cpp, and the     *)
(* RAII guard through which the DAOs use it (dao/base_dao.h, ConnGuard).   *)
(*                                                                         *)
(* A pool thread's GetConn is three separate steps: an unlocked look at    *)
(* conn_queue_, sem_wait, and the pop under mtx_.  FreeConn pushes and     *)
(* posts under mtx_, but sem_wait does not take mtx_, so the push and the  *)
(* post are two steps.  Init runs before any thread uses the pool;         *)
(* ClosePool is called by the main thread while detached workers may still *)
(* be running.                                                             *)
(***************************************************************************)
EXTENDS Naturals, Sequences, FiniteSets

CONSTANTS
    Threads,     \* the worker threads that run DAO operations
    Conns,       \* the connection objects Init tries to create (connSize of them)
    MayFail,     \* those whose constructor may throw (database unreachable)
    NoConn,      \* nullptr
    NoThread     \* "mtx_ is not held"

ASSUME PoolAssumption ==
    /\ IsFiniteSet(Threads)
    /\ IsFiniteSet(Conns)
    /\ MayFail \subseteq Conns
    /\ NoConn \notin Conns
    /\ NoThread \notin Threads

VARIABLES
    conn_queue_,   \* the idle connections, oldest first
    semId_,        \* value of the POSIX semaphore
    mtx_,          \* holder of the mutex
    pc,            \* where each thread is in GetConn / FreeConn
    conn,          \* the connection each ConnGuard holds
    attempted,     \* connections Init has tried to create
    failed,        \* ... and those whose constructor threw
    deleted,       \* connections ClosePool has deleted
    phase          \* "init", "run" or "closed"

vars == <<conn_queue_, semId_, mtx_, pc, conn, attempted, failed, deleted, phase>>

Queued == { conn_queue_[i] : i \in 1..Len(conn_queue_) }

\* The threads sem_wait let through that have no connection yet, or never get one.
LetThrough == { t \in Threads : pc[t] \in {"pop", "undefined"} }

----------------------------------------------------------------------------
Init ==
    /\ conn_queue_ = <<>>
    /\ semId_ = 0
    /\ mtx_ = NoThread
    /\ pc = [t \in Threads |-> "idle"]
    /\ conn = [t \in Threads |-> NoConn]
    /\ attempted = {}
    /\ failed = {}
    /\ deleted = {}
    /\ phase = "init"

\* One turn of Init's loop: a connection that cannot be made is logged and skipped.
InitConnect(c) ==
    /\ phase = "init"
    /\ c \notin attempted
    /\ attempted' = attempted \cup {c}
    /\ \/ /\ conn_queue_' = Append(conn_queue_, c)
          /\ UNCHANGED failed
       \/ /\ c \in MayFail
          /\ failed' = failed \cup {c}
          /\ UNCHANGED conn_queue_
    /\ UNCHANGED <<semId_, mtx_, pc, conn, deleted, phase>>

\* Init's tail: the semaphore starts at connSize, however many connections exist.
InitSem ==
    /\ phase = "init"
    /\ attempted = Conns
    /\ semId_' = Cardinality(Conns)
    /\ phase' = "run"
    /\ UNCHANGED <<conn_queue_, mtx_, pc, conn, attempted, failed, deleted>>

\* GetConn's early return: the queue looks empty and the caller gets nullptr.
GetConnBusy(t) ==
    /\ phase # "init"
    /\ pc[t] = "idle"
    /\ conn_queue_ = <<>>
    /\ UNCHANGED vars

GetConnCheck(t) ==
    /\ phase # "init"
    /\ pc[t] = "idle"
    /\ conn_queue_ # <<>>
    /\ pc' = [pc EXCEPT ![t] = "sem_wait"]
    /\ UNCHANGED <<conn_queue_, semId_, mtx_, conn, attempted, failed, deleted, phase>>

\* A plausible bug: an error return of sem_wait (EINTR) is taken for a credit.
SemWaitIgnoringResult(t) ==
    /\ pc[t] = "sem_wait"
    /\ semId_' = IF semId_ > 0 THEN semId_ - 1 ELSE 0
    /\ pc' = [pc EXCEPT ![t] = "pop"]
    /\ UNCHANGED <<conn_queue_, mtx_, conn, attempted, failed, deleted, phase>>

SemWait(t) ==
    /\ pc[t] = "sem_wait"
    /\ semId_ > 0
    /\ semId_' = semId_ - 1
    /\ pc' = [pc EXCEPT ![t] = "pop"]
    /\ UNCHANGED <<conn_queue_, mtx_, conn, attempted, failed, deleted, phase>>

\* A plausible bug: front() without the pop() that follows it.
PopForgotten(t) ==
    /\ pc[t] = "pop"
    /\ mtx_ = NoThread
    /\ conn_queue_ # <<>>
    /\ conn' = [conn EXCEPT ![t] = Head(conn_queue_)]
    /\ pc' = [pc EXCEPT ![t] = "use"]
    /\ UNCHANGED <<conn_queue_, semId_, mtx_, attempted, failed, deleted, phase>>

\* front() and pop() under mtx_.  On an empty std::queue both are undefined
\* behaviour: the thread is parked in "undefined" and the model follows it no further.
Pop(t) ==
    /\ pc[t] = "pop"
    /\ mtx_ = NoThread
    /\ \/ /\ conn_queue_ # <<>>
          /\ conn' = [conn EXCEPT ![t] = Head(conn_queue_)]
          /\ conn_queue_' = Tail(conn_queue_)
          /\ pc' = [pc EXCEPT ![t] = "use"]
       \/ /\ conn_queue_ = <<>>
          /\ pc' = [pc EXCEPT ![t] = "undefined"]
          /\ UNCHANGED <<conn, conn_queue_>>
    /\ UNCHANGED <<semId_, mtx_, attempted, failed, deleted, phase>>

\* ~ConnGuard: FreeConn takes mtx_ and pushes the connection back ...
FreeConnPush(t) ==
    /\ pc[t] = "use"
    /\ mtx_ = NoThread
    /\ mtx_' = t
    /\ conn_queue_' = Append(conn_queue_, conn[t])
    /\ conn' = [conn EXCEPT ![t] = NoConn]
    /\ pc' = [pc EXCEPT ![t] = "post"]
    /\ UNCHANGED <<semId_, attempted, failed, deleted, phase>>

\* A plausible bug: FreeConn returns the connection and never posts.
FreeConnNoPost(t) ==
    /\ pc[t] = "post"
    /\ mtx_' = NoThread
    /\ pc' = [pc EXCEPT ![t] = "idle"]
    /\ UNCHANGED <<conn_queue_, semId_, conn, attempted, failed, deleted, phase>>

\* ... and posts the semaphore before releasing mtx_.
FreeConnPost(t) ==
    /\ pc[t] = "post"
    /\ semId_' = semId_ + 1
    /\ mtx_' = NoThread
    /\ pc' = [pc EXCEPT ![t] = "idle"]
    /\ UNCHANGED <<conn_queue_, conn, attempted, failed, deleted, phase>>

\* A plausible bug: ClosePool deletes every connection, the borrowed ones too.
ClosePoolAll ==
    /\ phase # "init"
    /\ mtx_ = NoThread
    /\ deleted' = Conns \ failed
    /\ conn_queue_' = <<>>
    /\ phase' = "closed"
    /\ UNCHANGED <<semId_, mtx_, pc, conn, attempted, failed>>

\* ClosePool, from ~Webserver and again from ~SqlConnPool: the loop runs under
\* mtx_, deletes what is queued and leaves the semaphore alone.
ClosePool ==
    /\ phase # "init"
    /\ mtx_ = NoThread
    /\ deleted' = deleted \cup Queued
    /\ conn_queue_' = <<>>
    /\ phase' = "closed"
    /\ UNCHANGED <<semId_, mtx_, pc, conn, attempted, failed>>

Thread(t) ==
    \/ GetConnBusy(t)
    \/ GetConnCheck(t)
    \/ SemWait(t)
    \/ Pop(t)
    \/ FreeConnPush(t)
    \/ FreeConnPost(t)

Next ==
    \/ \E c \in Conns : InitConnect(c)
    \/ InitSem
    \/ \E t \in Threads : Thread(t)
    \/ ClosePool

Spec == Init /\ [][Next]_vars

----------------------------------------------------------------------------
\* Every variable has its type (sqlconnpool.h, the members of SqlConnPool).
TypeOK ==
    /\ conn_queue_ \in Seq(Conns)
    /\ semId_ \in Nat
    /\ mtx_ \in Threads \cup {NoThread}
    /\ pc \in [Threads -> {"idle", "sem_wait", "pop", "use", "post", "undefined"}]
    /\ conn \in [Threads -> Conns \cup {NoConn}]
    /\ attempted \subseteq Conns
    /\ failed \subseteq Conns
    /\ deleted \subseteq Conns
    /\ phase \in {"init", "run", "closed"}

\* A MySQL connection is used by one thread at a time: GetConn/FreeConn never
\* hand a connection to two guards, keep it queued while it is borrowed, or
\* queue it twice.
ExclusiveOwnership ==
    /\ \A t, u \in Threads : t # u /\ conn[t] = conn[u] => conn[t] = NoConn
    /\ \A t \in Threads : conn[t] \notin Queued
    /\ \A i, j \in 1..Len(conn_queue_) : conn_queue_[i] = conn_queue_[j] => i = j

\* ClosePool may run while DAO operations are in flight: a connection it has
\* deleted is in no guard and never comes back to the queue.
NoUseAfterClose ==
    /\ \A t \in Threads : conn[t] \notin deleted
    /\ Queued \cap deleted = {}

\* What the comment in GetConn relies on, "greater than 0 which means there are
\* available connections": in an open pool a thread that sem_wait let through finds a
\* connection to pop, but for as many threads as Init failed to open connections; in a
\* pool that came up complete nobody calls front() of an empty queue.
SemWaitGuaranteesConn ==
    phase # "closed" =>
        /\ Cardinality(LetThrough) <= Len(conn_queue_) + Cardinality(failed)
        /\ failed = {} => \A t \in Threads : pc[t] # "undefined"
=============================================================================
