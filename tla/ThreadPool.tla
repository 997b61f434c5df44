---------------------------- MODULE ThreadPool ----------------------------
(***************************************************************************)
(* server/src/pool/threadpool.h: AddTask, the loop of the detached worker  *)
(* threads, and ~ThreadPool.  The workers reach Pool through the           *)
(* ThreadPool object itself, so Pool is freed with it.  A critical section *)
(* of mtx_ is one step.  Tasks are numbered in the order of AddTask.       *)
(***************************************************************************)
EXTENDS Integers, Sequences

CONSTANTS
    Workers,    \* threads of the pool
    MaxTasks    \* calls of AddTask

\* What the constructor asserts (threadCount > 0).
ThreadPoolAssumption == Workers # {} /\ MaxTasks \in Nat

VARIABLES
    tasks,      \* tasks_
    added,      \* calls of AddTask so far
    pc,         \* where each worker is
    task,       \* the task each worker runs, or 0
    started,    \* the tasks that were started, in order
    finished,   \* the tasks that have ended
    pool,       \* "open", "isClosed", "notified", "freed"
    dangling    \* a worker has used Pool after it was freed

vars == <<tasks, added, pc, task, started, finished, pool, dangling>>

Init ==
    /\ tasks = <<>> /\ added = 0
    /\ pc = [w \in Workers |-> "loop"]
    /\ task = [w \in Workers |-> 0]
    /\ started = <<>> /\ finished = {}
    /\ pool = "open" /\ dangling = FALSE

----------------------------------------------------------------------------
\* cond_.notify_one wakes a worker that waits, if there is one.
NotifyOne ==
    \/ \E w \in Workers : pc[w] = "waiting" /\ pc' = [pc EXCEPT ![w] = "loop"]
    \/ (\A w \in Workers : pc[w] # "waiting") /\ UNCHANGED pc

\* The event loop adds tasks while the pool is open, a task of the pool at any time.
AddTask ==
    /\ pool # "freed" /\ added < MaxTasks
    /\ pool = "open" \/ \E w \in Workers : pc[w] = "running"
    /\ added' = added + 1
    /\ tasks' = Append(tasks, added')
    /\ NotifyOne
    /\ UNCHANGED <<task, started, finished, pool, dangling>>

\* The first task is taken and the lock released.
Take(w) ==
    /\ pc[w] = "loop" /\ pool # "freed" /\ tasks # <<>>
    /\ task' = [task EXCEPT ![w] = Head(tasks)]
    /\ tasks' = Tail(tasks)
    /\ started' = Append(started, Head(tasks))
    /\ pc' = [pc EXCEPT ![w] = "running"]
    /\ UNCHANGED <<added, finished, pool, dangling>>

\* isClosed, and nothing to do.
Exit(w) ==
    /\ pc[w] = "loop" /\ pool \in {"isClosed", "notified"} /\ tasks = <<>>
    /\ pc' = [pc EXCEPT ![w] = "exited"]
    /\ UNCHANGED <<tasks, added, task, started, finished, pool, dangling>>

Wait(w) ==
    /\ pc[w] = "loop" /\ pool = "open" /\ tasks = <<>>
    /\ pc' = [pc EXCEPT ![w] = "waiting"]
    /\ UNCHANGED <<tasks, added, task, started, finished, pool, dangling>>

\* task() returns; the worker goes back to the lock.
Finish(w) ==
    /\ pc[w] = "running"
    /\ finished' = finished \cup {task[w]}
    /\ task' = [task EXCEPT ![w] = 0]
    /\ pc' = [pc EXCEPT ![w] = "loop"]
    /\ UNCHANGED <<tasks, added, started, pool, dangling>>

\* A wait may return on its own.
SpuriousWakeup(w) ==
    /\ pc[w] = "waiting"
    /\ pc' = [pc EXCEPT ![w] = "loop"]
    /\ UNCHANGED <<tasks, added, task, started, finished, pool, dangling>>

----------------------------------------------------------------------------
(* ~ThreadPool.                                                            *)

SetClosed ==
    /\ pool = "open"
    /\ pool' = "isClosed"
    /\ UNCHANGED <<tasks, added, pc, task, started, finished, dangling>>

NotifyAll ==
    /\ pool = "isClosed"
    /\ pool' = "notified"
    /\ pc' = [w \in Workers |-> IF pc[w] = "waiting" THEN "loop" ELSE pc[w]]
    /\ UNCHANGED <<tasks, added, task, started, finished, dangling>>

\* The member pool_ goes with the object, and holds the last reference.
Free ==
    /\ pool = "notified"
    /\ pool' = "freed"
    /\ UNCHANGED <<tasks, added, pc, task, started, finished, dangling>>

\* A worker comes back to the lock or the queue of the Pool, or its task adds another.
UseFreed(w) ==
    /\ pool = "freed" /\ pc[w] \in {"loop", "running"}
    /\ dangling' = TRUE
    /\ UNCHANGED <<tasks, added, pc, task, started, finished, pool>>

Work(w) == Take(w) \/ Exit(w) \/ Wait(w) \/ Finish(w) \/ UseFreed(w)

Next ==
    \/ AddTask \/ SetClosed \/ NotifyAll \/ Free
    \/ \E w \in Workers : Work(w) \/ SpuriousWakeup(w)

Spec == Init /\ [][Next]_vars

----------------------------------------------------------------------------
(* Properties.                                                             *)

\* What is in each variable; a worker has a task exactly while it runs one.
TypeOK ==
    /\ tasks \in Seq(1 .. MaxTasks) /\ added \in 0 .. MaxTasks
    /\ pc \in [Workers -> {"loop", "running", "waiting", "exited"}]
    /\ task \in [Workers -> 0 .. MaxTasks]
    /\ \A w \in Workers : (pc[w] = "running") <=> (task[w] # 0)
    /\ started \in Seq(1 .. MaxTasks) /\ finished \subseteq 1 .. MaxTasks
    /\ pool \in {"open", "isClosed", "notified", "freed"}
    /\ dangling \in BOOLEAN

\* Tasks are started in the order of AddTask, each of them once: what was started,
\* followed by what waits, is 1, 2, ..., added.
StartedInOrder ==
    started \o tasks = [k \in 1 .. added |-> k]

\* No wakeup is lost: the workers do not all sleep while a task waits (AddTask
\* notifies under the lock, and a worker looks at the queue before it waits).
NoSleepWithWork ==
    tasks # <<>> => \E w \in Workers : pc[w] # "waiting"

\* No task is run by two workers.
OneWorkerPerTask ==
    \A v, w \in Workers : task[v] = task[w] /\ task[v] # 0 => v = w

============================================================================
