-------------------------------- MODULE Log --------------------------------
(***************************************************************************)
(* The asynchronous log: Log::write by any thread of the server, the write *)
(* thread (async_write_ over BlockDeque::pop), and ~Log.  A critical       *)
(* section of mtx_ is one step; today_ and line_count_ are read outside of *)
(* it too, as in the code.  A file is named by its day and its number; the *)
(* first of a day has no number (Plain).                                   *)
(***************************************************************************)
EXTENDS Integers, Sequences, FiniteSets, Functions

CONSTANTS
    Threads,    \* threads that log
    Capacity,   \* capacity_ of the deque
    MAX_LINES,
    MaxLines,   \* lines written by each thread
    MaxDays     \* the last day

ASSUME LogAssumption ==
    /\ {Capacity, MAX_LINES} \subseteq Nat \ {0}
    /\ MaxLines \in [Threads -> Nat] /\ MaxDays \in Nat

VARIABLES
    day,          \* the date
    today_, line_count_,
    fp_,          \* the file that is open
    pc,           \* where each thread is in write
    seen,         \* the date that write read
    newFile,      \* new_file of write
    lines,        \* lines written by each thread
    deque,        \* deq_
    is_closed_,
    consumer,     \* the write thread
    str,          \* the line it has popped
    main,         \* ~Log
    files,        \* lines in each file
    cleared       \* lines dropped by close

state == <<today_, line_count_, fp_>>
writers == <<pc, seen, newFile, lines>>
thread == <<consumer, str>>
vars == <<day, state, writers, deque, is_closed_, thread, main, files, cleared>>

Plain == -1

\* Log::init has opened the file of the first day.  today_ is 0 until the first write.
Init ==
    /\ day = 1 /\ today_ = 0 /\ line_count_ = 0
    /\ fp_ = [day |-> 1, part |-> Plain]
    /\ pc = [t \in Threads |-> "check"]
    /\ seen = [t \in Threads |-> 0]
    /\ newFile = [t \in Threads |-> fp_]
    /\ lines = [t \in Threads |-> 0]
    /\ deque = <<>> /\ is_closed_ = FALSE
    /\ consumer = "pop" /\ str = <<>>
    /\ main = "running" /\ files = {} /\ cleared = {}

----------------------------------------------------------------------------
(* Log::write.                                                             *)

\* The condition, read without the lock.
Check(t) ==
    /\ pc[t] = "check" /\ lines[t] < MaxLines[t] /\ main # "destroyed"
    /\ seen' = [seen EXCEPT ![t] = day]
    /\ pc' = [pc EXCEPT ![t] =
                 IF today_ # day \/ (line_count_ > 0 /\ line_count_ % MAX_LINES = 0)
                 THEN "name" ELSE "append"]
    /\ UNCHANGED <<day, state, newFile, lines, deque, is_closed_, thread, main, files, cleared>>

\* The name of the new file: the unlocked part.
NameFile(t) ==
    /\ pc[t] = "name"
    /\ IF today_ # seen[t]
       THEN /\ newFile' = [newFile EXCEPT ![t] = [day |-> seen[t], part |-> Plain]]
            /\ today_' = seen[t] /\ line_count_' = 0
       ELSE /\ newFile' = [newFile EXCEPT ![t] =
                              [day |-> seen[t], part |-> line_count_ \div MAX_LINES]]
            /\ UNCHANGED <<today_, line_count_>>
    /\ pc' = [pc EXCEPT ![t] = "open"]
    /\ UNCHANGED <<day, fp_, seen, lines, deque, is_closed_, thread, main, files, cleared>>

\* condConsumer_.notify_one
Notified == IF consumer = "waiting" THEN "woken" ELSE consumer

\* A plausible bug: the new file is opened only when the day changes.
OpenFileOfDay(t) ==
    /\ pc[t] = "open"
    /\ fp_' = IF newFile[t].part = Plain THEN newFile[t] ELSE fp_
    /\ consumer' = Notified
    /\ pc' = [pc EXCEPT ![t] = "append"]
    /\ UNCHANGED <<day, today_, line_count_, seen, newFile, lines, deque, is_closed_, str,
                   main, files, cleared>>

\* flush, and the new file replaces the old one.
OpenFile(t) ==
    /\ pc[t] = "open"
    /\ fp_' = newFile[t]
    /\ consumer' = Notified
    /\ pc' = [pc EXCEPT ![t] = "append"]
    /\ UNCHANGED <<day, today_, line_count_, seen, newFile, lines, deque, is_closed_, str,
                   main, files, cleared>>

\* !deque_->full()
HasRoom == Len(deque) < Capacity

\* A plausible bug: no notification.
PushBackUnnoticed(line) ==
    deque' = Append(deque, line) /\ UNCHANGED <<consumer, files>>

\* push_back, which has room and does not wait.
PushBack(line) ==
    deque' = Append(deque, line) /\ consumer' = Notified /\ UNCHANGED files

PutDirectly(line) ==
    files' = files \cup {[name |-> fp_, line |-> line]} /\ UNCHANGED <<deque, consumer>>

\* The line goes to the deque, or to the file if the deque is full.
AppendLine(t) ==
    LET line == <<t, lines[t] + 1>> IN
    /\ pc[t] = "append"
    /\ line_count_' = line_count_ + 1
    /\ IF HasRoom THEN PushBack(line) ELSE PutDirectly(line)
    /\ lines' = [lines EXCEPT ![t] = @ + 1]
    /\ pc' = [pc EXCEPT ![t] = "check"]
    /\ UNCHANGED <<day, today_, fp_, seen, newFile, is_closed_, str, main, cleared>>

----------------------------------------------------------------------------
(* The write thread.                                                       *)

\* A plausible bug: the line stays in the deque.
TakeFrontCopy(next) ==
    str' = <<Head(deque)>> /\ consumer' = next /\ UNCHANGED deque

TakeFront(next) ==
    /\ str' = <<Head(deque)>> /\ deque' = Tail(deque) /\ consumer' = next

\* The loop of pop, up to its wait.
WaitOrTake ==
    IF deque = <<>> THEN consumer' = "waiting" /\ UNCHANGED <<str, deque>>
    ELSE TakeFront("put")

Pop ==
    /\ consumer = "pop"
    /\ WaitOrTake
    /\ UNCHANGED <<day, state, writers, is_closed_, main, files, cleared>>

\* A plausible bug: is_closed_ is looked at once the deque is no longer empty.
PopAwakeWaitsOn ==
    /\ consumer = "woken"
    /\ IF is_closed_ /\ deque # <<>> THEN consumer' = "done" /\ UNCHANGED <<str, deque>>
       ELSE WaitOrTake
    /\ UNCHANGED <<day, state, writers, is_closed_, main, files, cleared>>

\* pop after its wait: is_closed_ is looked at here only.
PopAwake ==
    /\ consumer = "woken"
    /\ IF is_closed_ THEN consumer' = "done" /\ UNCHANGED <<str, deque>>
       ELSE WaitOrTake
    /\ UNCHANGED <<day, state, writers, is_closed_, main, files, cleared>>

SpuriousWakeup ==
    /\ consumer = "waiting"
    /\ consumer' = "woken"
    /\ UNCHANGED <<day, state, writers, deque, is_closed_, str, main, files, cleared>>

\* fputs of async_write_.
Put ==
    /\ consumer = "put"
    /\ files' = files \cup {[name |-> fp_, line |-> str[1]]}
    /\ consumer' = "pop" /\ str' = <<>>
    /\ UNCHANGED <<day, state, writers, deque, is_closed_, main, cleared>>

----------------------------------------------------------------------------
(* ~Log.                                                                   *)

\* BlockDeque::close drops what is queued.
Close ==
    /\ main = "running"
    /\ cleared' = cleared \cup Range(deque)
    /\ deque' = <<>> /\ is_closed_' = TRUE
    /\ consumer' = Notified
    /\ main' = "closed"
    /\ UNCHANGED <<day, state, writers, str, files>>

FlushRest ==
    /\ main = "closed" /\ deque # <<>>
    /\ consumer' = Notified
    /\ UNCHANGED <<day, state, writers, deque, is_closed_, str, main, files, cleared>>

StopFlushing ==
    /\ main = "closed" /\ deque = <<>>
    /\ main' = "joining"
    /\ UNCHANGED <<day, state, writers, deque, is_closed_, thread, files, cleared>>

Join ==
    /\ main = "joining" /\ consumer = "done"
    /\ main' = "destroyed"
    /\ UNCHANGED <<day, state, writers, deque, is_closed_, thread, files, cleared>>

NewDay ==
    /\ day < MaxDays
    /\ day' = day + 1
    /\ UNCHANGED <<state, writers, deque, is_closed_, thread, main, files, cleared>>

Write(t) == NameFile(t) \/ OpenFile(t) \/ AppendLine(t)
WriteThread == Pop \/ PopAwake \/ Put
Destructor == FlushRest \/ StopFlushing \/ Join

Next ==
    \/ \E t \in Threads : Check(t) \/ Write(t)
    \/ WriteThread \/ SpuriousWakeup \/ Close \/ Destructor \/ NewDay

Spec == Init /\ [][Next]_vars

\* Threads that are in write, the write thread and ~Log go on; nothing has to log, and
\* no wakeup comes without a notification.
FairSpec ==
    /\ Spec /\ WF_vars(WriteThread) /\ WF_vars(Destructor)
    /\ \A t \in Threads : WF_vars(Write(t))

----------------------------------------------------------------------------
(* Properties.                                                             *)

\* What is in each variable; the write thread holds one line exactly while it puts it,
\* and close runs once.
TypeOK ==
    /\ line_count_ \in Nat /\ lines \in [Threads -> Nat]
    /\ pc \in [Threads -> {"check", "name", "open", "append"}]
    /\ deque \in Seq(Threads \X Nat) /\ Len(deque) <= Capacity
    /\ consumer \in {"pop", "waiting", "woken", "put", "done"}
    /\ IF consumer = "put" THEN \E l \in Threads \X Nat : str = <<l>> ELSE str = <<>>
    /\ main \in {"running", "closed", "joining", "destroyed"}
    /\ main = "running" => cleared = {}

written == {f.line : f \in files}

\* A line that write took is in one place: in one file, in the deque or in the hands
\* of the write thread.  Only close may drop it, and it drops no more than the deque
\* may hold.
LineInOnePlace ==
    /\ Cardinality(cleared) <= Capacity
    /\ \A t \in Threads : \A k \in 1 .. lines[t] :
          <<t, k>> \in written \cup Range(deque) \cup Range(str) \cup cleared
    /\ \A f, g \in files : f.line = g.line => f = g
    /\ IsInjective(deque \o str)
    /\ (Range(deque) \cup Range(str)) \cap (written \cup cleared) = {}

\* With no thread inside write, the open file is the one for the date and the number
\* of the last line: a new file is created when the day changes or the number of
\* lines reaches the maximum.  Two threads may both open the next file, or none.
FileMatchesCount ==
    /\ \A t \in Threads : pc[t] = "check"
    /\ \A s, t \in Threads : lines[s] > 0 /\ lines[t] > 0 => s = t
    /\ line_count_ > 0
    =>
        fp_ = [day |-> today_,
               part |-> IF line_count_ <= MAX_LINES THEN Plain
                        ELSE (line_count_ - 1) \div MAX_LINES]

\* Every line reaches a file, as long as the program does not exit.
LineIsWritten ==
    \A t \in Threads : \A k \in 1 .. MaxLines[t] :
        (lines[t] >= k) ~> (<<t, k>> \in written \/ main # "running")

\* ~Log returns if close finds the write thread in its wait, or it has left pop since:
\* the notification reaches it and it is joined, unless other threads still log.  A
\* write thread that is on its way to the wait misses the notification.
DestructorReturns ==
    (is_closed_ /\ consumer \in {"woken", "done"})
        ~> (main = "destroyed" \/ deque # <<>>)

============================================================================
