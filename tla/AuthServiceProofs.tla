------------------------- MODULE AuthServiceProofs -------------------------
(***************************************************************************)
(* Proofs about AuthService and its two parts, for any number of workers,  *)
(* connections, names and requests.                                        *)
(*                                                                         *)
(* First, what is answered about the users table.  A registration that was *)
(* answered is not yet an inductive fact: between the INSERT and the       *)
(* answer the worker gives its connection back, and others run.  So the    *)
(* invariant speaks of holders, the requests that were answered "success"  *)
(* and those whose INSERT went through but were not answered yet: each has *)
(* the row of its name, and no two have the same name.                     *)
(*                                                                         *)
(* Then the composition: a step of AuthService is a step of SqlConnPool or *)
(* leaves it alone, and likewise ThreadPool.  So what is proved after it   *)
(* of the connections (Spec, which is SqlConnPool's) and of the workers    *)
(* (TP!Spec, which is ThreadPool's) holds of the whole, and the invariant  *)
(* of the service follows from it.                                         *)
(***************************************************************************)
EXTENDS AuthService, FiniteSetTheorems, TLAPS

\* A leaf is tried with Zenon first: most need no arithmetic.
USE ZenonT(5), SMTT(30)

----------------------------------------------------------------------------
(* The inductive invariant of the service.                                 *)

Rows == [id : Ids, password : Passwords]

AuthTypeOK ==
    /\ script \in Seq(Requests)
    /\ request \in Seq([q : Requests \cup {PendingTask}, known : SUBSET Names])
    /\ Len(request) = added
    /\ call \in [Threads -> {"QueryExist", "Insert", "VerifyUser", "FindByUsername",
                             "GetPendingRequests", "AddTask", "done"}]
    /\ result \in [Threads -> Nat \cup {Pending}]
    /\ users \in [Names -> Rows \cup {NoRow}]
    /\ reply \in [1 .. MaxTasks ->
                     [outcome : {"none", "invalid", "exists", "success", "dberror", "notfound"},
                      id : Nat]]
    /\ defaulted \subseteq Nat /\ finished \subseteq 1 .. Len(started)

\* Where a worker is in its task, in its DAO call and in the pool of connections.
Agree ==
    \A t \in Threads :
        /\ call[t] # "done" => wpc[t] = "running"
        /\ pc[t] # "idle" => InCall(t)
        /\ result[t] # Pending => pc[t] \in {"use", "post"}
        /\ pc[t] = "post" => result[t] # Pending

\* What is answered was taken from the queue; what a worker is at was not answered yet.
Unanswered ==
    /\ \A k \in 1 .. MaxTasks : reply[k].outcome # "none" => k <= Len(started)
    /\ \A t \in Threads : InCall(t) => reply[task[t]].outcome = "none"
    /\ \A t \in Threads : task[t] \notin finished

\* The row of q's name is there and has q's password.
HasRow(q) == users[q.name] # NoRow /\ users[q.name].password = q.password

Named(q) == q \in Requests /\ q.name \in Names /\ q.password \in Passwords

\* What each call of a worker may rely on, and what its result stands for.
CallOK(t) ==
    LET q == Asked(task[t]) IN
    /\ call[t] \in {"QueryExist", "Insert", "VerifyUser", "FindByUsername"} => Named(q)
    /\ call[t] = "Insert" => q.op = "register"
    /\ call[t] = "VerifyUser" => q.op = "login" /\ (result[t] \in {Pending, 0} \/ HasRow(q))
    /\ call[t] = "FindByUsername" =>
          /\ q.op = "login" /\ ~q.http /\ HasRow(q)
          /\ \/ result[t] \in {Pending, users[q.name].id}
             \/ result[t] = 0 /\ task[t] \in defaulted

\* The INSERT of t went through, and the service has not answered yet.
Inserted(t) == call[t] = "Insert" /\ result[t] \notin {Pending, 0}

Holds(k) ==
    Answered(k, "register", "success") \/ \E t \in Threads : task[t] = k /\ Inserted(t)

\* A holder has the row of its name, alone.
Holders ==
    /\ \A k \in 1 .. added : Holds(k) => Named(Asked(k)) /\ HasRow(Asked(k))
    /\ \A j, k \in 1 .. added : Holds(j) /\ Holds(k) /\ Asked(j).name = Asked(k).name => j = k
    /\ \A t \in Threads : Inserted(t) => users[Asked(task[t]).name].id = result[t]
    /\ \A k \in 1 .. added : Answered(k, "register", "success") =>
           reply[k].id = IF Asked(k).http THEN 0 ELSE users[Asked(k).name].id

\* user_id is unique in the table.
UniqueIds ==
    \A m, n \in Names : users[m] # NoRow /\ users[n] # NoRow /\ users[m].id = users[n].id => m = n

\* LoginIsOwn, of requests that name a user.
Logins ==
    \A k \in 1 .. added : Answered(k, "login", "success") =>
        /\ Named(Asked(k)) /\ HasRow(Asked(k))
        /\ ~Asked(k).http => \/ reply[k].id = users[Asked(k).name].id
                             \/ reply[k].id = 0 /\ k \in defaulted

\* What was registered when a request was sent is in the table.
KnownIsStored ==
    \A k \in 1 .. added : \A n \in request[k].known : users[n] # NoRow

\* The requests RegistrationIsSeen speaks of, and what it says of their answers.
Due(k) ==
    /\ Asked(k).op # "pending" /\ Asked(k).name \in request[k].known
    /\ k \notin defaulted /\ Asked(k).password # Empty

Seen(k) ==
    IF Asked(k).op = "register" THEN reply[k].outcome = "exists"
    ELSE (reply[k].outcome = "success") <=> (users[Asked(k).name].password = Asked(k).password)

\* The same of what a worker has found out so far.
SeenSoFar ==
    /\ \A k \in finished : Due(k) => Seen(k)
    /\ \A t \in Threads : wpc[t] = "running" /\ Due(task[t]) =>
          /\ call[t] \notin {"Insert", "GetPendingRequests"}
          /\ call[t] = "QueryExist" => result[t] \in {Pending, 1}
          /\ call[t] = "VerifyUser" =>
                result[t] \in {Pending, IF HasRow(Asked(task[t])) THEN 1 ELSE 0}
          /\ ~InCall(t) => Seen(task[t])

AuthInv ==
    /\ AuthTypeOK /\ Agree /\ Unanswered /\ (\A t \in Threads : CallOK(t))
    /\ Holders /\ UniqueIds /\ Logins /\ KnownIsStored /\ SeenSoFar

\* What ThreadPool promises of the tasks and of their queue (TasksFromPool shows it below).
TaskOK ==
    /\ added \in 0 .. MaxTasks /\ MaxTasks \in Nat /\ Len(started) \in 0 .. added
    /\ task \in [Threads -> 0 .. MaxTasks]
    /\ wpc \in [Threads -> {"loop", "running", "waiting", "exited"}]
    /\ \A t \in Threads : task[t] \in 0 .. Len(started)
    /\ \A t \in Threads : (wpc[t] = "running") <=> (task[t] # 0)
    /\ \A s, t \in Threads : task[s] = task[t] /\ task[s] # 0 => s = t

QueueOK ==
    /\ tasks # <<>> => Head(tasks) = Len(started) + 1 /\ Head(tasks) \in 1 .. added
    /\ started \in Seq(1 .. MaxTasks)

----------------------------------------------------------------------------
(* Facts about requests and rows.                                          *)

\* A request names a user of its known ones only if it is none of the tasks of logins.
LEMMA RequestFacts ==
    ASSUME AuthTypeOK, NEW k \in 1 .. added
    PROVE  /\ Asked(k) \in Requests \cup {PendingTask} /\ request[k].known \subseteq Names
           /\ Due(k) => Named(Asked(k))
<1>1. request[k] \in [q : Requests \cup {PendingTask}, known : SUBSET Names]
  <2>1. \A S : \A s \in Seq(S) : \A i \in 1 .. Len(s) : s[i] \in S
    OBVIOUS
  <2> QED BY ZenonT(30), <2>1 DEF AuthTypeOK
<1>2. Asked(k) \in Requests \cup {PendingTask} /\ request[k].known \subseteq Names
  BY <1>1 DEF Asked
<1>3. PendingTask.op = "pending"
  BY DEF PendingTask
<1> QED BY <1>2, <1>3 DEF Due, Named, Requests

\* What a worker that does nothing knows of its request stays true ...
LEMMA SameCall ==
    ASSUME NEW u \in Threads, CallOK(u), call'[u] = call[u], result'[u] = result[u],
           task'[u] = task[u], Asked(task[u])' = Asked(task[u]), users' = users,
           defaulted \subseteq defaulted'
    PROVE  CallOK(u)'
<1>1. /\ Named(Asked(task[u]))' <=> Named(Asked(task[u]))
      /\ HasRow(Asked(task[u]))' <=> HasRow(Asked(task[u]))
  BY DEF Named, HasRow
<1> QED BY <1>1 DEF CallOK

\* ... and one that is not in a query on users has nothing to know.
LEMMA NoQuery ==
    ASSUME NEW u \in Threads, call'[u] \in {"GetPendingRequests", "AddTask", "done"}
    PROVE  CallOK(u)'
BY DEF CallOK

\* The fields of a row.
LEMMA RowFacts ==
    ASSUME NEW i \in Ids, NEW p \in Passwords
    PROVE  LET row == [id |-> i, password |-> p]
           IN  row \in Rows /\ row # NoRow /\ row.id = i /\ row.password = p
BY AuthAssumption DEF Rows

LEMMA InitAuthInv == AuthInit => AuthInv
<1> SUFFICES ASSUME AuthInit PROVE AuthInv
  OBVIOUS
<1>0. MaxTasks \in Nat /\ Pending \notin Nat
  BY AuthAssumption DEF TP!ThreadPoolAssumption, Pending
<1>1. AuthTypeOK
  <2>1. /\ request = <<>> /\ added = 0 /\ started = <<>> /\ finished = {} /\ defaulted = {}
        /\ script \in Seq(Requests)
    BY AuthAssumption DEF AuthInit, TP!Init
  <2>2. call \in [Threads -> {"done"}] /\ result \in [Threads -> {Pending}]
        /\ users \in [Names -> {NoRow}]
    BY DEF AuthInit
  <2>3. reply \in [1 .. MaxTasks -> [outcome : {"none"}, id : {0}]]
    BY DEF AuthInit
  <2> QED BY <2>1, <2>2, <2>3 DEF AuthTypeOK
<1>2. /\ \A t \in Threads : call[t] = "done" /\ result[t] = Pending /\ pc[t] = "idle" /\ task[t] = 0
      /\ \A t \in Threads : wpc[t] = "loop"
      /\ added = 0 /\ finished = {} /\ \A n \in Names : users[n] = NoRow
      /\ \A k \in 1 .. MaxTasks : reply[k].outcome = "none"
  BY DEF AuthInit, Init, TP!Init
<1>3. Agree /\ Unanswered /\ (\A t \in Threads : CallOK(t))
  BY <1>0, <1>2 DEF Agree, Unanswered, CallOK, InCall
<1>4. Holders /\ UniqueIds /\ Logins /\ KnownIsStored /\ SeenSoFar
  BY <1>0, <1>2 DEF Holders, UniqueIds, Logins, KnownIsStored, SeenSoFar, Holds, Inserted
<1> QED BY <1>1, <1>3, <1>4 DEF AuthInv

----------------------------------------------------------------------------
(* Steps that change nothing of a request: where a thread is in GetConn    *)
(* or FreeConn, and what idle workers do.                                  *)

LEMMA QuietKeeps ==
    ASSUME AuthInv, Agree', UNCHANGED <<authVars, task, added, started, finished>>,
           \A t \in Threads : wpc'[t] = "running" => wpc[t] = "running"
    PROVE  AuthInv'
<1>1. AuthTypeOK'
  BY DEF AuthInv, AuthTypeOK, authVars
<1>2. Unanswered' /\ (\A t \in Threads : CallOK(t))'
  BY DEF AuthInv, Unanswered, CallOK, InCall, authVars, Asked, HasRow, Named
<1>3. Holders' /\ UniqueIds' /\ Logins' /\ KnownIsStored'
  <2>1. Holders'
    BY DEF AuthInv, Holders, Holds, Inserted, Answered, Asked, HasRow, Named, authVars
  <2>2. UniqueIds' /\ KnownIsStored'
    BY DEF AuthInv, UniqueIds, KnownIsStored, authVars
  <2>3. Logins'
    BY DEF AuthInv, Logins, Answered, Asked, HasRow, Named, authVars
  <2> QED BY <2>1, <2>2, <2>3
<1>4. SeenSoFar'
  BY DEF AuthInv, SeenSoFar, Due, Seen, Asked, InCall, HasRow, authVars
<1> QED BY <1>1, <1>2, <1>3, <1>4 DEF AuthInv

LEMMA QuietSteps ==
    ASSUME AuthInv, TypeOK, TaskOK,
           \/ OpenPool \/ CloseConns \/ CloseWorkers
           \/ \E t \in Threads : OtherWork(t) \/ CallGetConn(t) \/ CallFreeConn(t)
    PROVE  AuthInv'
<1>0. Agree /\ pc \in [Threads -> {"idle", "sem_wait", "pop", "use", "post", "undefined"}]
      /\ wpc \in [Threads -> {"loop", "running", "waiting", "exited"}]
  BY DEF AuthInv, TypeOK, TaskOK
<1>1. CASE OpenPool \/ CloseConns
  <2>1. UNCHANGED <<poolVars, authVars, pc>>
    BY <1>1 DEF OpenPool, CloseConns, InitConnect, InitSem, ClosePool
  <2> QED BY <1>0, <2>1, QuietKeeps DEF Agree, InCall, poolVars, authVars
<1>2. CASE CloseWorkers
  <2>1. /\ UNCHANGED <<vars, authVars, task, added, started, finished>>
        /\ \A t \in Threads : (wpc'[t] = "running") <=> (wpc[t] = "running")
    BY <1>0, <1>2 DEF CloseWorkers, TP!SetClosed, TP!NotifyAll, TP!Free
  <2> QED BY <1>0, <2>1, QuietKeeps DEF Agree, InCall, vars, authVars
<1>3. ASSUME NEW t \in Threads, OtherWork(t) PROVE AuthInv'
  <2>1. /\ UNCHANGED <<vars, authVars, task, added, started, finished>>
        /\ \A u \in Threads : (wpc'[u] = "running") <=> (wpc[u] = "running")
    BY <1>0, <1>3 DEF OtherWork, TP!Exit, TP!Wait, TP!SpuriousWakeup, TP!UseFreed
  <2> QED BY <1>0, <2>1, QuietKeeps DEF Agree, InCall, vars, authVars
<1>4. ASSUME NEW t \in Threads, CallGetConn(t) PROVE AuthInv'
  <2>1. /\ UNCHANGED <<poolVars, authVars>> /\ InCall(t) /\ pc[t] \in {"idle", "sem_wait", "pop"}
        /\ \E s \in {"sem_wait", "pop", "use", "undefined"} : pc' = [pc EXCEPT ![t] = s]
    BY <1>4 DEF CallGetConn, GetConnCheck, SemWait, Pop
  <2> QED BY <1>0, <2>1, QuietKeeps DEF Agree, InCall, poolVars, authVars
<1>5. ASSUME NEW t \in Threads, CallFreeConn(t) PROVE AuthInv'
  <2>1. /\ UNCHANGED <<poolVars, authVars>> /\ result[t] # Pending
        /\ pc[t] = "use" /\ pc' = [pc EXCEPT ![t] = "post"]
    BY <1>5 DEF CallFreeConn, FreeConnPush
  <2> QED BY <1>0, <2>1, QuietKeeps DEF Agree, InCall, poolVars, authVars
<1> QED BY <1>1, <1>2, <1>3, <1>4, <1>5

----------------------------------------------------------------------------
(* A query has its result.                                                 *)

\* r is what the call of t may return, given the table before and after.
Found(t, r) ==
    LET q == Asked(task[t]) IN
    /\ call[t] = "Insert" /\ r # 0 =>
          /\ users[q.name] = NoRow /\ r \in Ids
          /\ users'[q.name] = [id |-> r, password |-> q.password]
    /\ call[t] = "VerifyUser" /\ r # 0 => HasRow(q)
    /\ call[t] = "FindByUsername" => r = users[q.name].id \/ (r = 0 /\ task[t] \in defaulted')
    /\ task[t] \notin defaulted' /\ call[t] = "QueryExist" => r = Exists(q.name)
    /\ task[t] \notin defaulted' /\ call[t] = "VerifyUser" => r = IF HasRow(q) THEN 1 ELSE 0

\* Rows are added to the table, never changed.
Grows == \A n \in Names : users[n] # NoRow => users'[n] = users[n]

LEMMA ResultKeeps ==
    ASSUME AuthInv, TaskOK, NEW t \in Threads, pc[t] = "use", result[t] = Pending,
           NEW r \in Nat, result' = [result EXCEPT ![t] = r], Found(t, r),
           users' \in [Names -> Rows \cup {NoRow}], Grows, UniqueIds',
           defaulted \subseteq defaulted', defaulted' \subseteq defaulted \cup {task[t]},
           UNCHANGED <<pc, wpc, task, added, started, finished, script, request, call, reply>>
    PROVE  AuthInv'
<1>0. /\ AuthTypeOK /\ Agree /\ Unanswered /\ Holders /\ Logins /\ KnownIsStored /\ SeenSoFar
      /\ \A u \in Threads : CallOK(u)
      /\ InCall(t) /\ wpc[t] = "running" /\ task[t] \in 1 .. added /\ Pending \notin Nat
      /\ reply[task[t]].outcome = "none"
      /\ result'[t] = r /\ \A u \in Threads : u # t => result'[u] = result[u] /\ task[u] # task[t]
      /\ \A u \in Threads : wpc[u] = "running" => task[u] \in 1 .. added
  <2>1. /\ AuthTypeOK /\ Agree /\ Unanswered /\ Holders /\ Logins /\ KnownIsStored /\ SeenSoFar
        /\ \A u \in Threads : CallOK(u)
    BY DEF AuthInv
  <2>2. InCall(t) /\ wpc[t] = "running" /\ reply[task[t]].outcome = "none"
    BY <2>1 DEF Agree, Unanswered, InCall
  <2>3. /\ \A u \in Threads : wpc[u] = "running" => task[u] \in 1 .. added
        /\ \A u \in Threads : u # t => task[u] # task[t]
    BY <2>2 DEF TaskOK
  <2>4. result'[t] = r /\ \A u \in Threads : u # t => result'[u] = result[u]
    BY <2>1 DEF AuthTypeOK
  <2> QED BY <2>1, <2>2, <2>3, <2>4 DEF Pending
<1>1. AuthTypeOK'
  BY <1>0 DEF AuthTypeOK
<1>2. Agree'
  BY <1>0 DEF Agree, InCall
<1>3. Unanswered'
  BY <1>0 DEF Unanswered, InCall
<1>4. /\ \A q : HasRow(q) /\ q.name \in Names => HasRow(q)' /\ users'[q.name] = users[q.name]
      /\ \A k : Asked(k)' = Asked(k)
  BY DEF Grows, HasRow, Asked
<1>5. (\A u \in Threads : CallOK(u))'
  <2> SUFFICES ASSUME NEW u \in Threads PROVE CallOK(u)'
    OBVIOUS
  <2>1. CallOK(u) /\ Asked(task[u])' = Asked(task[u]) /\ (Named(Asked(task[u]))' <=> Named(Asked(task[u])))
    BY <1>0, <1>4 DEF Named
  <2>2. CASE u = t
    <3>1. call'[t] = call[t] /\ task'[t] = task[t] /\ result'[t] = r /\ result[t] = Pending
      BY <1>0
    <3>2. call[t] = "FindByUsername" =>
             HasRow(Asked(task[t])) /\ Named(Asked(task[t])) /\ HasRow(Asked(task[t]))'
      BY <1>4, <2>1, <2>2 DEF CallOK, Named
    <3> QED BY <1>4, <2>1, <2>2, <3>1, <3>2 DEF CallOK, Named, Found
  <2>3. CASE u # t
    BY <1>0, <1>4, <2>1, <2>3 DEF CallOK, Named
  <2> QED BY <2>2, <2>3
<1>6. Holders'
  <2>1. \A k : Answered(k, "register", "success")' <=> Answered(k, "register", "success")
    BY <1>4 DEF Answered
  <2>2. \A k \in 1 .. added : k # task[t] => (Holds(k)' <=> Holds(k))
    BY <1>0, <2>1 DEF Holds, Inserted
  <2>3. ~Holds(task[t])
    BY <1>0 DEF Holds, Inserted, Answered
  <2>4. Holds(task[t])' => call[t] = "Insert" /\ r # 0
    BY <1>0, <2>1 DEF Holds, Inserted, Answered
  <2>5. call[t] = "Insert" /\ r # 0 =>
            /\ Named(Asked(task[t])) /\ users[Asked(task[t]).name] = NoRow
            /\ HasRow(Asked(task[t]))' /\ users'[Asked(task[t]).name].id = r
            /\ \A k \in 1 .. added : Holds(k) => Asked(k).name # Asked(task[t]).name
    <3> SUFFICES ASSUME call[t] = "Insert", r # 0
                 PROVE  /\ Named(Asked(task[t])) /\ users[Asked(task[t]).name] = NoRow
                        /\ HasRow(Asked(task[t]))' /\ users'[Asked(task[t]).name].id = r
                        /\ \A k \in 1 .. added : Holds(k) => Asked(k).name # Asked(task[t]).name
      OBVIOUS
    <3>1. Named(Asked(task[t])) /\ users[Asked(task[t]).name] = NoRow
          /\ users'[Asked(task[t]).name] = [id |-> r, password |-> Asked(task[t]).password]
      BY <1>0 DEF CallOK, Found
    <3>2. /\ users'[Asked(task[t]).name] # NoRow /\ users'[Asked(task[t]).name].id = r
          /\ users'[Asked(task[t]).name].password = Asked(task[t]).password
      BY <1>0, <3>1, RowFacts DEF Named, Found
    <3>3. HasRow(Asked(task[t]))'
      BY <1>4, <3>2 DEF HasRow
    <3> QED BY <1>0, <3>1, <3>2, <3>3 DEF Holders, HasRow
  <2>6. \A k \in 1 .. added : Holds(k)' => Named(Asked(k))' /\ HasRow(Asked(k))'
    BY <1>0, <1>4, <2>2, <2>4, <2>5 DEF Holders, Named
  <2>7. \A j, k \in 1 .. added : Holds(j)' /\ Holds(k)' /\ Asked(j).name = Asked(k).name => j = k
    BY <1>0, <2>2, <2>4, <2>5 DEF Holders
  <2>8. ASSUME NEW u \in Threads, Inserted(u)' PROVE users'[Asked(task[u]).name].id = result'[u]
    <3>1. CASE u = t
      BY <1>0, <2>5, <2>8, <3>1 DEF Inserted
    <3>2. CASE u # t
      <4>1. Inserted(u) /\ task[u] \in 1 .. added
        BY <1>0, <2>8, <3>2 DEF Inserted, Agree
      <4> QED BY <1>0, <1>4, <3>2, <4>1 DEF Holders, Holds, Named
    <3> QED BY <3>1, <3>2
  <2>9. \A k \in 1 .. added : Answered(k, "register", "success") =>
            reply[k].id = IF Asked(k).http THEN 0 ELSE users'[Asked(k).name].id
    BY <1>0, <1>4 DEF Holders, Holds, Named
  <2> QED BY <1>4, <2>1, <2>6, <2>7, <2>8, <2>9 DEF Holders
<1>7. Logins'
  BY <1>0, <1>4 DEF Logins, Answered, Named
<1>8. KnownIsStored'
  BY <1>0, RequestFacts DEF KnownIsStored, Grows
<1>9. SeenSoFar'
  <2>1. \A k : Due(k)' => Due(k) /\ k \notin defaulted'
    BY <1>4 DEF Due
  <2>2. ASSUME NEW k \in 1 .. added, Due(k)
        PROVE  Named(Asked(k)) /\ users[Asked(k).name] # NoRow
               /\ users'[Asked(k).name] = users[Asked(k).name]
    BY <1>0, <2>2, RequestFacts DEF Due, KnownIsStored, Grows, Named
  <2>3. ASSUME NEW k \in 1 .. added, Due(k), Seen(k) PROVE Seen(k)'
    BY <1>4, <2>2, <2>3 DEF Seen
  <2>4. \A k \in finished : k \in 1 .. added
    BY <1>0 DEF AuthTypeOK, TaskOK
  <2>5. ASSUME NEW u \in Threads, wpc[u] = "running", Due(task[u])'
        PROVE  /\ call[u] \notin {"Insert", "GetPendingRequests"}
               /\ call[u] = "QueryExist" => result'[u] \in {Pending, 1}
               /\ call[u] = "VerifyUser" =>
                     result'[u] \in {Pending, IF HasRow(Asked(task[u]))' THEN 1 ELSE 0}
               /\ ~InCall(u) => Seen(task[u])'
    <3>1. Due(task[u]) /\ task[u] \in 1 .. added /\ task[u] \notin defaulted'
      BY <1>0, <2>1, <2>5
    <3>2. HasRow(Asked(task[u]))' <=> HasRow(Asked(task[u]))
      BY <1>4, <2>2, <3>1 DEF HasRow
    <3>3. CASE u = t
      BY <1>0, <2>2, <2>5, <3>1, <3>2, <3>3 DEF SeenSoFar, Found, Exists
    <3>4. CASE u # t
      BY <1>0, <2>3, <2>5, <3>1, <3>2, <3>4 DEF SeenSoFar
    <3> QED BY <3>3, <3>4
  <2> QED BY <1>0, <2>1, <2>3, <2>4, <2>5 DEF SeenSoFar, InCall
<1> QED BY <1>1, <1>2, <1>3, <1>5, <1>6, <1>7, <1>8, <1>9 DEF AuthInv

LEMMA QuerySteps ==
    ASSUME AuthInv, TaskOK, NEW t \in Threads, Query(t) \/ QueryThrows(t)
    PROVE  AuthInv'
<1>0. /\ AuthTypeOK /\ UniqueIds /\ CallOK(t) /\ InCall(t) /\ pc[t] = "use" /\ result[t] = Pending
      /\ Ids \subseteq Nat \ {0} /\ Asked(task[t]) = request[task[t]].q
  BY ZenonT(30), AuthAssumption DEF AuthInv, Agree, InCall, Query, QueryThrows, Asked
<1> DEFINE q == Asked(task[t])
           row(id) == [id |-> id, password |-> q.password]
           same == users' = users
           stored(id) == Insertable(q.name, id) /\ users' = [users EXCEPT ![q.name] = row(id)]
<1>1. UNCHANGED <<pc, wpc, task, added, started, finished, script, request, call, reply>>
  BY ZenonT(30) DEF Query, QueryThrows, poolVars, vars
<1>2. ASSUME NEW id \in Ids, stored(id), call[t] = "Insert"
      PROVE  /\ users' \in [Names -> Rows \cup {NoRow}] /\ Grows /\ UniqueIds'
             /\ users[q.name] = NoRow /\ users'[q.name] = row(id)
  <2>1. q.name \in Names /\ q.password \in Passwords /\ users \in [Names -> Rows \cup {NoRow}]
    BY <1>0, <1>2 DEF CallOK, Named, AuthTypeOK
  <2>2. row(id) \in Rows /\ row(id).id = id
    BY <2>1, RowFacts
  <2> HIDE DEF row
  <2>3. /\ users[q.name] = NoRow /\ users' = [users EXCEPT ![q.name] = row(id)]
        /\ \A m \in Names : users[m] # NoRow => users[m].id # id
    BY <1>2 DEF Insertable
  <2> QED BY <1>0, <2>1, <2>2, <2>3 DEF UniqueIds, Grows
<1>3. ASSUME same PROVE users' \in [Names -> Rows \cup {NoRow}] /\ Grows /\ UniqueIds'
  BY <1>0, <1>3 DEF AuthTypeOK, UniqueIds, Grows
<1>4. CASE Query(t)
  <2>1. UNCHANGED defaulted
    BY ZenonT(30), <1>4 DEF Query
  <2>2. CASE call[t] = "Insert"
    <3>1. PICK id \in Ids :
              \/ stored(id) /\ result' = [result EXCEPT ![t] = id]
              \/ same /\ result' = [result EXCEPT ![t] = Default]
      BY ZenonT(30), <1>0, <1>4, <2>2 DEF Query
    <3>2. CASE stored(id) /\ result' = [result EXCEPT ![t] = id]
      <4>1. Found(t, id)
        BY ZenonT(30), <1>2, <2>2, <3>2 DEF Found
      <4> QED BY ZenonT(30), <1>0, <1>1, <1>2, <2>1, <2>2, <3>2, <4>1, ResultKeeps
    <3>3. CASE same /\ result' = [result EXCEPT ![t] = Default]
      <4>1. Found(t, 0)
        BY <2>2 DEF Found
      <4> QED BY ZenonT(30), <1>0, <1>1, <1>3, <2>1, <3>3, <4>1, ResultKeeps DEF Default
    <3> QED BY <3>1, <3>2, <3>3
  <2>3. CASE call[t] # "Insert"
    <3> DEFINE r == CASE call[t] = "QueryExist" -> Exists(q.name)
                      [] call[t] = "VerifyUser" -> Verify(q.name, q.password)
                      [] call[t] = "FindByUsername" -> FindId(q.name)
                      [] OTHER -> Default
    <3>1. same /\ result' = [result EXCEPT ![t] = r]
      BY ZenonT(30), <1>0, <1>4, <2>3 DEF Query
    <3>2. /\ call[t] = "QueryExist" => r = Exists(q.name)
          /\ call[t] = "VerifyUser" => r = Verify(q.name, q.password)
          /\ call[t] = "FindByUsername" => r = FindId(q.name)
          /\ call[t] \notin {"QueryExist", "VerifyUser", "FindByUsername"} => r = Default
      OBVIOUS
    <3> HIDE DEF r
    <3>3. call[t] = "FindByUsername" => users[q.name].id \in Ids
      BY <1>0 DEF CallOK, HasRow, Named, AuthTypeOK, Rows
    <3>4. r \in Nat
      <4>1. Exists(q.name) \in {0, 1} /\ Verify(q.name, q.password) \in {0, 1} /\ Default = 0
        BY DEF Exists, Verify, Default
      <4>2. call[t] = "FindByUsername" => FindId(q.name) \in Nat
        BY ZenonT(30), <1>0, <3>3 DEF FindId, Default
      <4> QED BY <3>2, <4>1, <4>2
    <3>5. Found(t, r)
      BY <1>0, <2>3, <3>2 DEF Found, CallOK, Exists, Verify, FindId, HasRow
    <3> QED BY ZenonT(30), <1>0, <1>1, <1>3, <2>1, <3>1, <3>4, <3>5, ResultKeeps
  <2> QED BY <2>2, <2>3
<1>5. CASE QueryThrows(t)
  <2>1. result' = [result EXCEPT ![t] = 0] /\ defaulted' = defaulted \cup {task[t]}
    BY ZenonT(30), <1>5 DEF QueryThrows, Default
  <2>2. same \/ (call[t] = "Insert" /\ \E id \in Ids : stored(id))
    BY ZenonT(30), <1>0, <1>5 DEF QueryThrows
  <2>3. users' \in [Names -> Rows \cup {NoRow}] /\ Grows /\ UniqueIds'
    BY ZenonT(30), <1>2, <1>3, <2>2
  <2>4. Found(t, 0)
    BY <2>1 DEF Found
  <2> QED BY ZenonT(30), <1>0, <1>1, <2>1, <2>3, <2>4, ResultKeeps
<1> QED BY <1>4, <1>5

----------------------------------------------------------------------------
(* A DAO call returns to the service.                                      *)

\* What the service answers, and what it calls next.
LEMMA ServiceTable ==
    ASSUME NEW q, NEW c, NEW r
    PROVE  /\ Outcome(q, c, r) \in {"none", "exists", "success", "dberror", "notfound"}
           /\ NextCall(q, c, r) \in {"Insert", "VerifyUser", "FindByUsername", "AddTask", "done"}
           /\ Outcome(q, c, r) = "success" =>
                 \/ q.op = "register" /\ c = "Insert" /\ r # 0
                 \/ q.op = "login" /\ c = "FindByUsername"
                 \/ q.op = "login" /\ c = "VerifyUser" /\ r # 0 /\ q.http
           /\ q.op = "register" /\ c = "QueryExist" /\ r # 0 => Outcome(q, c, r) = "exists"
           /\ q.op = "login" /\ c = "FindByUsername" => Outcome(q, c, r) = "success"
           /\ q.op = "login" /\ c = "VerifyUser" /\ r # 0 /\ q.http => Outcome(q, c, r) = "success"
           /\ NextCall(q, c, r) \notin {"AddTask", "done"} => Outcome(q, c, r) = "none"
           /\ NextCall(q, c, r) = "Insert" => q.op = "register" /\ c = "QueryExist" /\ r = 0
           /\ NextCall(q, c, r) = "VerifyUser" => q.op = "login" /\ c = "QueryExist" /\ r # 0
           /\ NextCall(q, c, r) = "FindByUsername" =>
                 q.op = "login" /\ c = "VerifyUser" /\ r # 0 /\ ~q.http
           /\ NextCall(q, c, r) \in {"AddTask", "done"} /\ q.op = "login"
              /\ c \in {"QueryExist", "VerifyUser"} => r = 0 \/ (c = "VerifyUser" /\ q.http)
           /\ NextCall(q, c, r) \in {"AddTask", "done"} /\ q.op = "register"
              /\ c = "QueryExist" => r # 0
BY DEF Outcome, NextCall

LEMMA ReturnKeeps ==
    ASSUME AuthInv, TypeOK, TaskOK, NEW t \in Threads, InCall(t), NEW r \in Nat, Return(t, r),
           r = result[t] \/ (r = 0 /\ task[t] \in defaulted'),
           defaulted \subseteq defaulted', defaulted' \subseteq defaulted \cup {task[t]},
           pc' = [pc EXCEPT ![t] = "idle"], UNCHANGED <<poolVars, script, request, users>>
    PROVE  AuthInv'
<1> DEFINE k == task[t]
           q == Asked(k)
           o == Outcome(q, call[t], r)
           c == NextCall(q, call[t], r)
           answer == [outcome |-> o, id |-> IF o = "success" /\ ~q.http THEN r ELSE 0]
<1>0. /\ AuthTypeOK /\ Agree /\ Unanswered /\ Holders /\ UniqueIds /\ Logins /\ KnownIsStored
      /\ SeenSoFar /\ \A u \in Threads : CallOK(u)
      /\ wpc[t] = "running" /\ k \in 1 .. added /\ k \in 1 .. MaxTasks /\ Pending \notin Nat
      /\ reply[k].outcome = "none" /\ k <= Len(started) /\ k \notin finished
      /\ \A u \in Threads : u # t => task[u] # k
      /\ \A u \in Threads : wpc[u] = "running" => task[u] \in 1 .. added /\ task[u] \in 1 .. MaxTasks
      /\ \A j \in finished : j \in 1 .. added /\ j \in 1 .. MaxTasks
      /\ \A j \in 1 .. added : j \in 1 .. MaxTasks
  <2>1. /\ AuthTypeOK /\ Agree /\ Unanswered /\ Holders /\ UniqueIds /\ Logins /\ KnownIsStored
        /\ SeenSoFar /\ \A u \in Threads : CallOK(u)
    BY DEF AuthInv
  <2>2. wpc[t] = "running" /\ reply[k].outcome = "none" /\ k \notin finished
    BY <2>1 DEF Agree, Unanswered, InCall
  <2>3. /\ k \in 1 .. added /\ k \in 1 .. MaxTasks /\ k <= Len(started)
        /\ \A u \in Threads : u # t => task[u] # k
        /\ \A u \in Threads : wpc[u] = "running" => task[u] \in 1 .. added /\ task[u] \in 1 .. MaxTasks
    BY <2>2 DEF TaskOK
  <2>4. \A j \in finished : j \in 1 .. added /\ j \in 1 .. MaxTasks
    BY <2>1 DEF AuthTypeOK, TaskOK
  <2>5. \A j \in 1 .. added : j \in 1 .. MaxTasks
    BY DEF TaskOK
  <2> QED BY <2>1, <2>2, <2>3, <2>4, <2>5 DEF Pending
<1>same. /\ task' = task /\ wpc' = wpc /\ added' = added /\ started' = started
         /\ finished' = finished /\ request' = request /\ users' = users /\ script' = script
         /\ pc'[t] = "idle" /\ \A u \in Threads : u # t => pc'[u] = pc[u]
  BY DEF TypeOK, poolVars
<1>1. /\ call' = [call EXCEPT ![t] = c] /\ result' = [result EXCEPT ![t] = Pending]
      /\ reply' = IF o = "none" THEN reply ELSE [reply EXCEPT ![k] = answer]
  BY DEF Return, Asked
<1>2. /\ c \in {"Insert", "VerifyUser", "FindByUsername", "AddTask", "done"}
      /\ o \in {"none", "exists", "success", "dberror", "notfound"}
      /\ answer \in [outcome : {"exists", "success", "dberror", "notfound", "none"}, id : Nat]
      /\ answer.outcome = o /\ answer.id = IF o = "success" /\ ~q.http THEN r ELSE 0
  BY ServiceTable
<1>3. /\ call'[t] = c /\ result'[t] = Pending
      /\ \A u \in Threads : u # t => call'[u] = call[u] /\ result'[u] = result[u]
      /\ \A j \in 1 .. MaxTasks : j # k => reply'[j] = reply[j]
      /\ o = "none" => reply'[k] = reply[k]
      /\ o # "none" => reply'[k] = answer
      /\ \A j : Asked(j)' = Asked(j)
      /\ reply' \in [1 .. MaxTasks ->
                        [outcome : {"none", "invalid", "exists", "success", "dberror", "notfound"},
                         id : Nat]]
  <2> HIDE DEF c, o, answer
  <2> QED BY <1>0, <1>1, <1>2, <1>same DEF AuthTypeOK, Asked
<1> HIDE DEF c, o, answer
<1>4. AuthTypeOK'
  BY <1>0, <1>1, <1>2, <1>3, <1>same DEF AuthTypeOK
<1>5. Agree'
  <2> SUFFICES ASSUME NEW u \in Threads
               PROVE  /\ call'[u] # "done" => wpc'[u] = "running"
                      /\ pc'[u] # "idle" => InCall(u)'
                      /\ result'[u] # Pending => pc'[u] \in {"use", "post"}
                      /\ pc'[u] = "post" => result'[u] # Pending
    BY DEF Agree
  <2>1. CASE u = t
    BY <1>0, <1>3, <1>same, <2>1
  <2>2. CASE u # t
    BY <1>0, <1>3, <1>same, <2>2 DEF Agree, InCall
  <2> QED BY <2>1, <2>2
<1>6. Unanswered'
  <2>1. c \notin {"AddTask", "done"} => o = "none"
    BY ServiceTable DEF c, o
  <2>2. \A u \in Threads : InCall(u)' => reply'[task[u]].outcome = "none"
    <3> SUFFICES ASSUME NEW u \in Threads, InCall(u)' PROVE reply'[task[u]].outcome = "none"
      OBVIOUS
    <3>1. CASE u = t
      BY <1>0, <1>3, <2>1, <3>1 DEF InCall
    <3>2. CASE u # t
      BY <1>0, <1>3, <3>2 DEF Unanswered, InCall, Agree
    <3> QED BY <3>1, <3>2
  <2>3. \A j \in 1 .. MaxTasks : reply'[j].outcome # "none" => j <= Len(started)
    BY <1>0, <1>3 DEF Unanswered
  <2> QED BY <1>0, <1>same, <2>2, <2>3 DEF Unanswered
<1>7. (\A u \in Threads : CallOK(u))'
  <2>1. /\ c = "Insert" => q.op = "register" /\ call[t] = "QueryExist"
        /\ c = "VerifyUser" => q.op = "login" /\ call[t] = "QueryExist"
        /\ c = "FindByUsername" => q.op = "login" /\ call[t] = "VerifyUser" /\ r # 0 /\ ~q.http
    BY ServiceTable DEF c
  <2>2. CallOK(t)'
    <3>1. CallOK(t) /\ Pending \notin Nat
      BY <1>0
    <3>2. c \in {"Insert", "VerifyUser", "FindByUsername"} => Named(q)
      BY <2>1, <3>1 DEF CallOK
    <3>3. c = "FindByUsername" => HasRow(q)
      BY <2>1, <3>1 DEF CallOK
    <3>4. /\ Named(Asked(task[t]))' <=> Named(q)
          /\ HasRow(Asked(task[t]))' <=> HasRow(q)
          /\ Asked(task[t])' = q /\ call'[t] = c /\ result'[t] = Pending
      BY <1>3, <1>same DEF Named, HasRow
    <3> QED BY <1>2, <2>1, <3>2, <3>3, <3>4 DEF CallOK
  <2>3. ASSUME NEW u \in Threads, u # t PROVE CallOK(u)'
    BY <1>0, <1>3, <1>same, <2>3, SameCall
  <2> QED BY <2>2, <2>3
<1>8. o = "success" =>
          \/ q.op = "register" /\ call[t] = "Insert" /\ r # 0
          \/ q.op = "login" /\ call[t] = "FindByUsername" /\ ~q.http
          \/ q.op = "login" /\ call[t] = "VerifyUser" /\ r # 0 /\ q.http
  BY <1>0, ServiceTable DEF o, CallOK
<1>9. \A j \in 1 .. added : /\ Named(Asked(j))' <=> Named(Asked(j))
                            /\ HasRow(Asked(j))' <=> HasRow(Asked(j))
  BY <1>3, <1>same DEF Named, HasRow
<1>10. Holders'
  <2>1. ASSUME NEW j \in 1 .. added, Holds(j)' PROVE Holds(j)
    <3>1. CASE j = k
      <4>1. Answered(j, "register", "success")'
        BY <1>0, <1>3, <1>same, <2>1, <3>1 DEF Holds, Inserted
      <4>2. o = "success" /\ q.op = "register"
        BY <1>0, <1>2, <1>3, <3>1, <4>1 DEF Answered
      <4> QED BY <1>0, <1>8, <3>1, <4>2 DEF Holds, Inserted
    <3>2. CASE j # k
      <4>1. Answered(j, "register", "success")' => Answered(j, "register", "success")
        BY <1>0, <1>3, <3>2 DEF Answered
      <4>2. ASSUME NEW u \in Threads, task[u] = j, Inserted(u)' PROVE Inserted(u)
        BY <1>3, <3>2, <4>2 DEF Inserted
      <4> QED BY <1>same, <2>1, <4>1, <4>2 DEF Holds
    <3> QED BY <3>1, <3>2
  <2>2. \A u \in Threads : Inserted(u)' => u # t /\ Inserted(u)
    BY <1>3 DEF Inserted
  <2>3. ASSUME NEW j \in 1 .. added, Answered(j, "register", "success")'
        PROVE  reply'[j].id = IF Asked(j).http THEN 0 ELSE users[Asked(j).name].id
    <3>1. CASE j = k
      <4>1. o = "success" /\ q.op = "register"
        BY <1>0, <1>2, <1>3, <2>3, <3>1 DEF Answered
      <4>2. Inserted(t) /\ r = result[t]
        BY <1>0, <1>8, <4>1 DEF Inserted
      <4>3. users[q.name].id = r
        BY <1>0, <4>2 DEF Holders
      <4> QED BY <1>2, <1>3, <3>1, <4>1, <4>3
    <3>2. CASE j # k
      <4>1. reply'[j] = reply[j] /\ Answered(j, "register", "success")
        BY <1>0, <1>3, <2>3, <3>2 DEF Answered
      <4> QED BY <1>0, <4>1 DEF Holders
    <3> QED BY <3>1, <3>2
  <2>4. \A j \in 1 .. added : Holds(j)' => Named(Asked(j))' /\ HasRow(Asked(j))'
    BY <1>0, <1>9, <2>1 DEF Holders
  <2>5. \A i, j \in 1 .. added : Holds(i)' /\ Holds(j)' /\ Asked(i).name = Asked(j).name => i = j
    BY <1>0, <2>1 DEF Holders
  <2>6. \A u \in Threads : Inserted(u)' => users[Asked(task[u]).name].id = result'[u]
    BY <1>0, <1>3, <2>2 DEF Holders
  <2> QED BY <1>3, <1>same, <2>3, <2>4, <2>5, <2>6 DEF Holders
<1>11. UniqueIds' /\ KnownIsStored'
  BY <1>0, <1>same DEF UniqueIds, KnownIsStored
<1>12. Logins'
  <2> SUFFICES ASSUME NEW j \in 1 .. added, Answered(j, "login", "success")'
               PROVE  /\ Named(Asked(j)) /\ HasRow(Asked(j))
                      /\ ~Asked(j).http => \/ reply'[j].id = users[Asked(j).name].id
                                           \/ reply'[j].id = 0 /\ j \in defaulted'
    BY <1>3, <1>9, <1>same DEF Logins
  <2>1. CASE j = k
    <3>1. o = "success" /\ q.op = "login"
      BY <1>0, <1>2, <1>3, <2>1 DEF Answered
    <3>2. Named(q) /\ HasRow(q)
      BY <1>0, <1>8, <3>1 DEF CallOK
    <3>3. ~q.http => r = users[q.name].id \/ (r = 0 /\ k \in defaulted')
      BY <1>0, <1>8, <3>1 DEF CallOK
    <3> QED BY <1>2, <1>3, <2>1, <3>1, <3>2, <3>3
  <2>2. CASE j # k
    <3>1. reply'[j] = reply[j] /\ Answered(j, "login", "success")
      BY <1>0, <1>3, <2>2 DEF Answered
    <3> QED BY <1>0, <3>1 DEF Logins
  <2> QED BY <2>1, <2>2
<1>13. SeenSoFar'
  <2>1. \A j : Due(j)' => Due(j) /\ j \notin defaulted'
    BY <1>3, <1>same DEF Due
  <2>2. \A j \in 1 .. MaxTasks : j # k => (Seen(j)' <=> Seen(j))
    BY <1>3, <1>same DEF Seen
  <2>3. ASSUME Due(k)'
        PROVE  /\ c # "Insert"
               /\ c \in {"AddTask", "done"} => Seen(k)'
    <3>1. Due(k) /\ r = result[t] /\ Named(q) /\ users[q.name] # NoRow
      <4>1. Due(k) /\ k \notin defaulted'
        BY <1>same, <2>1, <2>3
      <4>2. Named(q) /\ q.name \in request[k].known
        BY <1>0, <4>1, RequestFacts DEF Due
      <4> QED BY <1>0, <4>1, <4>2 DEF KnownIsStored
    <3>2. /\ call[t] \notin {"Insert", "GetPendingRequests"}
          /\ call[t] = "QueryExist" => r = 1
          /\ call[t] = "VerifyUser" => r = IF HasRow(q) THEN 1 ELSE 0
      BY <1>0, <3>1 DEF SeenSoFar
    <3>3. c # "Insert"
      BY <3>2, ServiceTable DEF c
    <3>4. ASSUME c \in {"AddTask", "done"} PROVE Seen(k)'
      <4>1. q.op \in {"register", "login"}
        BY <3>1 DEF Named, Requests
      <4>2. CASE q.op = "register"
        <5>1. call[t] = "QueryExist"
          BY <1>0, <3>2, <4>2 DEF CallOK, InCall, AuthTypeOK
        <5>2. o = "exists"
          BY <3>2, <4>2, <5>1, ServiceTable DEF o
        <5> QED BY <1>2, <1>3, <1>same, <4>2, <5>2 DEF Seen
      <4>3. CASE q.op = "login"
        <5>1. call[t] \in {"VerifyUser", "FindByUsername"}
          <6>1. call[t] # "QueryExist"
            BY <3>2, <3>4, <4>3, ServiceTable DEF c
          <6> QED BY <1>0, <3>2, <6>1 DEF InCall, AuthTypeOK
        <5>2. (o = "success") <=> HasRow(q)
          <6>1. CASE call[t] = "FindByUsername"
            <7>1. HasRow(q)
              BY <1>0, <6>1 DEF CallOK
            <7> QED BY <4>3, <6>1, <7>1, ServiceTable DEF o
          <6>2. CASE call[t] = "VerifyUser"
            BY <1>0, <3>2, <3>4, <4>3, <6>2, ServiceTable DEF o, c
          <6> QED BY <5>1, <6>1, <6>2
        <5>3. (reply'[k].outcome = "success") <=> (o = "success")
          BY <1>0, <1>2, <1>3
        <5> QED BY <1>3, <1>same, <3>1, <4>3, <5>2, <5>3 DEF Seen, HasRow
      <4> QED BY <4>1, <4>2, <4>3
    <3> QED BY <3>3, <3>4
  <2>4. \A j \in finished : Due(j)' => Seen(j)'
    BY <1>0, <2>1, <2>2 DEF SeenSoFar
  <2>5. ASSUME NEW u \in Threads, wpc[u] = "running", Due(task[u])'
        PROVE  /\ call'[u] \notin {"Insert", "GetPendingRequests"}
               /\ call'[u] = "QueryExist" => result'[u] \in {Pending, 1}
               /\ call'[u] = "VerifyUser" =>
                     result'[u] \in {Pending, IF HasRow(Asked(task[u]))' THEN 1 ELSE 0}
               /\ ~InCall(u)' => Seen(task[u])'
    <3>1. CASE u = t
      BY <1>2, <1>3, <2>3, <2>5, <3>1 DEF InCall
    <3>2. CASE u # t
      <4>1. task[u] \in 1 .. MaxTasks /\ task[u] \in 1 .. added /\ task[u] # k /\ Due(task[u])
        BY <1>0, <1>same, <2>1, <2>5, <3>2
      <4>2. /\ call'[u] = call[u] /\ result'[u] = result[u] /\ task'[u] = task[u]
            /\ HasRow(Asked(task[u]))' <=> HasRow(Asked(task[u]))
            /\ Seen(task[u])' <=> Seen(task[u])
        BY <1>3, <1>same, <2>2, <3>2, <4>1 DEF HasRow
      <4> QED BY <1>0, <2>5, <4>1, <4>2 DEF SeenSoFar, InCall
    <3> QED BY <3>1, <3>2
  <2> QED BY <1>3, <1>same, <2>4, <2>5 DEF SeenSoFar
<1> QED BY <1>4, <1>5, <1>6, <1>7, <1>10, <1>11, <1>12, <1>13 DEF AuthInv

LEMMA ReturnSteps ==
    ASSUME AuthInv, TypeOK, TaskOK, NEW t \in Threads, CallBusy(t) \/ CallReturns(t)
    PROVE  AuthInv'
<1>0. /\ AuthTypeOK /\ Agree /\ pc \in [Threads -> {"idle", "sem_wait", "pop", "use", "post", "undefined"}]
  BY DEF AuthInv, TypeOK
<1>1. CASE CallBusy(t)
  <2>1. /\ InCall(t) /\ Return(t, 0) /\ defaulted' = defaulted \cup {task[t]}
        /\ UNCHANGED <<poolVars, script, request, users>> /\ pc[t] = "idle" /\ pc' = pc
    BY <1>1 DEF CallBusy, GetConnBusy, vars, Default
  <2>2. pc' = [pc EXCEPT ![t] = "idle"]
    BY <1>0, <2>1
  <2> QED BY ZenonT(30), <2>1, <2>2, ReturnKeeps DEF poolVars
<1>2. CASE CallReturns(t)
  <2>1. /\ Return(t, result[t]) /\ pc[t] = "post" /\ pc' = [pc EXCEPT ![t] = "idle"]
        /\ UNCHANGED <<poolVars, script, request, users, defaulted>>
    BY <1>2 DEF CallReturns, FreeConnPost
  <2>2. InCall(t) /\ result[t] \in Nat
    BY <1>0, <2>1 DEF Agree, AuthTypeOK
  <2> QED BY ZenonT(30), <2>1, <2>2, ReturnKeeps
<1> QED BY <1>1, <1>2

----------------------------------------------------------------------------
(* A worker takes a request, and finishes it.                              *)

LEMMA TakeKeeps ==
    ASSUME AuthInv, TaskOK, QueueOK, NEW t \in Threads, TakeRequest(t)
    PROVE  AuthInv'
<1> DEFINE k == Head(tasks)
           c == FirstCall(Asked(k))
<1>0. /\ AuthTypeOK /\ Agree /\ Unanswered /\ Holders /\ UniqueIds /\ Logins /\ KnownIsStored
      /\ SeenSoFar /\ (\A u \in Threads : CallOK(u)) /\ Pending \notin Nat
  BY DEF AuthInv, Pending
<1>1. /\ tasks # <<>> /\ wpc[t] = "loop" /\ call[t] = "done" /\ pc[t] = "idle" /\ result[t] = Pending
      /\ k = Len(started) + 1 /\ k \in 1 .. added
      /\ \A j \in 1 .. added : j \in 1 .. MaxTasks
      /\ \A u \in Threads : task[u] # k /\ (wpc[u] = "running" => task[u] \in 1 .. added)
  <2>1. tasks # <<>> /\ wpc[t] = "loop"
    BY DEF TakeRequest, TP!Take
  <2>2. call[t] = "done" /\ pc[t] = "idle" /\ result[t] = Pending
    BY <1>0, <2>1 DEF Agree, InCall
  <2>3. k = Len(started) + 1 /\ k \in 1 .. added
    BY <2>1 DEF QueueOK
  <2>4. /\ \A j \in 1 .. added : j \in 1 .. MaxTasks
        /\ \A u \in Threads : task[u] # k /\ (wpc[u] = "running" => task[u] \in 1 .. added)
    BY <2>3 DEF TaskOK
  <2> QED BY <2>1, <2>2, <2>3, <2>4
<1>2. /\ task' = [task EXCEPT ![t] = k] /\ wpc' = [wpc EXCEPT ![t] = "running"]
      /\ started' = Append(started, k) /\ call' = [call EXCEPT ![t] = c]
      /\ added' = added /\ finished' = finished /\ pc' = pc /\ script' = script /\ request' = request
      /\ result' = result /\ users' = users /\ defaulted' = defaulted
      /\ reply' = IF call'[t] # "done" THEN reply
                  ELSE [reply EXCEPT ![k] = [outcome |-> "invalid", id |-> 0]]
  BY DEF TakeRequest, TP!Take, vars, Asked
<1>3. Len(started') = Len(started) + 1 /\ Len(started) \in Nat
  <2>1. started \in Seq(1 .. MaxTasks)
    BY DEF QueueOK
  <2> QED BY <1>2, <2>1
<1>4. /\ c \in {"GetPendingRequests", "done", "VerifyUser", "QueryExist"}
      /\ c \in {"VerifyUser", "QueryExist"} => Named(Asked(k))
      /\ c = "VerifyUser" => Asked(k).op = "login"
      /\ c = "GetPendingRequests" => Asked(k).op = "pending"
      /\ Named(Asked(k)) => c # "done"
  <2>1. Asked(k) \in Requests \/ Asked(k).op = "pending"
    BY <1>0, <1>1, RequestFacts DEF PendingTask
  <2> QED BY <2>1, AuthAssumption DEF FirstCall, Named, Requests
<1> HIDE DEF c
<1>5. /\ task'[t] = k /\ wpc'[t] = "running" /\ call'[t] = c
      /\ \A u \in Threads : u # t => task'[u] = task[u] /\ wpc'[u] = wpc[u] /\ call'[u] = call[u]
      /\ \A j \in 1 .. MaxTasks : j # k => reply'[j] = reply[j]
      /\ c # "done" => reply'[k] = reply[k]
      /\ c = "done" => reply'[k] = [outcome |-> "invalid", id |-> 0]
      /\ \A j : Asked(j)' = Asked(j)
      /\ reply' \in [1 .. MaxTasks ->
                        [outcome : {"none", "invalid", "exists", "success", "dberror", "notfound"},
                         id : Nat]]
  BY <1>0, <1>1, <1>2 DEF AuthTypeOK, Asked, TaskOK
<1>6. AuthTypeOK'
  BY <1>0, <1>2, <1>3, <1>4, <1>5 DEF AuthTypeOK
<1>7. Agree'
  BY <1>0, <1>1, <1>2, <1>5 DEF Agree, InCall
<1>8. reply[k].outcome = "none" /\ reply'[k].outcome \in {"none", "invalid"}
  BY <1>0, <1>1, <1>3, <1>5 DEF Unanswered
<1>9. Unanswered'
  <2>1. \A j \in 1 .. MaxTasks : reply'[j].outcome # "none" => j <= Len(started')
    BY <1>0, <1>1, <1>3, <1>5 DEF Unanswered
  <2>2. ASSUME NEW u \in Threads
        PROVE  (InCall(u)' => reply'[task'[u]].outcome = "none") /\ task'[u] \notin finished
    <3>1. CASE u = t
      BY <1>0, <1>1, <1>3, <1>5, <1>8, <3>1 DEF AuthTypeOK, InCall
    <3>2. CASE u # t
      <4>1. task[u] # k /\ (InCall(u) => task[u] \in 1 .. MaxTasks)
        BY <1>0, <1>1 DEF Agree, InCall
      <4> QED BY <1>0, <1>5, <3>2, <4>1 DEF Unanswered, InCall
    <3> QED BY <3>1, <3>2
  <2> QED BY <1>2, <2>1, <2>2 DEF Unanswered
<1>10. (\A u \in Threads : CallOK(u))'
  <2>1. CallOK(t)'
    <3>1. Asked(task[t])' = Asked(k) /\ call'[t] = c /\ result'[t] = Pending
      BY <1>1, <1>2, <1>5
    <3>2. Named(Asked(task[t]))' <=> Named(Asked(k))
      BY <3>1 DEF Named
    <3> QED BY <1>4, <3>1, <3>2 DEF CallOK
  <2>2. ASSUME NEW u \in Threads, u # t PROVE CallOK(u)'
    BY <1>0, <1>2, <1>5, <2>2, SameCall
  <2> QED BY <2>1, <2>2
<1>11. \A j \in 1 .. added : \A op \in {"register", "login"} :
           Answered(j, op, "success")' => Answered(j, op, "success") /\ reply'[j] = reply[j]
  BY <1>1, <1>5, <1>8 DEF Answered
<1>12. \A u \in Threads : Inserted(u)' => Inserted(u) /\ task'[u] = task[u]
  BY <1>2, <1>4, <1>5 DEF Inserted
<1>13. \A j \in 1 .. added : /\ Named(Asked(j))' <=> Named(Asked(j))
                             /\ HasRow(Asked(j))' <=> HasRow(Asked(j))
                             /\ Holds(j)' => Holds(j)
  BY <1>2, <1>5, <1>11, <1>12 DEF Named, HasRow, Holds
<1>14. Holders'
  <2>1. \A j \in 1 .. added : Holds(j)' => Named(Asked(j))' /\ HasRow(Asked(j))'
    BY <1>0, <1>13 DEF Holders
  <2>2. \A i, j \in 1 .. added : Holds(i)' /\ Holds(j)' /\ Asked(i).name = Asked(j).name => i = j
    BY <1>0, <1>13 DEF Holders
  <2>3. \A u \in Threads : Inserted(u)' => users[Asked(task'[u]).name].id = result[u]
    BY <1>0, <1>12 DEF Holders
  <2>4. \A j \in 1 .. added : Answered(j, "register", "success")' =>
            reply'[j].id = IF Asked(j).http THEN 0 ELSE users[Asked(j).name].id
    BY <1>0, <1>11 DEF Holders
  <2> QED BY <1>2, <1>5, <2>1, <2>2, <2>3, <2>4 DEF Holders
<1>15. UniqueIds' /\ Logins' /\ KnownIsStored'
  <2>1. UniqueIds'
    BY <1>0, <1>2, <1>5 DEF UniqueIds
  <2>2. Logins'
    <3> SUFFICES ASSUME NEW j \in 1 .. added, Answered(j, "login", "success")'
                 PROVE  /\ Named(Asked(j))' /\ HasRow(Asked(j))'
                        /\ ~Asked(j).http => \/ reply'[j].id = users[Asked(j).name].id
                                             \/ reply'[j].id = 0 /\ j \in defaulted
      BY <1>2, <1>5 DEF Logins
    <3>1. Answered(j, "login", "success") /\ reply'[j] = reply[j]
      BY <1>11
    <3> QED BY <1>0, <1>13, <3>1 DEF Logins
  <2>3. KnownIsStored'
    BY <1>0, <1>2, <1>5 DEF KnownIsStored
  <2> QED BY <2>1, <2>2, <2>3
<1>16. SeenSoFar'
  <2>1. \A j \in 1 .. added : Due(j)' <=> Due(j)
    BY <1>2, <1>5 DEF Due
  <2>2. \A j \in 1 .. MaxTasks : j # k => (Seen(j)' <=> Seen(j))
    BY <1>2, <1>5 DEF Seen
  <2>3. \A j \in finished : j \in 1 .. added /\ j \in 1 .. MaxTasks /\ j # k
    <3>1. finished \subseteq 1 .. Len(started)
      BY <1>0 DEF AuthTypeOK
    <3> QED BY <1>1, <1>3, <3>1 DEF TaskOK
  <2>4. ASSUME NEW u \in Threads, wpc'[u] = "running", Due(task[u])'
        PROVE  /\ call'[u] \notin {"Insert", "GetPendingRequests"}
               /\ call'[u] = "QueryExist" => result[u] \in {Pending, 1}
               /\ call'[u] = "VerifyUser" =>
                     result[u] \in {Pending, IF HasRow(Asked(task[u]))' THEN 1 ELSE 0}
               /\ ~InCall(u)' => Seen(task[u])'
    <3>1. CASE u = t
      <4>1. Due(k) /\ Named(Asked(k))
        BY <1>0, <1>1, <1>5, <2>1, <2>4, <3>1, RequestFacts
      <4> QED BY <1>1, <1>4, <1>5, <3>1, <4>1 DEF InCall, Due
    <3>2. CASE u # t
      <4>1. task'[u] = task[u] /\ task[u] \in 1 .. added /\ task[u] \in 1 .. MaxTasks /\ task[u] # k
        BY <1>1, <1>5, <2>4, <3>2
      <4>2. Due(task[u]) /\ (HasRow(Asked(task[u]))' <=> HasRow(Asked(task[u])))
            /\ (Seen(task[u])' <=> Seen(task[u]))
        BY <1>13, <2>1, <2>2, <2>4, <4>1
      <4> QED BY <1>0, <1>5, <2>4, <3>2, <4>1, <4>2 DEF SeenSoFar, InCall
    <3> QED BY <3>1, <3>2
  <2> QED BY <1>0, <1>2, <2>1, <2>2, <2>3, <2>4 DEF SeenSoFar
<1> QED BY <1>6, <1>7, <1>9, <1>10, <1>14, <1>15, <1>16 DEF AuthInv

LEMMA FinishKeeps ==
    ASSUME AuthInv, TaskOK, NEW t \in Threads, FinishRequest(t)
    PROVE  AuthInv'
<1> DEFINE k == task[t]
<1>0. /\ AuthTypeOK /\ Agree /\ Unanswered /\ Holders /\ UniqueIds /\ Logins /\ KnownIsStored
      /\ SeenSoFar /\ (\A u \in Threads : CallOK(u))
  BY DEF AuthInv
<1>1. /\ call[t] = "done" /\ wpc[t] = "running" /\ UNCHANGED <<vars, authVars, added, started>>
      /\ finished' = finished \cup {k} /\ task' = [task EXCEPT ![t] = 0]
      /\ wpc' = [wpc EXCEPT ![t] = "loop"]
  BY DEF FinishRequest, TP!Finish
<1>2. /\ pc' = pc /\ script' = script /\ request' = request /\ call' = call /\ result' = result
      /\ users' = users /\ reply' = reply /\ defaulted' = defaulted
      /\ added' = added /\ started' = started
  BY <1>1 DEF vars, authVars
<1>3. /\ k \in 1 .. Len(started) /\ task'[t] = 0
      /\ \A u \in Threads : u # t => task'[u] = task[u] /\ wpc'[u] = wpc[u] /\ task[u] # k
      /\ wpc'[t] = "loop" /\ 0 \notin finished'
  BY <1>0, <1>1 DEF AuthTypeOK, TaskOK
<1>4. \A u \in Threads : call[u] # "done" => u # t /\ task'[u] = task[u]
  BY <1>1, <1>3
<1>5. AuthTypeOK'
  BY ZenonT(30), <1>0, <1>1, <1>2, <1>3 DEF AuthTypeOK
<1>6. Agree' /\ Unanswered'
  <2>1. Agree'
    BY <1>0, <1>1, <1>2, <1>3, <1>4 DEF Agree, InCall
  <2>2. \A u \in Threads : InCall(u)' => reply'[task'[u]].outcome = "none"
    BY <1>0, <1>2, <1>4 DEF Unanswered, InCall
  <2>3. \A u \in Threads : task'[u] \notin finished'
    BY <1>0, <1>1, <1>3 DEF Unanswered
  <2>4. \A j \in 1 .. MaxTasks : reply'[j].outcome # "none" => j <= Len(started')
    BY <1>0, <1>2 DEF Unanswered
  <2> QED BY <2>1, <2>2, <2>3, <2>4 DEF Unanswered
<1>7. (\A u \in Threads : CallOK(u))'
  <2> SUFFICES ASSUME NEW u \in Threads PROVE CallOK(u)'
    OBVIOUS
  <2>1. CASE call[u] = "done"
    BY <1>2, <2>1, NoQuery
  <2>2. CASE call[u] # "done"
    <3>1. task'[u] = task[u] /\ Asked(task[u])' = Asked(task[u])
      BY <1>2, <1>4, <2>2 DEF Asked
    <3> QED BY <1>0, <1>2, <3>1, SameCall
  <2> QED BY <2>1, <2>2
<1>8. \A j : /\ Holds(j)' => Holds(j)
             /\ \A op : Answered(j, op, "success")' <=> Answered(j, op, "success")
             /\ Asked(j)' = Asked(j) /\ (Due(j)' <=> Due(j)) /\ (Seen(j)' <=> Seen(j))
  BY <1>2, <1>4 DEF Holds, Inserted, Answered, Asked, Due, Seen
<1>9. \A q : (Named(q)' <=> Named(q)) /\ (HasRow(q)' <=> HasRow(q))
  BY <1>2 DEF Named, HasRow
<1>10. Holders'
  <2>1. \A u \in Threads : Inserted(u)' => Inserted(u) /\ task'[u] = task[u]
    BY <1>2, <1>4 DEF Inserted
  <2> QED BY <1>0, <1>2, <1>8, <1>9, <2>1 DEF Holders
<1>11. UniqueIds' /\ Logins' /\ KnownIsStored'
  BY <1>0, <1>2, <1>8, <1>9 DEF UniqueIds, Logins, KnownIsStored
<1>12. SeenSoFar'
  <2>1. Due(k) => Seen(k)
    BY <1>0, <1>1 DEF SeenSoFar, InCall
  <2>2. \A j \in finished' : Due(j)' => Seen(j)'
    BY <1>0, <1>1, <1>8, <2>1 DEF SeenSoFar
  <2>3. ASSUME NEW u \in Threads, wpc'[u] = "running"
        PROVE  /\ wpc[u] = "running" /\ task'[u] = task[u] /\ (InCall(u)' <=> InCall(u))
               /\ HasRow(Asked(task[u]))' <=> HasRow(Asked(task[u]))
    BY <1>2, <1>3, <2>3 DEF InCall, HasRow, Asked
  <2> QED BY <1>0, <1>2, <1>8, <2>2, <2>3 DEF SeenSoFar
<1> QED BY <1>5, <1>6, <1>7, <1>10, <1>11, <1>12 DEF AuthInv

----------------------------------------------------------------------------
(* A request is added to the queue.                                        *)

LEMMA AddKeeps ==
    ASSUME AuthInv, TaskOK,
           NEW x \in [q : Requests \cup {PendingTask}, known : SUBSET Names],
           request' = Append(request, x), \A n \in x.known : users[n] # NoRow, TP!AddTask,
           call' \in [Threads -> {"QueryExist", "Insert", "VerifyUser", "FindByUsername",
                                  "GetPendingRequests", "AddTask", "done"}],
           \A u \in Threads : call'[u] = call[u] \/ (call[u] = "AddTask" /\ call'[u] = "done"),
           script' \in Seq(Requests), UNCHANGED <<vars, result, users, reply, defaulted>>
    PROVE  AuthInv'
<1>0. /\ AuthTypeOK /\ Agree /\ Unanswered /\ Holders /\ UniqueIds /\ Logins /\ KnownIsStored
      /\ SeenSoFar /\ (\A u \in Threads : CallOK(u))
  BY DEF AuthInv
<1>1. /\ added' = added + 1 /\ added < MaxTasks /\ task' = task /\ started' = started
      /\ finished' = finished /\ pc' = pc /\ result' = result /\ users' = users /\ reply' = reply
      /\ defaulted' = defaulted
      /\ \A u \in Threads : (wpc'[u] = "running") <=> (wpc[u] = "running")
  BY DEF TP!AddTask, TP!NotifyOne, vars, TaskOK
<1>2. /\ Len(request') = added + 1 /\ request'[added + 1] = x
      /\ \A k \in 1 .. added : request'[k] = request[k]
      /\ request' \in Seq([q : Requests \cup {PendingTask}, known : SUBSET Names])
  <2> DEFINE Q == [q : Requests \cup {PendingTask}, known : SUBSET Names]
  <2>1. request \in Seq(Q) /\ Len(request) = added
    BY <1>0 DEF AuthTypeOK
  <2>2. x \in Q /\ request' = Append(request, x)
    OBVIOUS
  <2> HIDE DEF Q
  <2>3. /\ Len(request') = added + 1 /\ request'[added + 1] = x
        /\ \A k \in 1 .. added : request'[k] = request[k]
    BY ONLY <2>1, <2>2
  <2>4. request' \in Seq(Q)
    BY ONLY <2>1, <2>2
  <2> QED BY <2>3, <2>4 DEF Q
<1>3. added \in Nat /\ \A k \in 1 .. added' : k \in 1 .. MaxTasks /\ (k \in 1 .. added \/ k = added + 1)
  BY <1>1 DEF TaskOK
<1>4. \A u \in Threads : InCall(u)' => InCall(u) /\ call'[u] = call[u] /\ task[u] \in 1 .. added
  BY <1>0 DEF InCall, Agree, TaskOK
<1>5. \A k \in 1 .. added : Asked(k)' = Asked(k) /\ request'[k].known = request[k].known
  BY ZenonT(30), <1>2 DEF Asked
<1>6. AuthTypeOK'
  BY <1>0, <1>1, <1>2 DEF AuthTypeOK
<1>7. Agree' /\ Unanswered'
  BY <1>0, <1>1, <1>4 DEF Agree, Unanswered, InCall
<1>8. \A q : (Named(q)' <=> Named(q)) /\ (HasRow(q)' <=> HasRow(q))
  BY <1>1 DEF Named, HasRow
<1>9. (\A u \in Threads : CallOK(u))'
  <2> SUFFICES ASSUME NEW u \in Threads PROVE CallOK(u)'
    OBVIOUS
  <2>1. CASE ~InCall(u)'
    BY <2>1, NoQuery DEF InCall
  <2>2. CASE InCall(u)'
    <3>1. call'[u] = call[u] /\ Asked(task[u])' = Asked(task[u])
      BY <1>1, <1>4, <1>5, <2>2
    <3>2. task'[u] = task[u] /\ result'[u] = result[u] /\ users' = users
          /\ defaulted' = defaulted
      BY <1>1
    <3> QED BY <1>0, <3>1, <3>2, SameCall
  <2> QED BY <2>1, <2>2
<1>10. reply[added + 1].outcome = "none" /\ \A u \in Threads : task[u] # added + 1
  <2>1. added \in Nat /\ Len(started) \in Nat /\ Len(started) <= added /\ added + 1 \in 1 .. MaxTasks
    BY <1>1, <1>3 DEF TaskOK
  <2>2. ~(added + 1 <= Len(started))
    BY <2>1
  <2>3. reply[added + 1].outcome = "none"
    BY <1>0, <2>1, <2>2 DEF Unanswered
  <2>4. \A u \in Threads : task[u] # added + 1
    BY <2>1 DEF TaskOK
  <2> QED BY <2>3, <2>4
<1>11. \A u \in Threads : Inserted(u)' => Inserted(u) /\ task[u] \in 1 .. added
  BY <1>1, <1>4 DEF Inserted, InCall
<1>12. ASSUME NEW k \in 1 .. added'
       PROVE  /\ \A op : Answered(k, op, "success")' => k \in 1 .. added /\ Answered(k, op, "success")
              /\ Holds(k)' => k \in 1 .. added /\ Holds(k)
  BY <1>1, <1>3, <1>5, <1>10, <1>11 DEF Holds, Answered
<1>13. Holders'
  <2>1. \A k \in 1 .. added' : Holds(k)' => Named(Asked(k))' /\ HasRow(Asked(k))'
    BY <1>0, <1>1, <1>5, <1>12 DEF Holders, Named, HasRow
  <2>2. \A j, k \in 1 .. added' : Holds(j)' /\ Holds(k)' /\ Asked(j)'.name = Asked(k)'.name => j = k
    BY <1>0, <1>5, <1>12 DEF Holders
  <2>3. \A u \in Threads : Inserted(u)' => users'[Asked(task[u])'.name].id = result'[u]
    BY <1>0, <1>1, <1>5, <1>11 DEF Holders
  <2>4. \A k \in 1 .. added' : Answered(k, "register", "success")' =>
            reply'[k].id = IF Asked(k)'.http THEN 0 ELSE users'[Asked(k)'.name].id
    BY <1>0, <1>1, <1>5, <1>12 DEF Holders
  <2> QED BY <2>1, <2>2, <2>3, <2>4 DEF Holders
<1>14. UniqueIds' /\ Logins'
  <2>1. ASSUME NEW k \in 1 .. added', Answered(k, "login", "success")'
        PROVE  /\ Named(Asked(k))' /\ HasRow(Asked(k))'
               /\ ~Asked(k)'.http => \/ reply'[k].id = users'[Asked(k)'.name].id
                                     \/ reply'[k].id = 0 /\ k \in defaulted'
    BY <1>0, <1>1, <1>5, <1>12, <2>1 DEF Logins, Named, HasRow
  <2> QED BY <1>0, <1>1, <2>1 DEF UniqueIds, Logins
<1>15. KnownIsStored'
  BY <1>0, <1>1, <1>2, <1>3, <1>5 DEF KnownIsStored
<1>16. SeenSoFar'
  <2>1. \A k \in 1 .. added : (Due(k)' <=> Due(k)) /\ (Seen(k)' <=> Seen(k))
    BY ZenonT(30), <1>1, <1>5 DEF Due, Seen
  <2>2. \A k \in finished : k \in 1 .. added
    BY <1>0 DEF AuthTypeOK, TaskOK
  <2>3. ASSUME NEW u \in Threads, wpc'[u] = "running"
        PROVE  /\ wpc[u] = "running" /\ task[u] \in 1 .. added /\ task'[u] = task[u]
               /\ InCall(u)' <=> InCall(u)
               /\ InCall(u) => call'[u] = call[u]
               /\ HasRow(Asked(task[u]))' <=> HasRow(Asked(task[u]))
    BY <1>1, <1>5, <2>3 DEF InCall, HasRow, TaskOK
  <2>4. ASSUME NEW u \in Threads, wpc'[u] = "running", Due(task[u])'
        PROVE  /\ call'[u] \notin {"Insert", "GetPendingRequests"}
               /\ call'[u] = "QueryExist" => result'[u] \in {Pending, 1}
               /\ call'[u] = "VerifyUser" =>
                     result'[u] \in {Pending, IF HasRow(Asked(task[u]))' THEN 1 ELSE 0}
               /\ ~InCall(u)' => Seen(task[u])'
    <3>1. Due(task[u]) /\ (Seen(task[u])' <=> Seen(task[u]))
      BY <1>1, <2>1, <2>3, <2>4
    <3> QED BY <1>0, <1>1, <2>3, <2>4, <3>1 DEF SeenSoFar, InCall
  <2> QED BY <1>0, <1>1, <2>1, <2>2, <2>4 DEF SeenSoFar
<1> QED BY <1>6, <1>7, <1>9, <1>13, <1>14, <1>15, <1>16 DEF AuthInv

LEMMA AddSteps ==
    ASSUME AuthInv, TaskOK, AddRequest \/ \E t \in Threads : AddPending(t)
    PROVE  AuthInv'
<1>0. AuthTypeOK /\ Holders
  BY DEF AuthInv
<1>1. CASE AddRequest
  <2>1. /\ script # <<>> /\ TP!AddTask /\ script' = Tail(script)
        /\ request' = Append(request, [q |-> Head(script), known |-> Registered])
        /\ UNCHANGED <<vars, call, result, users, reply, defaulted>>
    BY <1>1 DEF AddRequest
  <2>2. Head(script) \in Requests /\ script' \in Seq(Requests)
    BY <1>0, <2>1 DEF AuthTypeOK
  <2>3. Registered \subseteq Names /\ \A n \in Registered : users[n] # NoRow
    <3>1. Registered \subseteq Names
      BY DEF Registered
    <3>2. ASSUME NEW n \in Registered PROVE users[n] # NoRow
      <4>1. PICK k \in finished : /\ reply[k].outcome = "success"
                                  /\ request[k].q.op = "register" /\ request[k].q.name = n
        BY DEF Registered
      <4>2. k \in 1 .. added
        BY <1>0 DEF AuthTypeOK, TaskOK
      <4>3. Holds(k)
        BY <4>1 DEF Holds, Answered, Asked
      <4> QED BY <1>0, <4>1, <4>2, <4>3 DEF Holders, HasRow, Asked
    <3> QED BY <3>1, <3>2
  <2> DEFINE x == [q |-> Head(script), known |-> Registered]
  <2>4. /\ x \in [q : Requests \cup {PendingTask}, known : SUBSET Names]
        /\ x.known = Registered
    BY <2>2, <2>3
  <2> HIDE DEF x
  <2> QED BY ZenonT(30), <1>0, <2>1, <2>2, <2>3, <2>4, AddKeeps DEF x, AuthTypeOK
<1>2. ASSUME NEW t \in Threads, AddPending(t) PROVE AuthInv'
  <2> DEFINE x == [q |-> PendingTask, known |-> {}]
  <2>1. /\ call[t] = "AddTask" /\ TP!AddTask /\ request' = Append(request, x)
        /\ call' = [call EXCEPT ![t] = "done"] /\ script' = script
        /\ UNCHANGED <<vars, result, users, reply, defaulted>>
    BY <1>2 DEF AddPending
  <2>2. /\ x \in [q : Requests \cup {PendingTask}, known : SUBSET Names]
        /\ x.known = {}
    OBVIOUS
  <2> HIDE DEF x
  <2>3. /\ call' \in [Threads -> {"QueryExist", "Insert", "VerifyUser", "FindByUsername",
                                  "GetPendingRequests", "AddTask", "done"}]
        /\ \A u \in Threads : call'[u] = call[u] \/ (call[u] = "AddTask" /\ call'[u] = "done")
        /\ script' \in Seq(Requests)
    BY <1>0, <2>1 DEF AuthTypeOK
  <2> QED BY <2>1, <2>2, <2>3, AddKeeps
<1> QED BY <1>1, <1>2

----------------------------------------------------------------------------
(* A step of the service.                                                  *)

LEMMA NextAuthInv ==
    AuthInv /\ TypeOK /\ TaskOK /\ QueueOK /\ [AuthNext]_allVars => AuthInv'
<1> SUFFICES ASSUME AuthInv, TypeOK, TaskOK, QueueOK, [AuthNext]_allVars PROVE AuthInv'
  OBVIOUS
<1>1. CASE UNCHANGED allVars
  <2>1. /\ UNCHANGED <<authVars, task, added, started, finished, wpc, pc>>
    BY <1>1 DEF allVars, vars, poolVars
  <2> QED BY <2>1, QuietKeeps DEF AuthInv, Agree, InCall, authVars
<1>2. CASE OpenPool \/ CloseConns \/ CloseWorkers
  BY <1>2, QuietSteps
<1>3. CASE AddRequest
  BY <1>3, AddSteps
<1>4. ASSUME NEW t \in Threads, OtherWork(t) \/ CallGetConn(t) \/ CallFreeConn(t) PROVE AuthInv'
  BY <1>4, QuietSteps
<1>5. ASSUME NEW t \in Threads, CallBusy(t) \/ CallReturns(t) PROVE AuthInv'
  BY <1>5, ReturnSteps
<1>6. ASSUME NEW t \in Threads, Query(t) \/ QueryThrows(t) PROVE AuthInv'
  BY <1>6, QuerySteps
<1>7. ASSUME NEW t \in Threads, TakeRequest(t) PROVE AuthInv'
  BY <1>7, TakeKeeps
<1>8. ASSUME NEW t \in Threads, FinishRequest(t) PROVE AuthInv'
  BY <1>8, FinishKeeps
<1>9. ASSUME NEW t \in Threads, AddPending(t) PROVE AuthInv'
  BY <1>9, AddSteps
<1> QED BY <1>1, <1>2, <1>3, <1>4, <1>5, <1>6, <1>7, <1>8, <1>9 DEF AuthNext

----------------------------------------------------------------------------
(* The composition.                                                        *)

LEMMA ConnSteps == [AuthNext]_allVars => [Next]_vars
<1> SUFFICES ASSUME [AuthNext]_allVars PROVE [Next]_vars
  OBVIOUS
<1>1. CASE OpenPool
  BY <1>1 DEF OpenPool, Next
<1>2. CASE AddRequest \/ CloseWorkers \/ UNCHANGED allVars
  BY <1>2 DEF AddRequest, CloseWorkers, allVars
<1>3. CASE CloseConns
  BY <1>3 DEF CloseConns, Next
<1>4. ASSUME NEW t \in Threads,
             \/ TakeRequest(t) \/ FinishRequest(t) \/ AddPending(t) \/ OtherWork(t)
             \/ Query(t) \/ QueryThrows(t)
      PROVE  UNCHANGED vars
  BY ZenonT(30), <1>4 DEF TakeRequest, FinishRequest, AddPending, OtherWork, Query, QueryThrows
<1>5. ASSUME NEW t \in Threads,
             CallBusy(t) \/ CallGetConn(t) \/ CallFreeConn(t) \/ CallReturns(t)
      PROVE  Next
  BY <1>5 DEF CallBusy, CallGetConn, CallFreeConn, CallReturns, Next, Thread
<1> QED BY <1>1, <1>2, <1>3, <1>4, <1>5 DEF AuthNext

\* The connections behind the service behave as SqlConnPool says.
THEOREM ConnsAreAPool == AuthSpec => Spec
<1>1. AuthInit => Init
  BY DEF AuthInit
<1> QED BY <1>1, ConnSteps, PTL DEF AuthSpec, Spec

LEMMA WorkerSteps == [AuthNext]_allVars => [TP!Next]_(TP!vars)
<1> SUFFICES ASSUME [AuthNext]_allVars PROVE [TP!Next]_(TP!vars)
  OBVIOUS
<1>1. CASE OpenPool \/ CloseConns \/ UNCHANGED allVars
  BY <1>1 DEF OpenPool, CloseConns, allVars, poolVars, TP!vars
<1>2. CASE AddRequest
  BY <1>2 DEF AddRequest, TP!Next
<1>3. CASE CloseWorkers
  BY <1>3 DEF CloseWorkers, TP!Next
<1>4. ASSUME NEW t \in Threads,
             TakeRequest(t) \/ FinishRequest(t) \/ AddPending(t) \/ OtherWork(t)
      PROVE  TP!Next
  BY <1>4 DEF TakeRequest, FinishRequest, AddPending, OtherWork, TP!Next, TP!Work
<1>5. ASSUME NEW t \in Threads,
             \/ CallBusy(t) \/ CallGetConn(t) \/ CallFreeConn(t) \/ CallReturns(t)
             \/ Query(t) \/ QueryThrows(t)
      PROVE  UNCHANGED TP!vars
  BY ZenonT(30), <1>5 DEF CallBusy, CallGetConn, CallFreeConn, CallReturns, Query, QueryThrows,
              poolVars, TP!vars
<1> QED BY <1>1, <1>2, <1>3, <1>4, <1>5 DEF AuthNext

\* The workers behind the service behave as ThreadPool says.
THEOREM WorkersAreAPool == AuthSpec => TP!Spec
<1>1. AuthInit => TP!Init
  BY DEF AuthInit
<1> QED BY <1>1, WorkerSteps, PTL DEF AuthSpec, TP!Spec

----------------------------------------------------------------------------
(* The connections.  ExclusiveOwnership and NoUseAfterClose need to know   *)
(* which program points hold a connection, and what Init has put in the    *)
(* queue so far.  SemWaitGuaranteesConn needs the balance of credits: the  *)
(* semaphore, the threads it let through and the thread between push and   *)
(* post account exactly for the queue and the connections that failed to   *)
(* open.                                                                   *)

\* A thread that has pushed and not yet posted (it holds mtx_).
Unposted == IF mtx_ = NoThread THEN 0 ELSE 1

Ownership ==
    /\ ExclusiveOwnership
    /\ NoUseAfterClose
    /\ \A t \in Threads : pc[t] = "use" <=> conn[t] # NoConn
    /\ \A t \in Threads : pc[t] = "post" <=> mtx_ = t
    /\ failed \subseteq attempted
    /\ phase = "init" =>
        /\ deleted = {}
        /\ \A t \in Threads : pc[t] = "idle"
        /\ Queued \subseteq attempted

Credits ==
    /\ phase = "init" => Len(conn_queue_) = Cardinality(attempted \ failed)
    /\ phase = "run" =>
        /\ semId_ + Cardinality(LetThrough) + Unposted = Len(conn_queue_) + Cardinality(failed)
        /\ failed = {} => \A t \in Threads : pc[t] # "undefined"

ConnInv == TypeOK /\ Ownership /\ Credits

----------------------------------------------------------------------------
\* What Append and Tail do to the connections in the queue (push and pop).
LEMMA PushFacts ==
    ASSUME NEW q \in Seq(Conns), NEW x \in Conns
    PROVE  /\ Append(q, x) \in Seq(Conns)
           /\ Len(Append(q, x)) = Len(q) + 1
           /\ \A i \in 1..Len(q) : Append(q, x)[i] = q[i]
           /\ Append(q, x)[Len(q) + 1] = x
OBVIOUS

LEMMA PopFacts ==
    ASSUME NEW q \in Seq(Conns), q # <<>>
    PROVE  /\ Tail(q) \in Seq(Conns)
           /\ Len(q) \in Nat /\ Len(q) >= 1
           /\ Len(Tail(q)) = Len(q) - 1
           /\ Head(q) = q[1] /\ Head(q) \in Conns
           /\ \A i \in 1..Len(Tail(q)) : Tail(q)[i] = q[i + 1]
OBVIOUS

LEMMA InitConnInv == Init => ConnInv
<1> SUFFICES ASSUME Init PROVE ConnInv
  OBVIOUS
<1> USE DEF Init
<1>1. TypeOK
  BY DEF TypeOK
<1>2. Ownership
  BY PoolAssumption DEF Ownership, ExclusiveOwnership, NoUseAfterClose, Queued
<1>3. Credits
  BY FS_EmptySet DEF Credits
<1> QED BY <1>1, <1>2, <1>3 DEF ConnInv

LEMMA NextTypeOK ==
    ASSUME TypeOK, Ownership, [Next]_vars
    PROVE  TypeOK'
<1> USE DEF TypeOK
<1>1. ASSUME NEW c \in Conns, InitConnect(c) PROVE TypeOK'
  <2>1. Append(conn_queue_, c) \in Seq(Conns)
    BY PushFacts
  <2> QED BY <1>1, <2>1 DEF InitConnect
<1>2. CASE InitSem
  BY <1>2, PoolAssumption, FS_CardinalityType DEF InitSem
<1>3. ASSUME NEW t \in Threads, Thread(t) PROVE TypeOK'
  <2>1. CASE GetConnBusy(t) \/ GetConnCheck(t) \/ SemWait(t) \/ FreeConnPost(t)
    BY <2>1 DEF GetConnBusy, GetConnCheck, SemWait, FreeConnPost, vars
  <2>2. CASE Pop(t)
    <3>1. CASE conn_queue_ = <<>>
      BY <2>2, <3>1 DEF Pop
    <3>2. CASE conn_queue_ # <<>>
      <4>1. Tail(conn_queue_) \in Seq(Conns) /\ Head(conn_queue_) \in Conns
        BY <3>2, PopFacts
      <4> QED BY <2>2, <3>2, <4>1 DEF Pop
    <3> QED BY <3>1, <3>2
  <2>3. CASE FreeConnPush(t)
    <3>1. conn[t] \in Conns
      BY <2>3 DEF FreeConnPush, Ownership
    <3> QED BY <2>3, <3>1 DEF FreeConnPush
  <2> QED BY <1>3, <2>1, <2>2, <2>3 DEF Thread
<1>4. CASE ClosePool
  BY <1>4 DEF ClosePool, Queued
<1>5. CASE UNCHANGED vars
  BY <1>5 DEF vars
<1> QED BY <1>1, <1>2, <1>3, <1>4, <1>5 DEF Next

LEMMA NextOwnership ==
    ASSUME TypeOK, Ownership, [Next]_vars
    PROVE  Ownership'
<1> USE PoolAssumption DEF TypeOK, Ownership, ExclusiveOwnership, NoUseAfterClose, Queued
<1>1. ASSUME NEW c \in Conns, InitConnect(c) PROVE Ownership'
  <2>1. CASE conn_queue_' = Append(conn_queue_, c) /\ UNCHANGED failed
    BY <1>1, <2>1, PushFacts DEF InitConnect
  <2>2. CASE failed' = failed \cup {c} /\ UNCHANGED conn_queue_
    BY <1>1, <2>2 DEF InitConnect
  <2> QED BY <1>1, <2>1, <2>2 DEF InitConnect
<1>2. CASE InitSem
  BY <1>2 DEF InitSem
<1>3. ASSUME NEW t \in Threads, Thread(t) PROVE Ownership'
  <2>1. CASE GetConnBusy(t)
    BY <2>1 DEF GetConnBusy, vars
  <2>2. CASE GetConnCheck(t)
    BY <2>2 DEF GetConnCheck
  <2>3. CASE SemWait(t)
    BY <2>3 DEF SemWait
  <2>4. CASE Pop(t)
    <3>1. CASE conn_queue_ # <<>>
      <4> DEFINE q == conn_queue_
      <4>1. /\ conn' = [conn EXCEPT ![t] = q[1]]
            /\ conn_queue_' = Tail(q)
            /\ pc' = [pc EXCEPT ![t] = "use"]
            /\ q[1] \in Conns /\ q[1] \in Queued /\ 1 \in 1..Len(q)
        BY <2>4, <3>1, PopFacts DEF Pop
      <4>2. \A i \in 1..Len(Tail(q)) : i + 1 \in 1..Len(q) /\ Tail(q)[i] = q[i + 1]
        BY <3>1, PopFacts
      <4>3. Queued' \subseteq Queued /\ q[1] \notin Queued'
        BY <4>1, <4>2, <3>1, PopFacts
      <4>4. ExclusiveOwnership'
        BY <4>1, <4>2, <4>3, <3>1, PopFacts
      <4>5. NoUseAfterClose'
        BY <2>4, <4>1, <4>3 DEF Pop
      <4>6. \A u \in Threads : pc'[u] = "use" <=> conn'[u] # NoConn
        BY <2>4, <4>1 DEF Pop
      <4> QED BY <2>4, <4>1, <4>3, <4>4, <4>5, <4>6 DEF Pop
    <3>2. CASE conn_queue_ = <<>>
      BY <2>4, <3>2 DEF Pop
    <3> QED BY <3>1, <3>2
  <2>5. CASE FreeConnPush(t)
    <3>1. conn[t] \in Conns
      BY <2>5 DEF FreeConnPush
    <3> QED BY <2>5, <3>1, PushFacts DEF FreeConnPush
  <2>6. CASE FreeConnPost(t)
    BY <2>6 DEF FreeConnPost
  <2> QED BY <1>3, <2>1, <2>2, <2>3, <2>4, <2>5, <2>6 DEF Thread
<1>4. CASE ClosePool
  BY <1>4 DEF ClosePool
<1>5. CASE UNCHANGED vars
  BY <1>5 DEF vars
<1> QED BY <1>1, <1>2, <1>3, <1>4, <1>5 DEF Next

\* Threads enter and leave the window between sem_wait and pop one at a time.
LEMMA LetThroughCount ==
    ASSUME TypeOK
    PROVE  /\ Cardinality(LetThrough) \in Nat /\ Cardinality(failed) \in Nat
           /\ LetThrough # {} => Cardinality(LetThrough) >= 1
           /\ \A t \in Threads :
                (LetThrough' = LetThrough \cup {t} /\ t \notin LetThrough)
                    => Cardinality(LetThrough') = Cardinality(LetThrough) + 1
           /\ \A t \in Threads :
                (LetThrough' = LetThrough \ {t} /\ t \in LetThrough)
                    => Cardinality(LetThrough') = Cardinality(LetThrough) - 1
<1>1. IsFiniteSet(LetThrough)
  BY PoolAssumption, FS_Subset DEF LetThrough
<1>2. IsFiniteSet(failed)
  BY PoolAssumption, FS_Subset DEF TypeOK
<1>3. LetThrough # {} => Cardinality(LetThrough) # 0
  BY <1>1, FS_EmptySet
<1>4. Cardinality(LetThrough) \in Nat /\ Cardinality(failed) \in Nat
  BY <1>1, <1>2, FS_CardinalityType
<1> QED BY <1>1, <1>3, <1>4, FS_AddElement, FS_RemoveElement

LEMMA NextCredits ==
    ASSUME TypeOK, Ownership, Credits, [Next]_vars
    PROVE  Credits'
<1>0. /\ conn_queue_ \in Seq(Conns) /\ Len(conn_queue_) \in Nat
      /\ semId_ \in Nat
      /\ pc \in [Threads -> {"idle", "sem_wait", "pop", "use", "post", "undefined"}]
      /\ Cardinality(LetThrough) \in Nat /\ Cardinality(failed) \in Nat
  BY LetThroughCount DEF TypeOK
<1>1. ASSUME NEW c \in Conns, InitConnect(c) PROVE Credits'
  <2>0. IsFiniteSet(attempted \ failed) /\ c \notin attempted \ failed
    BY <1>1, PoolAssumption, FS_Subset DEF InitConnect, TypeOK
  <2>1. CASE conn_queue_' = Append(conn_queue_, c) /\ UNCHANGED failed
    <3>1. (attempted \ failed)' = (attempted \ failed) \cup {c}
      BY <1>1, <2>1 DEF InitConnect, Ownership
    <3>2. Cardinality((attempted \ failed)') = Cardinality(attempted \ failed) + 1
      BY <3>1, <2>0, FS_AddElement
    <3> QED BY <1>1, <2>1, <3>2, <1>0 DEF InitConnect, Credits
  <2>2. CASE failed' = failed \cup {c} /\ UNCHANGED conn_queue_
    <3>1. (attempted \ failed)' = attempted \ failed
      BY <1>1, <2>2 DEF InitConnect
    <3> QED BY <1>1, <2>2, <3>1 DEF InitConnect, Credits
  <2> QED BY <1>1, <2>1, <2>2 DEF InitConnect
<1>2. CASE InitSem
  <2>1. Cardinality(attempted \ failed) = Cardinality(Conns) - Cardinality(failed)
    <3>1. attempted = Conns /\ Conns \cap failed = failed
      BY <1>2 DEF InitSem, TypeOK
    <3> QED BY <3>1, PoolAssumption, FS_Difference
  <2>2. LetThrough' = {} /\ \A t \in Threads : pc'[t] # "undefined"
    BY <1>2 DEF InitSem, Ownership, LetThrough
  <2>3. Unposted' = 0
    BY <1>2 DEF InitSem, Ownership, Unposted, TypeOK
  <2>4. Cardinality(LetThrough') = 0 /\ Cardinality(Conns) \in Nat
    BY <2>2, FS_EmptySet, FS_CardinalityType, PoolAssumption
  <2>5. Len(conn_queue_) = Cardinality(Conns) - Cardinality(failed)
    BY <1>2, <2>1 DEF InitSem, Credits
  <2> QED BY <1>2, <2>2, <2>3, <2>4, <2>5, <1>0 DEF InitSem, Credits
<1>3. ASSUME NEW t \in Threads, Thread(t) PROVE Credits'
  <2>0. t # NoThread /\ (mtx_ = NoThread => Unposted = 0)
    BY PoolAssumption DEF Unposted
  <2>1. CASE GetConnBusy(t)
    BY <2>1 DEF GetConnBusy, vars, Credits, LetThrough, Unposted
  <2>2. CASE GetConnCheck(t)
    <3>1. LetThrough' = LetThrough
      BY <2>2, <1>0 DEF GetConnCheck, LetThrough
    <3> QED BY <2>2, <3>1, <1>0 DEF GetConnCheck, Credits, Unposted
  <2>3. CASE SemWait(t)
    <3>1. LetThrough' = LetThrough \cup {t} /\ t \notin LetThrough
      BY <2>3, <1>0 DEF SemWait, LetThrough
    <3>2. Cardinality(LetThrough') = Cardinality(LetThrough) + 1
      BY <3>1, LetThroughCount
    <3> QED BY <2>3, <3>2, <1>0 DEF SemWait, Credits, Unposted
  <2>4. CASE Pop(t)
    <3>1. t \in LetThrough /\ Cardinality(LetThrough) >= 1 /\ phase # "init"
      BY <2>4, LetThroughCount DEF Pop, LetThrough, Ownership
    <3>2. CASE conn_queue_ # <<>>
      <4>1. Len(conn_queue_') = Len(conn_queue_) - 1
        BY <2>4, <3>2, PopFacts, <1>0 DEF Pop
      <4>2. LetThrough' = LetThrough \ {t}
        BY <2>4, <3>2, <1>0 DEF Pop, LetThrough
      <4>3. Cardinality(LetThrough') = Cardinality(LetThrough) - 1
        BY <3>1, <4>2, LetThroughCount
      <4>4. /\ UNCHANGED <<semId_, mtx_, failed, phase>>
            /\ pc' = [pc EXCEPT ![t] = "use"]
        BY <2>4, <3>2 DEF Pop
      <4>5. \A u \in Threads : pc[u] # "undefined" => pc'[u] # "undefined"
        BY <4>4, <1>0
      <4> QED BY <3>1, <4>1, <4>3, <4>4, <4>5, <1>0 DEF Credits, Unposted
    <3>3. CASE conn_queue_ = <<>>
      <4>1. LetThrough' = LetThrough
        BY <2>4, <3>3, <1>0 DEF Pop, LetThrough
      <4>2. phase = "run" => Cardinality(failed) >= 1
        BY <2>4, <3>1, <3>3, <2>0, <1>0 DEF Pop, Credits
      <4>3. phase = "run" => failed # {}
        BY <4>2, FS_EmptySet
      <4> QED BY <2>4, <3>1, <3>3, <4>1, <4>3, <1>0 DEF Pop, Credits, Unposted
    <3> QED BY <3>2, <3>3
  <2>5. CASE FreeConnPush(t)
    <3>1. LetThrough' = LetThrough
      BY <2>5, <1>0 DEF FreeConnPush, LetThrough
    <3>2. Len(conn_queue_') = Len(conn_queue_) + 1
      BY <2>5, <1>0 DEF FreeConnPush
    <3>3. Unposted = 0 /\ Unposted' = 1
      BY <2>5, <2>0 DEF FreeConnPush, Unposted
    <3>4. phase # "init"
      BY <2>5 DEF FreeConnPush, Ownership
    <3> QED BY <2>5, <3>1, <3>2, <3>3, <3>4, <1>0 DEF FreeConnPush, Credits
  <2>6. CASE FreeConnPost(t)
    <3>1. LetThrough' = LetThrough
      BY <2>6, <1>0 DEF FreeConnPost, LetThrough
    <3>2. Unposted = 1 /\ Unposted' = 0
      BY <2>6, <2>0 DEF FreeConnPost, Unposted, Ownership
    <3> QED BY <2>6, <3>1, <3>2, <1>0 DEF FreeConnPost, Credits
  <2> QED BY <1>3, <2>1, <2>2, <2>3, <2>4, <2>5, <2>6 DEF Thread
<1>4. CASE ClosePool
  BY <1>4 DEF ClosePool, Credits
<1>5. CASE UNCHANGED vars
  BY <1>5 DEF vars, Credits, LetThrough, Unposted
<1> QED BY <1>1, <1>2, <1>3, <1>4, <1>5 DEF Next

----------------------------------------------------------------------------
\* The inductive invariant: types, who owns which connection, and the balance
\* of credits hold in every reachable state of the pool.
THEOREM ConnInvariant == Spec => []ConnInv
<1>1. ConnInv /\ [Next]_vars => ConnInv'
  BY NextTypeOK, NextOwnership, NextCredits DEF ConnInv
<1> QED BY InitConnInv, <1>1, PTL DEF Spec

\* Type correctness of the members of SqlConnPool and of the guards.
THEOREM ConnTypeCorrect == Spec => []TypeOK
BY ConnInvariant, PTL DEF ConnInv

\* No connection is ever in two guards, or in a guard and in the queue, however
\* many connections failed to open and whenever ClosePool runs.
THEOREM OwnershipIsExclusive == Spec => []ExclusiveOwnership
<1>1. ConnInv => ExclusiveOwnership
  BY DEF ConnInv, Ownership
<1> QED BY <1>1, ConnInvariant, PTL

\* A connection deleted by ClosePool is never in use and never handed out again.
THEOREM CloseIsSafe == Spec => []NoUseAfterClose
<1>1. ConnInv => NoUseAfterClose
  BY DEF ConnInv, Ownership
<1> QED BY <1>1, ConnInvariant, PTL

\* In an open pool at most as many calls of front() meet an empty queue as connections
\* failed to open, and none in a pool that came up complete, for any number of threads
\* and connections.
THEOREM PopsAreCovered == Spec => []SemWaitGuaranteesConn
<1>1. ConnInv => SemWaitGuaranteesConn
  <2> SUFFICES ASSUME ConnInv, phase # "closed"
               PROVE  /\ Cardinality(LetThrough) <= Len(conn_queue_) + Cardinality(failed)
                      /\ failed = {} => \A t \in Threads : pc[t] # "undefined"
    BY DEF SemWaitGuaranteesConn
  <2>0. /\ TypeOK /\ Cardinality(LetThrough) \in Nat /\ Len(conn_queue_) \in Nat
        /\ semId_ \in Nat /\ Unposted \in Nat /\ Cardinality(failed) \in Nat
    BY LetThroughCount DEF ConnInv, TypeOK, Unposted
  <2>1. CASE phase = "init"
    <3>1. LetThrough = {} /\ \A t \in Threads : pc[t] # "undefined"
      BY <2>1 DEF ConnInv, Ownership, LetThrough
    <3> QED BY <3>1, <2>0, FS_EmptySet
  <2>2. CASE phase = "run"
    BY <2>2, <2>0 DEF ConnInv, Credits
  <2> QED BY <2>1, <2>2, <2>0 DEF TypeOK
<1> QED BY <1>1, ConnInvariant, PTL

----------------------------------------------------------------------------
(* The workers.  OneWorkerPerTask is not inductive: that a task taken from *)
(* the queue is not already being run needs that running tasks come from   *)
(* started, and that started and the queue together are 1, 2, ..., added.  *)

\* Every task that a worker runs was started.
RunningWasStarted ==
    \A w \in Threads : task[w] # 0 => \E i \in 1 .. Len(started) : started[i] = task[w]

\* The inductive invariant.
WorkInv ==
    /\ TP!TypeOK /\ TP!StartedInOrder /\ TP!NoSleepWithWork /\ RunningWasStarted /\ TP!OneWorkerPerTask

\* Moving the head of the queue to the end of started leaves their concatenation alone.
LEMMA MoveHead ==
    ASSUME NEW S, NEW a \in Seq(S), NEW b \in Seq(S), b # <<>>
    PROVE  Append(a, Head(b)) \o Tail(b) = a \o b
  OBVIOUS

\* Appending commutes with concatenation.
LEMMA AppendRight ==
    ASSUME NEW S, NEW a \in Seq(S), NEW b \in Seq(S), NEW x \in S
    PROVE  a \o Append(b, x) = Append(a \o b, x)
  OBVIOUS

\* 1, 2, ..., n followed by n + 1.
LEMMA CountUp ==
    ASSUME NEW n \in Nat
    PROVE  Append([k \in 1 .. n |-> k], n + 1) = [k \in 1 .. n + 1 |-> k]
  OBVIOUS

----------------------------------------------------------------------------
LEMMA InitWorkInv ==
    ASSUME TP!ThreadPoolAssumption
    PROVE  TP!Init => WorkInv
  <1> SUFFICES ASSUME TP!Init
               PROVE  WorkInv
    OBVIOUS
  <1>1. TP!TypeOK
    <2>1. 0 \in 0 .. MaxTasks
      BY DEF TP!ThreadPoolAssumption
    <2>2. /\ wpc \in [Threads -> {"loop", "running", "waiting", "exited"}]
          /\ task \in [Threads -> 0 .. MaxTasks]
          /\ \A w \in Threads : wpc[w] = "loop" /\ task[w] = 0
      BY <2>1 DEF TP!Init
    <2>3. tasks \in Seq(1 .. MaxTasks) /\ started \in Seq(1 .. MaxTasks)
      BY DEF TP!Init
    <2> QED
      BY <2>1, <2>2, <2>3 DEF TP!Init, TP!TypeOK
  <1>2. TP!StartedInOrder
    <2>1. \A a, b : a = <<>> /\ b = <<>> => a \o b = [k \in 1 .. 0 |-> k]
      OBVIOUS
    <2> QED
      BY <2>1 DEF TP!Init, TP!StartedInOrder
  <1>3. TP!NoSleepWithWork /\ RunningWasStarted /\ TP!OneWorkerPerTask
    BY DEF TP!Init, TP!NoSleepWithWork, RunningWasStarted, TP!OneWorkerPerTask
  <1> QED
    BY <1>1, <1>2, <1>3 DEF WorkInv

\* What StartedInOrder says of one position of started, and of the head of the queue.
LEMMA Positions ==
    ASSUME TP!TypeOK, TP!StartedInOrder
    PROVE  /\ \A i \in 1 .. Len(started) : started[i] = i
           /\ tasks # <<>> => Head(tasks) = Len(started) + 1
  <1> DEFINE all == started \o tasks
  <1>1. Len(all) = Len(started) + Len(tasks) /\ Len(all) = added
    BY DEF TP!TypeOK, TP!StartedInOrder
  <1>2. \A i \in 1 .. Len(all) : all[i] = i
    BY <1>1 DEF TP!TypeOK, TP!StartedInOrder
  <1>3. \A i \in 1 .. Len(started) : all[i] = started[i]
    BY DEF TP!TypeOK
  <1>4. tasks # <<>> => all[Len(started) + 1] = Head(tasks)
    BY DEF TP!TypeOK
  <1>5. Len(started) \in Nat /\ Len(tasks) \in Nat /\ (tasks # <<>> => Len(tasks) > 0)
    BY DEF TP!TypeOK
  <1> QED
    BY <1>1, <1>2, <1>3, <1>4, <1>5

\* AddTask appends the next number and wakes a worker that waits.
LEMMA AddTaskKeeps ==
    ASSUME TP!ThreadPoolAssumption, WorkInv, TP!AddTask
    PROVE  WorkInv'
  <1> USE DEF WorkInv
  <1>1. added + 1 \in 1 .. MaxTasks
    BY DEF TP!ThreadPoolAssumption, TP!AddTask, TP!TypeOK
  <1>2. TP!TypeOK'
    <2>1. wpc' \in [Threads -> {"loop", "running", "waiting", "exited"}]
      BY DEF TP!AddTask, TP!NotifyOne, TP!TypeOK
    <2>2. \A w \in Threads : (wpc'[w] = "running") <=> (task[w] # 0)
      BY DEF TP!AddTask, TP!NotifyOne, TP!TypeOK
    <2>3. tasks' \in Seq(1 .. MaxTasks)
      BY <1>1 DEF TP!AddTask, TP!TypeOK
    <2> QED
      BY <1>1, <2>1, <2>2, <2>3 DEF TP!AddTask, TP!TypeOK
  <1>3. TP!StartedInOrder'
    <2>1. started \o Append(tasks, added + 1) = Append(started \o tasks, added + 1)
      BY <1>1, AppendRight DEF TP!TypeOK
    <2>2. added \in Nat
      BY DEF TP!TypeOK
    <2> QED
      BY <2>1, <2>2, CountUp DEF TP!AddTask, TP!StartedInOrder
  <1>4. TP!NoSleepWithWork'
    BY DEF TP!ThreadPoolAssumption, TP!AddTask, TP!NotifyOne, TP!NoSleepWithWork, TP!TypeOK
  <1>5. RunningWasStarted' /\ TP!OneWorkerPerTask'
    BY DEF TP!AddTask, RunningWasStarted, TP!OneWorkerPerTask
  <1> QED
    BY <1>2, <1>3, <1>4, <1>5

\* Take starts the head of the queue, which no worker runs yet.
LEMMA TakeTaskKeeps ==
    ASSUME WorkInv, NEW w \in Threads, TP!Take(w)
    PROVE  WorkInv'
  <1> USE DEF WorkInv
  <1>1. /\ Head(tasks) \in 1 .. MaxTasks /\ Tail(tasks) \in Seq(1 .. MaxTasks)
        /\ started \in Seq(1 .. MaxTasks) /\ tasks \in Seq(1 .. MaxTasks) /\ tasks # <<>>
    <2>1. /\ started \in Seq(1 .. MaxTasks) /\ tasks \in Seq(1 .. MaxTasks)
          /\ tasks # <<>>
      BY DEF TP!Take, TP!TypeOK
    <2>2. \A S : \A b \in Seq(S) : b # <<>> => Head(b) \in S /\ Tail(b) \in Seq(S)
      OBVIOUS
    <2> QED
      BY <2>1, <2>2
  <1>2. TP!TypeOK'
    BY <1>1 DEF TP!Take, TP!TypeOK
  <1>3. TP!StartedInOrder'
    <2>1. Append(started, Head(tasks)) \o Tail(tasks) = started \o tasks
      BY <1>1, MoveHead
    <2> QED
      BY <2>1 DEF TP!Take, TP!StartedInOrder
  <1>4. TP!NoSleepWithWork'
    BY DEF TP!Take, TP!NoSleepWithWork, TP!TypeOK
  <1>5. /\ started' = Append(started, Head(tasks))
        /\ task' = [task EXCEPT ![w] = Head(tasks)]
        /\ task \in [Threads -> 0 .. MaxTasks]
    BY DEF TP!Take, TP!TypeOK
  <1>6. /\ Len(started') = Len(started) + 1 /\ Len(started) \in Nat
        /\ started'[Len(started) + 1] = Head(tasks)
        /\ \A i \in 1 .. Len(started) : started'[i] = started[i]
    BY <1>1, <1>5
  <1>7. RunningWasStarted'
    <2> SUFFICES ASSUME NEW v \in Threads, task'[v] # 0
                 PROVE  \E i \in 1 .. Len(started') : started'[i] = task'[v]
      BY DEF RunningWasStarted
    <2>1. CASE v = w
      <3>1. task'[v] = Head(tasks)
        BY <1>5, <2>1
      <3> QED
        BY <1>6, <3>1
    <2>2. CASE v # w
      <3>1. task'[v] = task[v]
        BY <1>5, <2>2
      <3>2. PICK i \in 1 .. Len(started) : started[i] = task[v]
        BY <3>1 DEF RunningWasStarted
      <3>3. i \in 1 .. Len(started') /\ started'[i] = task'[v]
        BY <1>6, <3>1, <3>2
      <3> QED
        BY <3>3
    <2> QED
      BY <2>1, <2>2
  <1>8. \A v \in Threads : task[v] # Head(tasks)
    <2>1. /\ \A i \in 1 .. Len(started) : started[i] = i
          /\ Head(tasks) = Len(started) + 1
      BY <1>1, Positions
    <2>2. \A v \in Threads : task[v] # 0 => task[v] \in 1 .. Len(started)
      BY <2>1 DEF RunningWasStarted
    <2> QED
      BY <1>1, <1>6, <2>1, <2>2
  <1>9. TP!OneWorkerPerTask'
    BY <1>5, <1>8 DEF TP!OneWorkerPerTask
  <1> QED
    BY <1>2, <1>3, <1>4, <1>7, <1>9

----------------------------------------------------------------------------
LEMMA NextWorkInv ==
    ASSUME TP!ThreadPoolAssumption
    PROVE  WorkInv /\ [TP!Next]_(TP!vars) => WorkInv'
  <1> SUFFICES ASSUME WorkInv, [TP!Next]_(TP!vars)
               PROVE  WorkInv'
    OBVIOUS
  <1> USE DEF WorkInv
  <1>1. CASE TP!AddTask
    BY <1>1, AddTaskKeeps
  <1>2. ASSUME NEW w \in Threads, TP!Take(w)
        PROVE  WorkInv'
    BY <1>2, TakeTaskKeeps
  <1>3. ASSUME NEW w \in Threads, TP!Exit(w) \/ TP!Wait(w) \/ TP!SpuriousWakeup(w)
        PROVE  WorkInv'
    <2>1. TP!TypeOK'
      BY <1>3 DEF TP!Exit, TP!Wait, TP!SpuriousWakeup, TP!TypeOK
    <2>2. TP!NoSleepWithWork'
      BY <1>3 DEF TP!Exit, TP!Wait, TP!SpuriousWakeup, TP!NoSleepWithWork, TP!TypeOK
    <2>3. TP!StartedInOrder' /\ RunningWasStarted' /\ TP!OneWorkerPerTask'
      BY <1>3 DEF TP!Exit, TP!Wait, TP!SpuriousWakeup, TP!StartedInOrder, RunningWasStarted,
                  TP!OneWorkerPerTask
    <2> QED
      BY <2>1, <2>2, <2>3
  <1>4. ASSUME NEW w \in Threads, TP!Finish(w)
        PROVE  WorkInv'
    <2>1. TP!TypeOK'
      <3>1. task[w] \in 1 .. MaxTasks
        BY <1>4 DEF TP!Finish, TP!TypeOK
      <3>2. finished' \subseteq 1 .. MaxTasks
        BY <1>4, <3>1 DEF TP!Finish, TP!TypeOK
      <3>3. /\ wpc' \in [Threads -> {"loop", "running", "waiting", "exited"}]
            /\ task' \in [Threads -> 0 .. MaxTasks]
        BY <1>4 DEF TP!ThreadPoolAssumption, TP!Finish, TP!TypeOK
      <3>4. \A v \in Threads : (wpc'[v] = "running") <=> (task'[v] # 0)
        BY <1>4 DEF TP!Finish, TP!TypeOK
      <3> QED
        BY <1>4, <3>2, <3>3, <3>4 DEF TP!Finish, TP!TypeOK
    <2>2. TP!NoSleepWithWork'
      BY <1>4 DEF TP!Finish, TP!NoSleepWithWork, TP!TypeOK
    <2>3. TP!StartedInOrder' /\ RunningWasStarted' /\ TP!OneWorkerPerTask'
      BY <1>4 DEF TP!Finish, TP!StartedInOrder, RunningWasStarted, TP!OneWorkerPerTask, TP!TypeOK
    <2> QED
      BY <2>1, <2>2, <2>3
  <1>5. CASE TP!NotifyAll
    <2>1. TP!TypeOK'
      BY <1>5 DEF TP!NotifyAll, TP!TypeOK
    <2>2. TP!NoSleepWithWork'
      BY <1>5 DEF TP!ThreadPoolAssumption, TP!NotifyAll, TP!NoSleepWithWork, TP!TypeOK
    <2>3. TP!StartedInOrder' /\ RunningWasStarted' /\ TP!OneWorkerPerTask'
      BY <1>5 DEF TP!NotifyAll, TP!StartedInOrder, RunningWasStarted, TP!OneWorkerPerTask
    <2> QED
      BY <2>1, <2>2, <2>3
  <1>6. ASSUME TP!SetClosed \/ TP!Free \/ \E w \in Threads : TP!UseFreed(w)
        PROVE  WorkInv'
    <2>1. /\ UNCHANGED <<tasks, added, wpc, task, started, finished>>
          /\ pool' \in {"open", "isClosed", "notified", "freed"} /\ dangling' \in BOOLEAN
      BY <1>6 DEF TP!SetClosed, TP!Free, TP!UseFreed, TP!TypeOK
    <2> QED
      BY <2>1 DEF TP!TypeOK, TP!StartedInOrder, TP!NoSleepWithWork, RunningWasStarted, TP!OneWorkerPerTask
  <1>7. CASE UNCHANGED TP!vars
    BY <1>7 DEF TP!vars, TP!TypeOK, TP!StartedInOrder, TP!NoSleepWithWork, RunningWasStarted,
                TP!OneWorkerPerTask
  <1> QED
    BY <1>1, <1>2, <1>3, <1>4, <1>5, <1>6, <1>7 DEF TP!Next, TP!Work

\* The inductive invariant holds in every reachable state.
THEOREM WorkInvariant ==
    ASSUME TP!ThreadPoolAssumption
    PROVE  TP!Spec => []WorkInv
  BY InitWorkInv, NextWorkInv, PTL DEF TP!Spec

\* The variables of the pool keep their types, and a worker has a task exactly
\* while it runs one.
THEOREM WorkTypeCorrect ==
    ASSUME TP!ThreadPoolAssumption
    PROVE  TP!Spec => []TP!TypeOK
  <1>1. WorkInv => TP!TypeOK
    BY DEF WorkInv
  <1> QED
    BY <1>1, WorkInvariant, PTL

\* The queue of AddTask is served in order, every task once.
THEOREM TasksStartInOrder ==
    ASSUME TP!ThreadPoolAssumption
    PROVE  TP!Spec => []TP!StartedInOrder
  <1>1. WorkInv => TP!StartedInOrder
    BY DEF WorkInv
  <1> QED
    BY <1>1, WorkInvariant, PTL

\* notify_one under the lock loses no wakeup: a task never waits while all workers do.
THEOREM NoWakeupIsLost ==
    ASSUME TP!ThreadPoolAssumption
    PROVE  TP!Spec => []TP!NoSleepWithWork
  <1>1. WorkInv => TP!NoSleepWithWork
    BY DEF WorkInv
  <1> QED
    BY <1>1, WorkInvariant, PTL

\* The worker loop never gives one task to two workers.
THEOREM TasksAreExclusive ==
    ASSUME TP!ThreadPoolAssumption
    PROVE  TP!Spec => []TP!OneWorkerPerTask
  <1>1. WorkInv => TP!OneWorkerPerTask
    BY DEF WorkInv
  <1> QED
    BY <1>1, WorkInvariant, PTL

----------------------------------------------------------------------------
(* What holds of the two parts, for the whole.                             *)

\* No two requests are on the same connection, whatever they were asked.
THEOREM RequestsHaveOwnConn == AuthSpec => []ExclusiveOwnership
BY OwnershipIsExclusive, ConnsAreAPool, PTL

\* No request uses a connection that ~Webserver has closed under it.
THEOREM RequestsSurviveClose == AuthSpec => []NoUseAfterClose
BY CloseIsSafe, ConnsAreAPool, PTL

\* A worker that sem_wait let through finds a connection, but for those Init could
\* not open.
THEOREM RequestsFindConn == AuthSpec => []SemWaitGuaranteesConn
BY PopsAreCovered, ConnsAreAPool, PTL

LEMMA TasksFromPool == WorkInv => TaskOK /\ QueueOK
<1> SUFFICES ASSUME WorkInv PROVE TaskOK /\ QueueOK
  OBVIOUS
<1>1. /\ TP!TypeOK /\ TP!StartedInOrder /\ RunningWasStarted /\ TP!OneWorkerPerTask
  BY DEF WorkInv
<1>2. /\ \A i \in 1 .. Len(started) : started[i] = i
      /\ tasks # <<>> => Head(tasks) = Len(started) + 1
  BY <1>1, Positions
<1>3. /\ started \in Seq(1 .. MaxTasks) /\ tasks \in Seq(1 .. MaxTasks) /\ added \in 0 .. MaxTasks
      /\ MaxTasks \in Nat
  BY <1>1, AuthAssumption DEF TP!TypeOK, TP!ThreadPoolAssumption
<1>4. Len(started \o tasks) = added
  BY <1>1, <1>3 DEF TP!StartedInOrder
<1>5. /\ Len(started) \in Nat /\ Len(tasks) \in Nat /\ added = Len(started) + Len(tasks)
      /\ tasks # <<>> => Len(tasks) > 0
  BY <1>3, <1>4
<1>6. \A t \in Threads : task[t] \in 0 .. Len(started)
  BY <1>1, <1>2, <1>5 DEF TP!TypeOK, RunningWasStarted
<1>7. \A s, t \in Threads : task[s] = task[t] /\ task[s] # 0 => s = t
  BY <1>1 DEF TP!OneWorkerPerTask
<1>8. /\ task \in [Threads -> 0 .. MaxTasks]
      /\ wpc \in [Threads -> {"loop", "running", "waiting", "exited"}]
      /\ \A t \in Threads : (wpc[t] = "running") <=> (task[t] # 0)
  BY <1>1 DEF TP!TypeOK
<1> QED BY <1>2, <1>3, <1>5, <1>6, <1>7, <1>8 DEF TaskOK, QueueOK

\* The inductive invariant holds in every reachable state, given what was proved of the
\* two parts.
THEOREM AuthInvariant == AuthSpec => []AuthInv
<1>1. Spec => []TypeOK
  BY ConnTypeCorrect
<1>2. TP!Spec => []WorkInv
  BY AuthAssumption, WorkInvariant
<1>3. AuthSpec => []TypeOK /\ []TaskOK /\ []QueueOK
  BY <1>1, <1>2, ConnsAreAPool, WorkersAreAPool, TasksFromPool, PTL
<1> QED BY <1>3, InitAuthInv, NextAuthInv, PTL DEF AuthSpec

\* A registration that was answered with success is the only one of its name and has
\* the row of that name, however registrations race.
THEOREM RegistrationsAreStored == AuthSpec => []RegisteredIsStored
<1>1. AuthInv => RegisteredIsStored
  <2> SUFFICES ASSUME AuthInv, NEW k \in Answers, Answered(k, "register", "success")
               PROVE  /\ users[Asked(k).name] # NoRow
                      /\ users[Asked(k).name].password = Asked(k).password
                      /\ ~Asked(k).http => users[Asked(k).name].id = reply[k].id
                      /\ \A j \in Answers : j # k /\ Answered(j, "register", "success") =>
                             /\ Asked(j).name # Asked(k).name
                             /\ ~Asked(k).http => reply[j].id # reply[k].id
    BY DEF RegisteredIsStored
  <2>1. /\ AuthTypeOK /\ Holders /\ UniqueIds /\ Answers = 1 .. added /\ Ids \subseteq Nat \ {0}
    BY AuthAssumption DEF AuthInv, AuthTypeOK, Answers
  <2>2. \A j \in Answers : Answered(j, "register", "success") =>
            /\ Holds(j) /\ Named(Asked(j)) /\ HasRow(Asked(j))
            /\ reply[j].id = IF Asked(j).http THEN 0 ELSE users[Asked(j).name].id
    BY <2>1 DEF Holders, Holds
  <2>3. \A j \in Answers : j # k /\ Answered(j, "register", "success") =>
            Asked(j).name # Asked(k).name
    BY <2>1, <2>2 DEF Holders
  <2>4. \A n \in Names : users[n] # NoRow => users[n].id \in Ids
    BY <2>1 DEF AuthTypeOK, Rows
  <2>5. ASSUME NEW j \in Answers, j # k, Answered(j, "register", "success"), ~Asked(k).http
        PROVE  reply[j].id # reply[k].id
    <3>1. /\ Asked(j).name \in Names /\ users[Asked(j).name] # NoRow
          /\ Asked(k).name \in Names /\ users[Asked(k).name] # NoRow
          /\ Asked(j).name # Asked(k).name
      BY <2>2, <2>3, <2>5 DEF Named, HasRow
    <3>2. users[Asked(j).name].id # users[Asked(k).name].id
      BY <2>1, <3>1 DEF UniqueIds
    <3>3. users[Asked(k).name].id \in Ids /\ 0 \notin Ids
      BY <2>1, <2>4, <3>1
    <3>4. reply[k].id = users[Asked(k).name].id
      BY <2>2, <2>5
    <3>5. reply[j].id = IF Asked(j).http THEN 0 ELSE users[Asked(j).name].id
      BY <2>2, <2>5
    <3> QED BY <3>2, <3>3, <3>4, <3>5
  <2> QED BY <2>2, <2>3, <2>5 DEF HasRow
<1> QED BY <1>1, AuthInvariant, PTL

\* A login that succeeded gave the password of the row and was told its id, or 0 when
\* FindByUsername had no database.
THEOREM LoginsAreOwn == AuthSpec => []LoginIsOwn
<1>1. AuthInv => LoginIsOwn
  BY DEF AuthInv, AuthTypeOK, Answers, Logins, HasRow, LoginIsOwn
<1> QED BY <1>1, AuthInvariant, PTL

\* A request sent after its name was registered sees the registration, unless the
\* database was away.
THEOREM RegistrationsAreSeen == AuthSpec => []RegistrationIsSeen
<1>1. AuthInv => RegistrationIsSeen
  BY DEF AuthInv, SeenSoFar, Due, Seen, RegistrationIsSeen
<1> QED BY <1>1, AuthInvariant, PTL
============================================================================
