---------------------------- MODULE AuthService ----------------------------
(***************************************************************************)
(* Registration and login, from the task queue to the users table:         *)
(* service/auth_service.cpp, HttpRequest::UserVerify, dao/user_dao.cpp and *)
(* BaseDao::execute, run by the workers of ThreadPool on the connections   *)
(* of SqlConnPool.                                                         *)
(*                                                                         *)
(* A request is a task.  Each DAO call takes a connection of its own, so   *)
(* between two calls of one request other workers run theirs.  A call that *)
(* finds no connection, or whose query throws, returns its default: false, *)
(* or a User whose id is 0.  Here every result is a number: 0 is the       *)
(* default, 1 is true, and a user id is above 0.                           *)
(***************************************************************************)
EXTENDS Integers, SqlConnPool

CONSTANTS
    Scripts,     \* sequences of requests the event loop hands to the workers
    MaxTasks,    \* tasks in all: the requests, and one more per login
    Names, Passwords,
    Ids,         \* what GenerateRandId may return
    Empty,       \* the empty string
    NoRow,       \* no row of the users table
    MayThrow     \* a query may throw (server gone, time-out)

VARIABLES
    tasks, added, wpc, task, started, finished, pool, dangling,   \* ThreadPool
    script,      \* requests the event loop has not handed over yet
    request,     \* of each task: what it is asked, and the names known to be registered
    call,        \* the DAO call each worker is in, "AddTask", or "done"
    result,      \* what the query returned, or Pending
    users,       \* the users table: username -> [id, password]
    reply,       \* of each task: what the service answered
    defaulted    \* tasks in which some call returned its default for want of a database

TP == INSTANCE ThreadPool WITH Workers <- Threads, pc <- wpc

poolVars == <<tasks, added, wpc, task, started, finished, pool, dangling>>
authVars == <<script, request, call, result, users, reply, defaulted>>
allVars == <<vars, poolVars, authVars>>

Requests == [op : {"register", "login"}, http : BOOLEAN,
             name : Names \cup {Empty}, password : Passwords \cup {Empty}]

\* The task a login adds.
PendingTask == [op |-> "pending"]

ASSUME AuthAssumption ==
    /\ TP!ThreadPoolAssumption
    /\ Empty \notin Names \cup Passwords /\ Ids \subseteq Nat \ {0} /\ MayThrow \in BOOLEAN
    /\ Scripts \subseteq Seq(Requests)
    /\ NoRow \notin [id : Ids, password : Passwords]

Pending == -1

\* A plausible bug: execute_bool passes true.
DefaultTrue == 1

\* execute's default_value: false, or im::User{}.
Default == 0

AuthInit ==
    /\ Init /\ TP!Init
    /\ script \in Scripts /\ request = <<>>
    /\ call = [t \in Threads |-> "done"] /\ result = [t \in Threads |-> Pending]
    /\ users = [n \in Names |-> NoRow]
    /\ reply = [k \in 1 .. MaxTasks |-> [outcome |-> "none", id |-> 0]]
    /\ defaulted = {}

----------------------------------------------------------------------------
(* The service: which DAO call comes first, what follows a result, and     *)
(* what is answered.                                                       *)

\* Nothing is looked up for a missing payload or an empty field.
FirstCall(q) ==
    IF q.op = "pending" THEN "GetPendingRequests"
    ELSE IF q.name = Empty \/ q.password = Empty THEN "done"
    ELSE IF q.op = "login" /\ q.http THEN "VerifyUser"
    ELSE "QueryExist"

\* A plausible bug: the result of Insert is not looked at.
OutcomeOfAnyInsert(q, c, r) ==
    CASE q.op = "register" /\ c = "QueryExist" /\ r # 0 -> "exists"
      [] q.op = "register" /\ c = "Insert" -> "success"
      [] q.op = "login" /\ c = "QueryExist" /\ r = 0 -> "notfound"
      [] q.op = "login" /\ c = "VerifyUser" /\ r = 0 -> "dberror"
      [] q.op = "login" /\ (c = "FindByUsername" \/ (c = "VerifyUser" /\ r # 0 /\ q.http)) -> "success"
      [] OTHER -> "none"

\* user_register, user_login and UserVerify: the answer a result leads to, or "none"
\* when there is another call to make.
Outcome(q, c, r) ==
    CASE q.op = "register" /\ c = "QueryExist" /\ r # 0 -> "exists"
      [] q.op = "register" /\ c = "Insert" -> IF r # 0 THEN "success" ELSE "dberror"
      [] q.op = "login" /\ c = "QueryExist" /\ r = 0 -> "notfound"
      [] q.op = "login" /\ c = "VerifyUser" /\ r = 0 -> "dberror"
      [] q.op = "login" /\ (c = "FindByUsername" \/ (c = "VerifyUser" /\ r # 0 /\ q.http)) -> "success"
      [] OTHER -> "none"

\* HandleLogin ends with a task that looks for the user's pending friend requests.
NextCall(q, c, r) ==
    CASE q.op = "register" /\ c = "QueryExist" /\ r = 0 -> "Insert"
      [] q.op = "login" /\ c = "QueryExist" /\ r # 0 -> "VerifyUser"
      [] q.op = "login" /\ c = "VerifyUser" /\ r # 0 /\ ~q.http -> "FindByUsername"
      [] q.op = "login" /\ c = "FindByUsername" -> "AddTask"
      [] OTHER -> "done"

\* A DAO call of worker t returns r to the service.
Return(t, r) ==
    LET k == task[t]
        q == request[k].q
        o == Outcome(q, call[t], r)
    IN  /\ call' = [call EXCEPT ![t] = NextCall(q, call[t], r)]
        /\ result' = [result EXCEPT ![t] = Pending]
        /\ reply' = IF o = "none" THEN reply
                    ELSE [reply EXCEPT ![k] = [outcome |-> o,
                             id |-> IF o = "success" /\ ~q.http THEN r ELSE 0]]

----------------------------------------------------------------------------
(* The queries, on the connection the guard holds.                         *)

\* A plausible bug: count > 1, of a name that is in the table once.
ExistsTwice(n) == 0

\* SELECT COUNT(1) ... WHERE username = n, and count > 0.
Exists(n) == IF users[n] # NoRow THEN 1 ELSE 0

Verify(n, p) == IF users[n] # NoRow /\ users[n].password = p THEN 1 ELSE 0

FindId(n) == IF users[n] # NoRow THEN users[n].id ELSE Default

\* username and user_id are UNIQUE in the table: any other row is refused.
Insertable(n, id) ==
    users[n] = NoRow /\ \A m \in Names : users[m] # NoRow => users[m].id # id

Query(t) ==
    LET q == request[task[t]].q IN
    /\ pc[t] = "use" /\ result[t] = Pending
    /\ \/ /\ call[t] = "Insert"
          /\ \E id \in Ids :
               \/ /\ Insertable(q.name, id)
                  /\ users' = [users EXCEPT ![q.name] = [id |-> id, password |-> q.password]]
                  /\ result' = [result EXCEPT ![t] = id]
               \/ /\ ~Insertable(q.name, id)
                  /\ result' = [result EXCEPT ![t] = Default]
                  /\ UNCHANGED users
       \/ /\ call[t] # "Insert"
          /\ result' = [result EXCEPT ![t] =
                 CASE call[t] = "QueryExist" -> Exists(q.name)
                   [] call[t] = "VerifyUser" -> Verify(q.name, q.password)
                   [] call[t] = "FindByUsername" -> FindId(q.name)
                   [] OTHER -> Default]
          /\ UNCHANGED users
    /\ UNCHANGED <<vars, poolVars, script, request, call, reply, defaulted>>

\* The query throws, and execute logs it and returns the default.  An INSERT may
\* have reached the table.
QueryThrows(t) ==
    LET q == request[task[t]].q IN
    /\ MayThrow /\ pc[t] = "use" /\ result[t] = Pending
    /\ result' = [result EXCEPT ![t] = Default]
    /\ defaulted' = defaulted \cup {task[t]}
    /\ \/ UNCHANGED users
       \/ /\ call[t] = "Insert"
          /\ \E id \in Ids :
               /\ Insertable(q.name, id)
               /\ users' = [users EXCEPT ![q.name] = [id |-> id, password |-> q.password]]
    /\ UNCHANGED <<vars, poolVars, script, request, call, reply>>

----------------------------------------------------------------------------
(* The steps of a worker.                                                  *)

InCall(t) == call[t] \notin {"done", "AddTask"}

\* The guard's constructor finds the queue empty: no connection, the default.
CallBusy(t) ==
    /\ InCall(t) /\ GetConnBusy(t)
    /\ Return(t, Default)
    /\ defaulted' = defaulted \cup {task[t]}
    /\ UNCHANGED <<poolVars, script, request, users>>

CallGetConn(t) ==
    /\ InCall(t)
    /\ GetConnCheck(t) \/ SemWait(t) \/ Pop(t)
    /\ UNCHANGED <<poolVars, authVars>>

CallFreeConn(t) ==
    /\ result[t] # Pending
    /\ FreeConnPush(t)
    /\ UNCHANGED <<poolVars, authVars>>

\* The guard is gone and the call returns.
CallReturns(t) ==
    /\ FreeConnPost(t)
    /\ Return(t, result[t])
    /\ UNCHANGED <<poolVars, script, request, users, defaulted>>

TakeRequest(t) ==
    /\ TP!Take(t)
    /\ call' = [call EXCEPT ![t] = FirstCall(request[Head(tasks)].q)]
    /\ reply' = IF call'[t] # "done" THEN reply
                ELSE [reply EXCEPT ![Head(tasks)] = [outcome |-> "invalid", id |-> 0]]
    /\ UNCHANGED <<vars, script, request, result, users, defaulted>>

FinishRequest(t) ==
    /\ call[t] = "done" /\ TP!Finish(t)
    /\ UNCHANGED <<vars, authVars>>

\* A user whose registration has been answered, as the next request's sender may know.
Registered ==
    { n \in Names : \E k \in finished : /\ reply[k].outcome = "success"
                                        /\ request[k].q.op = "register"
                                        /\ request[k].q.name = n }

AddPending(t) ==
    /\ call[t] = "AddTask" /\ TP!AddTask
    /\ request' = Append(request, [q |-> PendingTask, known |-> {}])
    /\ call' = [call EXCEPT ![t] = "done"]
    /\ UNCHANGED <<vars, script, result, users, reply, defaulted>>

OtherWork(t) ==
    /\ TP!Exit(t) \/ TP!Wait(t) \/ TP!SpuriousWakeup(t) \/ TP!UseFreed(t)
    /\ UNCHANGED <<vars, authVars>>

----------------------------------------------------------------------------
(* The main thread: the pool is opened, the loop hands over requests, and  *)
(* ~Webserver closes the connections before its members, the workers'      *)
(* pool among them, are destroyed.                                         *)

OpenPool ==
    /\ (\E c \in Conns : InitConnect(c)) \/ InitSem
    /\ UNCHANGED <<poolVars, authVars>>

AddRequest ==
    /\ phase = "run" /\ pool = "open" /\ script # <<>>
    /\ TP!AddTask
    /\ request' = Append(request, [q |-> Head(script), known |-> Registered])
    /\ script' = Tail(script)
    /\ UNCHANGED <<vars, call, result, users, reply, defaulted>>

CloseConns ==
    /\ phase = "run" /\ ClosePool
    /\ UNCHANGED <<poolVars, authVars>>

CloseWorkers ==
    /\ phase = "closed"
    /\ TP!SetClosed \/ TP!NotifyAll \/ TP!Free
    /\ UNCHANGED <<vars, authVars>>

AuthNext ==
    \/ OpenPool \/ AddRequest \/ CloseConns \/ CloseWorkers
    \/ \E t \in Threads :
        \/ TakeRequest(t) \/ FinishRequest(t) \/ AddPending(t) \/ OtherWork(t)
        \/ CallBusy(t) \/ CallGetConn(t) \/ CallFreeConn(t) \/ CallReturns(t)
        \/ Query(t) \/ QueryThrows(t)

AuthSpec == AuthInit /\ [][AuthNext]_allVars

\* Start-up finishes, a query returns, a worker that can run does, and one that waits
\* for the semaphore or for mtx_ is not passed over for ever.
AuthFairness ==
    /\ WF_allVars(OpenPool)
    /\ \A t \in Threads :
        /\ WF_allVars(TakeRequest(t) \/ FinishRequest(t) \/ AddPending(t) \/ OtherWork(t))
        /\ WF_allVars(CallBusy(t) \/ Query(t) \/ QueryThrows(t) \/ CallReturns(t))
        /\ SF_allVars(CallGetConn(t))
        /\ SF_allVars(CallFreeConn(t))

AuthFairSpec == AuthSpec /\ AuthFairness

----------------------------------------------------------------------------
(* Properties.                                                             *)

Asked(k) == request[k].q
Answered(k, op, o) == reply[k].outcome = o /\ Asked(k).op = op
Answers == DOMAIN request

\* A registration that was answered with success is the row of its name, whatever ran
\* between QueryExist and Insert: of two that race for a name at most one is told so,
\* and each has its id to itself.
RegisteredIsStored ==
    \A k \in Answers : Answered(k, "register", "success") =>
        /\ users[Asked(k).name] # NoRow
        /\ users[Asked(k).name].password = Asked(k).password
        /\ ~Asked(k).http => users[Asked(k).name].id = reply[k].id
        /\ \A j \in Answers : j # k /\ Answered(j, "register", "success") =>
               /\ Asked(j).name # Asked(k).name
               /\ ~Asked(k).http => reply[j].id # reply[k].id

\* A login that succeeded gave the password of the row, and was answered with the id
\* of the row: or with id 0, when FindByUsername had no database although VerifyUser
\* just had one.
LoginIsOwn ==
    \A k \in Answers : Answered(k, "login", "success") =>
        /\ users[Asked(k).name] # NoRow
        /\ users[Asked(k).name].password = Asked(k).password
        /\ ~Asked(k).http =>
              \/ reply[k].id = users[Asked(k).name].id
              \/ reply[k].id = 0 /\ k \in defaulted

\* A request sent after the name's registration was answered sees it: a login is not
\* told "Username not found", one with the right password is let in, and a second
\* registration is told "Username already exists", unless the database was away.
RegistrationIsSeen ==
    \A k \in Answers :
        ( /\ Asked(k).op # "pending" /\ Asked(k).name \in request[k].known
          /\ k \in finished \ defaulted /\ Asked(k).password # Empty )
        => IF Asked(k).op = "register" THEN reply[k].outcome = "exists"
           ELSE (reply[k].outcome = "success") <=>
                    (users[Asked(k).name].password = Asked(k).password)

\* The workers catch up with the event loop again and again, so every request is
\* answered and the task a login adds is run, if the pool of connections came up complete
\* and stays open: no credit of the semaphore and no wakeup is lost, and no worker waits
\* for ever in the middle of a request.
RequestsAreAnswered ==
    []<>(finished = 1 .. added \/ failed # {} \/ phase = "closed")
=============================================================================
