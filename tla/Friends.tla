------------------------------ MODULE Friends ------------------------------
(***************************************************************************)
(* Friend requests: FriendService and FriendDao over the table im_friend,  *)
(* the pushes about them (PushService, and the task that HandleLogin gives *)
(* to the thread pool), and the lists of the client (NetworkManager, home  *)
(* page).                                                                  *)
(*                                                                         *)
(* A client has one request at a time, so the handler of a user's requests *)
(* is named by the user.  MySQL is modelled by what the code relies on:    *)
(* UNIQUE(user_id, friend_id); a transaction whose writes appear when it   *)
(* commits; the row that its UPDATE touched stays locked until then; and   *)
(* its SELECT reads what is committed.  A transaction may fail (a lost     *)
(* connection, a deadlock) and is then rolled back; a query on its own     *)
(* does not fail.  A push is in the list of the client at once.            *)
(***************************************************************************)
EXTENDS Integers

CONSTANTS
    Users,
    Requests,    \* pairs <<u, v>>: u may ask v
    MaxLogins,   \* logins of each user, one task of HandleLogin at a time
    MaxFailures  \* transactions that fail

ASSUME FriendsAssumption ==
    /\ Requests \subseteq Users \X Users
    /\ {MaxLogins, MaxFailures} \subseteq Nat

VARIABLES
    table,     \* im_friend: the status of each pair, or "none"
    handler,   \* what the handler of each user's request is about to do
    peer,      \* the other user of that request
    reverse,   \* reverse_exists of HandleFriend is not empty
    online,    \* online_connections_ of PushService
    task,      \* the task of HandleLogin: "none", "queued", "read"
    found,     \* the requests that the task read and has not pushed
    inbox,     \* pending_friend_requests_ of each client: whose requests are in it
    list,      \* friend_list of each client
    stale,     \* the client has to fetch its friend list
    logins, failures

rowVars == <<table, handler, peer, reverse, failures>>
loginVars == <<online, task, found, logins>>
clientVars == <<inbox, list, stale>>
vars == <<rowVars, loginVars, clientVars>>

Init ==
    /\ table = [p \in Users \X Users |-> "none"]
    /\ handler = [u \in Users |-> "idle"]
    /\ peer = [u \in Users |-> u]
    /\ reverse = [u \in Users |-> FALSE]
    /\ online = {}
    /\ task = [u \in Users |-> "none"]
    /\ found = [u \in Users |-> {}]
    /\ inbox = [u \in Users |-> {}]
    /\ list = [u \in Users |-> {}]
    /\ stale = [u \in Users |-> FALSE]
    /\ logins = [u \in Users |-> 0] /\ failures = 0

----------------------------------------------------------------------------
GetFriendList(u) == {v \in Users : table[<<u, v>>] = "ACCEPTED"}

\* A plausible bug: the columns of the query are swapped.
GetSentRequests(u) == {s \in Users : table[<<u, s>>] = "PENDING"}

GetPendingRequests(u) == {s \in Users : table[<<s, u>>] = "PENDING"}

\* push_friend_req, push_to_user: s's request reaches u's client if u is online.
PushRequest(s, u) ==
    inbox' = [inbox EXCEPT ![u] = IF u \in online THEN @ \cup {s} ELSE @]

\* user_login registers the user for pushes, and the client then fetches its friends;
\* HandleLogin queues the task that looks for pending requests.
Login(u) ==
    /\ u \notin online /\ logins[u] < MaxLogins /\ task[u] = "none"
    /\ online' = online \cup {u}
    /\ task' = [task EXCEPT ![u] = "queued"]
    /\ stale' = [stale EXCEPT ![u] = TRUE]
    /\ logins' = [logins EXCEPT ![u] = @ + 1]
    /\ UNCHANGED <<rowVars, found, inbox, list>>

TaskRead(u) ==
    /\ task[u] = "queued"
    /\ task' = [task EXCEPT ![u] = "read"]
    /\ found' = [found EXCEPT ![u] = GetPendingRequests(u)]
    /\ UNCHANGED <<rowVars, online, logins, clientVars>>

TaskPush(u) ==
    /\ task[u] = "read"
    /\ \E s \in found[u] :
          /\ PushRequest(s, u)
          /\ found' = [found EXCEPT ![u] = @ \ {s}]
    /\ UNCHANGED <<rowVars, online, task, logins, list, stale>>

TaskDone(u) ==
    /\ task[u] = "read" /\ found[u] = {}
    /\ task' = [task EXCEPT ![u] = "none"]
    /\ UNCHANGED <<rowVars, online, found, logins, clientVars>>

\* Logout: ClearAuth empties the lists of the client.
Logout(u) ==
    /\ u \in online /\ handler[u] = "idle"
    /\ online' = online \ {u}
    /\ inbox' = [inbox EXCEPT ![u] = {}]
    /\ list' = [list EXCEPT ![u] = {}]
    /\ stale' = [stale EXCEPT ![u] = FALSE]
    /\ UNCHANGED <<rowVars, task, found, logins>>

\* GetFriendList of the client.
Refresh(u) ==
    /\ u \in online /\ stale[u] /\ handler[u] = "idle"
    /\ list' = [list EXCEPT ![u] = GetFriendList(u)]
    /\ stale' = [stale EXCEPT ![u] = FALSE]
    /\ UNCHANGED <<rowVars, loginVars, inbox>>

----------------------------------------------------------------------------
(* FriendDao::AddFriend: a SELECT and an INSERT outside any transaction.   *)

AddSelect(u, v) ==
    /\ u \in online /\ handler[u] = "idle" /\ <<u, v>> \in Requests
    /\ table[<<u, v>>] = "none"
    /\ handler' = [handler EXCEPT ![u] = "insert"]
    /\ peer' = [peer EXCEPT ![u] = v]
    /\ UNCHANGED <<table, reverse, failures, loginVars, clientVars>>

\* The row may have come in the meantime: then the key is a duplicate (DB_ERROR).
AddInsert(u) ==
    LET p == <<u, peer[u]>> IN
    /\ handler[u] = "insert"
    /\ table' = [table EXCEPT ![p] = IF @ = "none" THEN "PENDING" ELSE @]
    /\ handler' = [handler EXCEPT ![u] = IF table[p] = "none" THEN "push" ELSE "idle"]
    /\ UNCHANGED <<peer, reverse, failures, loginVars, clientVars>>

\* FriendService::AddFriend, after the row is stored.
AddPush(u) ==
    /\ handler[u] = "push"
    /\ PushRequest(u, peer[u])
    /\ handler' = [handler EXCEPT ![u] = "idle"]
    /\ UNCHANGED <<table, peer, reverse, failures, loginVars, list, stale>>

----------------------------------------------------------------------------
(* FriendDao::HandleFriend: u answers a request that its client shows.     *)

\* The status of a row that exists.
Update(t, p, status) == [t EXCEPT ![p] = IF @ = "none" THEN @ ELSE status]

\* The UPDATE of the request and the SELECT of the reverse row.
AcceptStart(u, s) ==
    /\ u \in online /\ handler[u] = "idle"
    /\ s \in inbox[u]
    /\ handler' = [handler EXCEPT ![u] = "accept"]
    /\ peer' = [peer EXCEPT ![u] = s]
    /\ reverse' = [reverse EXCEPT ![u] = table[<<u, s>>] # "none"]
    /\ UNCHANGED <<table, failures, loginVars, clientVars>>

\* The row <<u, s>> is locked by the transaction in which s accepts u's request.
Locked(u, s) == handler[s] = "accept" /\ peer[s] = u /\ table[<<u, s>>] # "none"

\* A plausible bug: a reverse row that exists is left as it is.
AcceptCommitNoReverse(u) ==
    LET s == peer[u] IN
    /\ handler[u] = "accept"
    /\ reverse[u] => ~Locked(u, s)
    /\ reverse[u] \/ table[<<u, s>>] = "none"
    /\ table' = LET t == Update(table, <<s, u>>, "ACCEPTED") IN
                IF reverse[u] THEN t ELSE [t EXCEPT ![<<u, s>>] = "ACCEPTED"]
    /\ handler' = [handler EXCEPT ![u] = "accepted"]
    /\ UNCHANGED <<peer, reverse, failures, loginVars, clientVars>>

\* The reverse row is inserted or updated, and the transaction commits.
AcceptCommit(u) ==
    LET s == peer[u] IN
    /\ handler[u] = "accept"
    /\ reverse[u] => ~Locked(u, s)
    /\ reverse[u] \/ table[<<u, s>>] = "none"
    /\ table' = [Update(table, <<s, u>>, "ACCEPTED") EXCEPT ![<<u, s>>] = "ACCEPTED"]
    /\ handler' = [handler EXCEPT ![u] = "accepted"]
    /\ UNCHANGED <<peer, reverse, failures, loginVars, clientVars>>

\* The INSERT finds a row that came after the SELECT, or two transactions wait for
\* each other, or the database fails: the client keeps the request.
AcceptRollback(u) ==
    LET s == peer[u]
        duplicate == ~reverse[u] /\ table[<<u, s>>] # "none"
        deadlock == reverse[u] /\ Locked(u, s) /\ reverse[s] /\ Locked(s, u)
    IN
    /\ handler[u] = "accept"
    /\ duplicate \/ deadlock \/ failures < MaxFailures
    /\ failures' = IF duplicate \/ deadlock THEN failures ELSE failures + 1
    /\ handler' = [handler EXCEPT ![u] = "idle"]
    /\ UNCHANGED <<table, peer, reverse, loginVars, clientVars>>

Reject(u, s) ==
    /\ u \in online /\ handler[u] = "idle"
    /\ s \in inbox[u]
    /\ ~Locked(s, u)
    /\ table' = Update(table, <<s, u>>, "REJECTED")
    /\ handler' = [handler EXCEPT ![u] = "rejected"]
    /\ peer' = [peer EXCEPT ![u] = s]
    /\ UNCHANGED <<reverse, failures, loginVars, clientVars>>

\* A plausible bug: the sender of the request is not told.
AnswerNoPush(u) ==
    /\ handler[u] \in {"accepted", "rejected"}
    /\ stale' = [stale EXCEPT ![u] = @ \/ handler[u] = "accepted"]
    /\ inbox' = [inbox EXCEPT ![u] = @ \ {peer[u]}]
    /\ handler' = [handler EXCEPT ![u] = "idle"]
    /\ UNCHANGED <<table, peer, reverse, failures, loginVars, list>>

\* push_friend_status makes the sender's client fetch its list.  The client of u
\* removes the request, and fetches its own list if it accepted.
Answer(u) ==
    /\ handler[u] \in {"accepted", "rejected"}
    /\ stale' = [v \in Users |->
                    \/ stale[v]
                    \/ v = u /\ handler[u] = "accepted"
                    \/ v = peer[u] /\ v \in online]
    /\ inbox' = [inbox EXCEPT ![u] = @ \ {peer[u]}]
    /\ handler' = [handler EXCEPT ![u] = "idle"]
    /\ UNCHANGED <<table, peer, reverse, failures, loginVars, list>>

Next ==
    \E u \in Users :
        \/ Login(u) \/ TaskRead(u) \/ TaskPush(u) \/ TaskDone(u) \/ Logout(u) \/ Refresh(u)
        \/ AddInsert(u) \/ AddPush(u) \/ AcceptCommit(u) \/ AcceptRollback(u) \/ Answer(u)
        \/ \E v \in Users : AddSelect(u, v) \/ AcceptStart(u, v) \/ Reject(u, v)

Spec == Init /\ [][Next]_vars

----------------------------------------------------------------------------
(* Properties.                                                             *)

\* A friendship has two sides: HandleFriend stores both rows, or neither, and no
\* request stays open between friends.  Only a later rejection changes one side.
FriendshipIsMutual ==
    \A u, v \in Users :
        table[<<u, v>>] = "ACCEPTED" => table[<<v, u>>] \in {"ACCEPTED", "REJECTED"}

\* The client of a user who is online shows every request that waits for an answer,
\* as soon as the pushes under way are done (HandleLogin registers the user before
\* its task reads the table; AddFriend stores the row before it pushes).
RequestIsShown ==
    \A u, s \in Users :
        /\ table[<<s, u>>] = "PENDING" /\ u \in online
        /\ task[u] # "queued" /\ s \notin found[u]
        /\ ~(handler[s] = "push" /\ peer[s] = u)
        => s \in inbox[u]

\* A friend list that no refresh is about to replace is that of the database (every
\* answer is pushed after its transaction).
FriendListIsCurrent ==
    \A u \in Users :
        /\ u \in online /\ ~stale[u]
        /\ ~(\E v \in Users : handler[v] \in {"accepted", "rejected"} /\ u \in {v, peer[v]})
        => list[u] = GetFriendList(u)
============================================================================
