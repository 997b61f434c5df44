--------------------------- MODULE FriendsProofs ---------------------------
(***************************************************************************)
(* Friends keeps its three invariants, whatever the users, the requests    *)
(* they may make and the bounds are.  Rows of im_friend are never deleted, *)
(* so a request that was read, pushed or is being answered still has its   *)
(* row: that is what the inductive invariant adds.                         *)
(***************************************************************************)
EXTENDS Friends, TLAPS

\* A leaf is tried with Zenon first: most need no arithmetic.
USE ZenonT(5), SMTT(30)

TypeOK ==
    /\ table \in [Users \X Users -> {"none", "PENDING", "ACCEPTED", "REJECTED"}]
    /\ handler \in [Users -> {"idle", "insert", "push", "accept", "accepted", "rejected"}]
    /\ peer \in [Users -> Users]
    /\ online \subseteq Users
    /\ task \in [Users -> {"none", "queued", "read"}]
    /\ found \in [Users -> SUBSET Users]
    /\ inbox \in [Users -> SUBSET Users]
    /\ list \in [Users -> SUBSET Users]
    /\ stale \in [Users -> BOOLEAN]

\* A request that the task read, that the client shows or that is being answered has a
\* row, and an answer that is not yet sent is in the table.
RowExists ==
    /\ \A u, s \in Users : s \in found[u] \cup inbox[u] => table[<<s, u>>] # "none"
    /\ \A u \in Users : handler[u] = "push" => table[<<u, peer[u]>>] # "none"
    /\ \A u \in Users : handler[u] = "accept" => table[<<peer[u], u>>] # "none"
    /\ \A u \in Users : handler[u] \in {"accepted", "rejected"} =>
          table[<<peer[u], u>>] \notin {"none", "PENDING"}

\* FriendListIsCurrent, for the one who rejects as well: a rejection changes the list
\* of the other side only.
ListIsCurrent ==
    \A u \in Users :
        /\ u \in online /\ ~stale[u]
        /\ \A v \in Users : handler[v] = "accepted" => u \notin {v, peer[v]}
        /\ \A v \in Users : handler[v] = "rejected" => u # peer[v]
        => list[u] = GetFriendList(u)

IInv == TypeOK /\ RowExists /\ FriendshipIsMutual /\ RequestIsShown /\ ListIsCurrent

LEMMA InitIInv == Init => IInv
<1> SUFFICES ASSUME Init PROVE IInv
  OBVIOUS
<1>1. TypeOK
  BY DEF Init, TypeOK
<1>2. RowExists
  BY DEF Init, RowExists
<1>3. FriendshipIsMutual
  BY DEF Init, FriendshipIsMutual
<1>4. RequestIsShown
  BY DEF Init, RequestIsShown
<1>5. ListIsCurrent
  BY DEF Init, ListIsCurrent
<1> QED BY <1>1, <1>2, <1>3, <1>4, <1>5 DEF IInv

----------------------------------------------------------------------------
\* The friend list of a user depends on the user's rows only.
LEMMA SameList ==
    ASSUME NEW u \in Users,
           \A v \in Users : table'[<<u, v>>] = "ACCEPTED" <=> table[<<u, v>>] = "ACCEPTED"
    PROVE  GetFriendList(u)' = GetFriendList(u)
BY DEF GetFriendList

\* Steps that leave the table and the handlers alone.
LEMMA TableStays ==
    ASSUME IInv, UNCHANGED rowVars,
           \A u, s \in Users : s \in found'[u] \cup inbox'[u] =>
              s \in found[u] \cup inbox[u] \/ table[<<s, u>>] # "none"
    PROVE  RowExists' /\ FriendshipIsMutual'
<1>1. UNCHANGED <<table, handler, peer>>
  BY DEF rowVars
<1>2. RowExists'
  BY <1>1 DEF IInv, RowExists
<1>3. FriendshipIsMutual'
  BY <1>1 DEF IInv, FriendshipIsMutual
<1> QED BY <1>2, <1>3

LEMMA LoginIInv == ASSUME IInv, NEW u \in Users, Login(u) PROVE IInv'
<1>0. /\ task' = [task EXCEPT ![u] = "queued"] /\ online' = online \cup {u}
      /\ stale' = [stale EXCEPT ![u] = TRUE]
      /\ UNCHANGED <<table, handler, peer, found, inbox, list>> /\ UNCHANGED rowVars
  BY DEF Login, rowVars
<1>1. TypeOK'
  BY <1>0 DEF IInv, TypeOK
<1>2. /\ task'[u] = "queued" /\ \A v \in Users \ {u} : task'[v] = task[v]
      /\ stale'[u] /\ \A v \in Users \ {u} : stale'[v] = stale[v]
  BY <1>0 DEF IInv, TypeOK
<1>3. RowExists' /\ FriendshipIsMutual'
  BY <1>0, TableStays
<1>4. RequestIsShown'
  BY <1>0, <1>2 DEF IInv, RequestIsShown
<1>5. ListIsCurrent'
  BY <1>0, <1>2 DEF IInv, ListIsCurrent, GetFriendList
<1> QED BY <1>1, <1>3, <1>4, <1>5 DEF IInv

LEMMA TaskReadIInv == ASSUME IInv, NEW u \in Users, TaskRead(u) PROVE IInv'
<1>0. /\ task' = [task EXCEPT ![u] = "read"]
      /\ found' = [found EXCEPT ![u] = GetPendingRequests(u)]
      /\ UNCHANGED <<table, handler, peer, online, inbox, list, stale>> /\ UNCHANGED rowVars
  BY DEF TaskRead, rowVars, clientVars
<1>1. TypeOK'
  BY <1>0 DEF IInv, TypeOK, GetPendingRequests
<1>2. /\ \A v \in Users \ {u} : task'[v] = task[v] /\ found'[v] = found[v]
      /\ found'[u] = {s \in Users : table[<<s, u>>] = "PENDING"}
  BY <1>0 DEF IInv, TypeOK, GetPendingRequests
<1>3. RowExists' /\ FriendshipIsMutual'
  <2>1. \A v, s \in Users : s \in found'[v] \cup inbox'[v] =>
              s \in found[v] \cup inbox[v] \/ table[<<s, v>>] # "none"
    BY <1>0, <1>2
  <2> QED BY <1>0, <2>1, TableStays
<1>4. RequestIsShown'
  BY <1>0, <1>2 DEF IInv, RequestIsShown
<1>5. ListIsCurrent'
  BY <1>0 DEF IInv, ListIsCurrent, GetFriendList
<1> QED BY <1>1, <1>3, <1>4, <1>5 DEF IInv

LEMMA TaskPushIInv == ASSUME IInv, NEW u \in Users, TaskPush(u) PROVE IInv'
<1>0. PICK s \in found[u] :
      /\ inbox' = [inbox EXCEPT ![u] = IF u \in online THEN @ \cup {s} ELSE @]
      /\ found' = [found EXCEPT ![u] = @ \ {s}]
      /\ UNCHANGED <<table, handler, peer, online, task, list, stale>> /\ UNCHANGED rowVars
  BY DEF TaskPush, PushRequest, rowVars
<1>a. s \in Users
  BY DEF IInv, TypeOK
<1>1. TypeOK'
  BY <1>0, <1>a DEF IInv, TypeOK
<1>2. /\ \A v \in Users \ {u} : found'[v] = found[v] /\ inbox'[v] = inbox[v]
      /\ found'[u] = found[u] \ {s}
      /\ inbox'[u] = IF u \in online THEN inbox[u] \cup {s} ELSE inbox[u]
  BY <1>0 DEF IInv, TypeOK
<1>3. RowExists' /\ FriendshipIsMutual'
  <2>1. \A v, x \in Users : x \in found'[v] \cup inbox'[v] =>
              x \in found[v] \cup inbox[v] \/ table[<<x, v>>] # "none"
    BY <1>0, <1>2
  <2> QED BY <1>0, <2>1, TableStays
<1>4. RequestIsShown'
  BY <1>0, <1>2 DEF IInv, RequestIsShown
<1>5. ListIsCurrent'
  BY <1>0 DEF IInv, ListIsCurrent, GetFriendList
<1> QED BY <1>1, <1>3, <1>4, <1>5 DEF IInv

LEMMA TaskDoneIInv == ASSUME IInv, NEW u \in Users, TaskDone(u) PROVE IInv'
<1>0. /\ task[u] = "read" /\ task' = [task EXCEPT ![u] = "none"]
      /\ UNCHANGED <<table, handler, peer, online, found, inbox, list, stale>>
      /\ UNCHANGED rowVars
  BY DEF TaskDone, rowVars, clientVars
<1>1. TypeOK'
  BY <1>0 DEF IInv, TypeOK
<1>2. \A v \in Users : task'[v] # "queued" => task[v] # "queued"
  BY <1>0 DEF IInv, TypeOK
<1>3. RowExists' /\ FriendshipIsMutual'
  BY <1>0, TableStays
<1>4. RequestIsShown'
  BY <1>0, <1>2 DEF IInv, RequestIsShown
<1>5. ListIsCurrent'
  BY <1>0 DEF IInv, ListIsCurrent, GetFriendList
<1> QED BY <1>1, <1>3, <1>4, <1>5 DEF IInv

LEMMA LogoutIInv == ASSUME IInv, NEW u \in Users, Logout(u) PROVE IInv'
<1>0. /\ online' = online \ {u}
      /\ inbox' = [inbox EXCEPT ![u] = {}] /\ list' = [list EXCEPT ![u] = {}]
      /\ stale' = [stale EXCEPT ![u] = FALSE]
      /\ UNCHANGED <<table, handler, peer, found, task>> /\ UNCHANGED rowVars
  BY DEF Logout, rowVars
<1>1. TypeOK'
  BY <1>0 DEF IInv, TypeOK
<1>2. /\ inbox'[u] = {}
      /\ \A v \in Users \ {u} : inbox'[v] = inbox[v] /\ list'[v] = list[v] /\ stale'[v] = stale[v]
  BY <1>0 DEF IInv, TypeOK
<1>3. RowExists' /\ FriendshipIsMutual'
  <2>1. \A v, x \in Users : x \in found'[v] \cup inbox'[v] =>
              x \in found[v] \cup inbox[v] \/ table[<<x, v>>] # "none"
    BY <1>0, <1>2
  <2> QED BY <1>0, <2>1, TableStays
<1>4. RequestIsShown'
  BY <1>0, <1>2 DEF IInv, RequestIsShown
<1>5. ListIsCurrent'
  BY <1>0, <1>2 DEF IInv, ListIsCurrent, GetFriendList
<1> QED BY <1>1, <1>3, <1>4, <1>5 DEF IInv

LEMMA RefreshIInv == ASSUME IInv, NEW u \in Users, Refresh(u) PROVE IInv'
<1>0. /\ list' = [list EXCEPT ![u] = GetFriendList(u)]
      /\ stale' = [stale EXCEPT ![u] = FALSE]
      /\ UNCHANGED <<table, handler, peer, online, found, task, inbox>> /\ UNCHANGED rowVars
  BY DEF Refresh, rowVars, loginVars
<1>1. TypeOK'
  BY <1>0 DEF IInv, TypeOK, GetFriendList
<1>2. /\ list'[u] = GetFriendList(u)
      /\ \A v \in Users \ {u} : list'[v] = list[v] /\ stale'[v] = stale[v]
  BY <1>0 DEF IInv, TypeOK
<1>3. RowExists' /\ FriendshipIsMutual'
  BY <1>0, TableStays
<1>4. RequestIsShown'
  BY <1>0 DEF IInv, RequestIsShown
<1>5. ListIsCurrent'
  BY <1>0, <1>2 DEF IInv, ListIsCurrent, GetFriendList
<1> QED BY <1>1, <1>3, <1>4, <1>5 DEF IInv

----------------------------------------------------------------------------
\* Steps of a handler.

LEMMA AddSelectIInv ==
    ASSUME IInv, NEW u \in Users, NEW v \in Users, AddSelect(u, v)
    PROVE  IInv'
<1>0. /\ handler[u] = "idle"
      /\ handler' = [handler EXCEPT ![u] = "insert"] /\ peer' = [peer EXCEPT ![u] = v]
      /\ UNCHANGED <<table, online, found, task, inbox, list, stale>>
  BY DEF AddSelect, loginVars, clientVars
<1>1. TypeOK'
  BY <1>0 DEF IInv, TypeOK
<1>2. /\ handler'[u] = "insert"
      /\ \A w \in Users \ {u} : handler'[w] = handler[w] /\ peer'[w] = peer[w]
  BY <1>0 DEF IInv, TypeOK
<1>3. RowExists'
  BY <1>0, <1>2 DEF IInv, RowExists
<1>4. FriendshipIsMutual'
  BY <1>0 DEF IInv, FriendshipIsMutual
<1>5. RequestIsShown'
  BY <1>0, <1>2 DEF IInv, RequestIsShown
<1>6. ListIsCurrent'
  BY <1>0, <1>2 DEF IInv, ListIsCurrent, GetFriendList
<1> QED BY <1>1, <1>3, <1>4, <1>5, <1>6 DEF IInv

LEMMA AddInsertIInv == ASSUME IInv, NEW u \in Users, AddInsert(u) PROVE IInv'
<1> DEFINE p == <<u, peer[u]>>
<1>0. /\ handler[u] = "insert"
      /\ table' = [table EXCEPT ![p] = IF @ = "none" THEN "PENDING" ELSE @]
      /\ handler' = [handler EXCEPT ![u] = IF table[p] = "none" THEN "push" ELSE "idle"]
      /\ UNCHANGED <<peer, online, found, task, inbox, list, stale>>
  BY DEF AddInsert, loginVars, clientVars
<1>1. TypeOK'
  BY <1>0 DEF IInv, TypeOK
<1>2. /\ handler'[u] \in {"push", "idle"} /\ (table[p] = "none" => handler'[u] = "push")
      /\ \A w \in Users \ {u} : handler'[w] = handler[w]
  BY <1>0 DEF IInv, TypeOK
<1>3. p \in Users \X Users
  BY DEF IInv, TypeOK
<1>4. \A q \in Users \X Users :
         \/ table'[q] = table[q]
         \/ q = p /\ table[q] = "none" /\ table'[q] = "PENDING"
  BY <1>0 DEF IInv, TypeOK
<1>5. table'[p] # "none"
  BY <1>0, <1>3 DEF IInv, TypeOK
<1>a. \A x, y \in Users : <<x, y>> \in Users \X Users /\ (<<x, y>> = p <=> x = u /\ y = peer[u])
  OBVIOUS
<1> HIDE DEF p
<1>6. /\ \A x, y \in Users : table[<<x, y>>] # "none" => table'[<<x, y>>] = table[<<x, y>>]
      /\ \A x, y \in Users : table'[<<x, y>>] = "ACCEPTED" <=> table[<<x, y>>] = "ACCEPTED"
  BY <1>4, <1>a
<1>7. RowExists'
  <2>1. peer \in [Users -> Users] /\ table'[<<u, peer[u]>>] # "none"
    BY <1>5 DEF IInv, TypeOK, p
  <2>2. \A w \in Users : handler'[w] = "push" => w = u \/ handler[w] = "push"
    BY <1>2
  <2>3. \A w \in Users : handler'[w] \in {"accept", "accepted", "rejected"} =>
           handler'[w] = handler[w]
    BY <1>2
  <2> QED BY <1>0, <1>6, <2>1, <2>2, <2>3 DEF IInv, RowExists
<1>8. FriendshipIsMutual'
  <2>1. \A x, y \in Users : table[<<x, y>>] \in {"ACCEPTED", "REJECTED"} =>
           table'[<<x, y>>] \in {"ACCEPTED", "REJECTED"}
    BY <1>6
  <2> QED BY <1>6, <2>1 DEF IInv, FriendshipIsMutual
<1>9. RequestIsShown'
  <2>1. ASSUME NEW x \in Users, NEW y \in Users, table'[<<x, y>>] = "PENDING",
               ~(handler'[x] = "push" /\ peer[x] = y)
        PROVE  table[<<x, y>>] = "PENDING" /\ ~(handler[x] = "push" /\ peer[x] = y)
    <3>1. <<x, y>> # p \/ table[<<x, y>>] # "none"
      BY <1>2, <1>a, <2>1
    <3>2. table[<<x, y>>] = "PENDING"
      BY <1>4, <1>a, <2>1, <3>1
    <3>3. handler[x] = "push" => handler'[x] = "push"
      BY <1>0, <1>2
    <3> QED BY <2>1, <3>2, <3>3
  <2> QED BY <1>0, <2>1 DEF IInv, RequestIsShown
<1>10. ListIsCurrent'
  <2>1. \A w \in Users : GetFriendList(w)' = GetFriendList(w)
    BY <1>6 DEF GetFriendList
  <2>2. \A w \in Users : handler[w] \in {"accepted", "rejected"} => handler'[w] = handler[w]
    BY <1>0, <1>2
  <2> QED BY <1>0, <2>1, <2>2 DEF IInv, ListIsCurrent
<1> QED BY <1>1, <1>7, <1>8, <1>9, <1>10 DEF IInv

LEMMA AddPushIInv == ASSUME IInv, NEW u \in Users, AddPush(u) PROVE IInv'
<1> DEFINE v == peer[u]
<1>0. /\ handler[u] = "push"
      /\ inbox' = [inbox EXCEPT ![v] = IF v \in online THEN @ \cup {u} ELSE @]
      /\ handler' = [handler EXCEPT ![u] = "idle"]
      /\ UNCHANGED <<table, peer, online, found, task, list, stale>>
  BY DEF AddPush, PushRequest, loginVars
<1>a. v \in Users /\ table[<<u, v>>] # "none"
  BY <1>0 DEF IInv, TypeOK, RowExists
<1>1. TypeOK'
  BY <1>0, <1>a DEF IInv, TypeOK
<1>2. handler'[u] = "idle" /\ \A w \in Users \ {u} : handler'[w] = handler[w]
  BY <1>0 DEF IInv, TypeOK
<1>3. /\ \A w \in Users \ {v} : inbox'[w] = inbox[w]
      /\ inbox'[v] = IF v \in online THEN inbox[v] \cup {u} ELSE inbox[v]
  BY <1>0, <1>a DEF IInv, TypeOK
<1>b. \A w \in Users : peer[w] \in Users
  BY DEF IInv, TypeOK
<1>4. RowExists'
  <2>1. \A w, s \in Users : s \in found[w] \cup inbox'[w] => table[<<s, w>>] # "none"
    BY <1>a, <1>3 DEF IInv, RowExists
  <2> QED BY <1>0, <1>2, <2>1 DEF IInv, RowExists
<1>5. FriendshipIsMutual'
  BY <1>0 DEF IInv, FriendshipIsMutual
<1>6. RequestIsShown'
  <2>1. ASSUME NEW w \in Users, NEW s \in Users,
               table[<<s, w>>] = "PENDING", w \in online, task[w] # "queued", s \notin found[w],
               ~(handler'[s] = "push" /\ peer[s] = w)
        PROVE  s \in inbox'[w]
    <3>1. CASE s = u /\ w = v
      BY <1>3, <2>1, <3>1
    <3>2. CASE ~(s = u /\ w = v)
      <4>1. ~(handler[s] = "push" /\ peer[s] = w)
        BY <1>2, <2>1, <3>2
      <4>2. s \in inbox[w]
        BY <2>1, <4>1 DEF IInv, RequestIsShown
      <4> QED BY <1>3, <4>2
    <3> QED BY <3>1, <3>2
  <2> QED BY <1>0, <2>1 DEF RequestIsShown
<1>7. ListIsCurrent'
  <2>2. \A w \in Users : handler[w] \in {"accepted", "rejected"} => handler'[w] = handler[w]
    BY <1>0, <1>2
  <2> QED BY <1>0, <2>2 DEF IInv, ListIsCurrent, GetFriendList
<1> QED BY <1>1, <1>4, <1>5, <1>6, <1>7 DEF IInv

LEMMA AcceptStartIInv ==
    ASSUME IInv, NEW u \in Users, NEW s \in Users, AcceptStart(u, s)
    PROVE  IInv'
<1>0. /\ handler[u] = "idle" /\ s \in inbox[u]
      /\ handler' = [handler EXCEPT ![u] = "accept"] /\ peer' = [peer EXCEPT ![u] = s]
      /\ UNCHANGED <<table, online, found, task, inbox, list, stale>>
  BY DEF AcceptStart, loginVars, clientVars
<1>1. TypeOK'
  BY <1>0 DEF IInv, TypeOK
<1>2. /\ handler'[u] = "accept" /\ peer'[u] = s
      /\ \A w \in Users \ {u} : handler'[w] = handler[w] /\ peer'[w] = peer[w]
  BY <1>0 DEF IInv, TypeOK
<1>3. RowExists'
  <2>1. table[<<s, u>>] # "none"
    BY <1>0 DEF IInv, RowExists
  <2> QED BY <1>0, <1>2, <2>1 DEF IInv, RowExists
<1>4. FriendshipIsMutual'
  BY <1>0 DEF IInv, FriendshipIsMutual
<1>5. RequestIsShown'
  BY <1>0, <1>2 DEF IInv, RequestIsShown
<1>6. ListIsCurrent'
  BY <1>0, <1>2 DEF IInv, ListIsCurrent, GetFriendList
<1> QED BY <1>1, <1>3, <1>4, <1>5, <1>6 DEF IInv

LEMMA AcceptRollbackIInv == ASSUME IInv, NEW u \in Users, AcceptRollback(u) PROVE IInv'
<1>0. /\ handler[u] = "accept"
      /\ handler' = [handler EXCEPT ![u] = "idle"]
      /\ UNCHANGED <<table, peer, online, found, task, inbox, list, stale>>
  BY DEF AcceptRollback, loginVars, clientVars
<1>1. TypeOK'
  BY <1>0 DEF IInv, TypeOK
<1>2. handler'[u] = "idle" /\ \A w \in Users \ {u} : handler'[w] = handler[w]
  BY <1>0 DEF IInv, TypeOK
<1>3. RowExists'
  BY <1>0, <1>2 DEF IInv, RowExists
<1>4. FriendshipIsMutual'
  BY <1>0 DEF IInv, FriendshipIsMutual
<1>5. RequestIsShown'
  BY <1>0, <1>2 DEF IInv, RequestIsShown
<1>6. ListIsCurrent'
  BY <1>0, <1>2 DEF IInv, ListIsCurrent, GetFriendList
<1> QED BY <1>1, <1>3, <1>4, <1>5, <1>6 DEF IInv

\* What an answer may do to the table: it settles rows, and none comes into being that
\* waits for an answer.
LEMMA AnsweredRows ==
    ASSUME IInv, NEW u \in Users, NEW s \in Users, table[<<s, u>>] # "none",
           handler[u] \notin {"push", "accepted", "rejected"},
           handler'[u] \in {"accepted", "rejected"}, peer'[u] = s,
           \A w \in Users \ {u} : handler'[w] = handler[w] /\ peer'[w] = peer[w],
           \A x, y \in Users : table'[<<x, y>>] = table[<<x, y>>]
                               \/ table'[<<x, y>>] \in {"ACCEPTED", "REJECTED"},
           table'[<<s, u>>] \in {"ACCEPTED", "REJECTED"},
           UNCHANGED <<online, found, task, inbox>>
    PROVE  RowExists' /\ RequestIsShown'
<1>0. peer \in [Users -> Users]
  BY DEF IInv, TypeOK
<1>1. \A x, y \in Users : table[<<x, y>>] # "none" => table'[<<x, y>>] # "none"
  OBVIOUS
<1>2. \A x, y \in Users : table[<<x, y>>] \notin {"none", "PENDING"} =>
         table'[<<x, y>>] \notin {"none", "PENDING"}
  OBVIOUS
<1>3. \A x, y \in Users : table'[<<x, y>>] = "PENDING" => table[<<x, y>>] = "PENDING"
  OBVIOUS
<1>4. ASSUME NEW w \in Users
      PROVE  /\ handler'[w] = "push" => table'[<<w, peer'[w]>>] # "none"
             /\ handler'[w] = "accept" => table'[<<peer'[w], w>>] # "none"
             /\ handler'[w] \in {"accepted", "rejected"} =>
                   table'[<<peer'[w], w>>] \notin {"none", "PENDING"}
  <2>1. CASE w = u
    BY <2>1
  <2>2. CASE w # u
    BY <1>0, <1>1, <1>2, <2>2 DEF IInv, RowExists
  <2> QED BY <2>1, <2>2
<1>5. RowExists'
  <2>1. \A x, y \in Users : y \in found'[x] \cup inbox'[x] => table'[<<y, x>>] # "none"
    BY <1>1 DEF IInv, RowExists
  <2> QED BY <1>4, <2>1 DEF RowExists
<1>6. \A x \in Users : handler[x] = "push" => handler'[x] = "push" /\ peer'[x] = peer[x]
  OBVIOUS
<1>7. RequestIsShown'
  BY <1>3, <1>6 DEF IInv, RequestIsShown
<1> QED BY <1>5, <1>7

LEMMA AcceptCommitIInv == ASSUME IInv, NEW u \in Users, AcceptCommit(u) PROVE IInv'
<1> DEFINE s == peer[u]
<1>0. /\ handler[u] = "accept"
      /\ table' = [[table EXCEPT ![<<s, u>>] = IF @ = "none" THEN @ ELSE "ACCEPTED"]
                      EXCEPT ![<<u, s>>] = "ACCEPTED"]
      /\ handler' = [handler EXCEPT ![u] = "accepted"]
      /\ UNCHANGED <<peer, online, found, task, inbox, list, stale>>
  BY DEF AcceptCommit, Update, loginVars, clientVars
<1>1. s \in Users /\ table[<<s, u>>] # "none" /\ <<u, s>> \in Users \X Users /\ <<s, u>> \in Users \X Users
  BY <1>0 DEF IInv, TypeOK, RowExists
<1>a. peer'[u] = s
  BY <1>0
<1>b. \A x, y \in Users : <<x, y>> \in Users \X Users
         /\ (<<x, y>> = <<u, s>> <=> x = u /\ y = s) /\ (<<x, y>> = <<s, u>> <=> x = s /\ y = u)
  OBVIOUS
<1> HIDE DEF s
<1>2. TypeOK'
  BY <1>0 DEF IInv, TypeOK
<1>3. handler'[u] = "accepted" /\ \A w \in Users \ {u} : handler'[w] = handler[w]
  BY <1>0 DEF IInv, TypeOK
<1>4. table'[<<u, s>>] = "ACCEPTED"
  BY <1>0, <1>1 DEF IInv, TypeOK
<1>5. table'[<<s, u>>] = "ACCEPTED"
  BY <1>0, <1>1 DEF IInv, TypeOK
<1>6. \A q \in Users \X Users : q = <<u, s>> \/ q = <<s, u>> \/ table'[q] = table[q]
  BY <1>0, <1>1 DEF IInv, TypeOK
<1>7. \A x, y \in Users : ~(x = u /\ y = s) /\ ~(x = s /\ y = u) => table'[<<x, y>>] = table[<<x, y>>]
  BY <1>6, <1>b
<1>8. \A x, y \in Users : table'[<<x, y>>] = table[<<x, y>>]
         \/ table'[<<x, y>>] \in {"ACCEPTED", "REJECTED"}
  BY <1>4, <1>5, <1>7
<1>9. RowExists' /\ RequestIsShown'
  <2>1. /\ handler[u] \notin {"push", "accepted", "rejected"}
        /\ handler'[u] \in {"accepted", "rejected"}
    BY <1>0, <1>3
  <2>2. \A w \in Users \ {u} : handler'[w] = handler[w] /\ peer'[w] = peer[w]
    BY <1>0, <1>3
  <2>3. table'[<<s, u>>] \in {"ACCEPTED", "REJECTED"} /\ UNCHANGED <<online, found, task, inbox>>
    BY <1>0, <1>5
  <2> QED BY <1>1, <1>a, <1>8, <2>1, <2>2, <2>3, AnsweredRows
<1>10. FriendshipIsMutual'
  <2>1. ASSUME NEW x \in Users, NEW y \in Users, table'[<<x, y>>] = "ACCEPTED"
        PROVE  table'[<<y, x>>] \in {"ACCEPTED", "REJECTED"}
    <3>1. CASE (x = u /\ y = s) \/ (x = s /\ y = u)
      BY <1>4, <1>5, <3>1
    <3>2. CASE ~(x = u /\ y = s) /\ ~(x = s /\ y = u)
      BY <1>7, <2>1, <3>2 DEF IInv, FriendshipIsMutual
    <3> QED BY <3>1, <3>2
  <2> QED BY <2>1 DEF FriendshipIsMutual
<1>11. ListIsCurrent'
  <2>1. \A w \in Users : w \notin {u, s} => GetFriendList(w)' = GetFriendList(w)
    BY <1>7 DEF GetFriendList
  <2>2. \A w \in Users : handler[w] \in {"accepted", "rejected"} => handler'[w] = handler[w]
    BY <1>0, <1>3
  <2> QED BY <1>0, <1>a, <1>3, <2>1, <2>2 DEF IInv, ListIsCurrent
<1> QED BY <1>2, <1>9, <1>10, <1>11 DEF IInv

LEMMA RejectIInv ==
    ASSUME IInv, NEW u \in Users, NEW s \in Users, Reject(u, s)
    PROVE  IInv'
<1>0. /\ handler[u] = "idle" /\ s \in inbox[u]
      /\ table' = [table EXCEPT ![<<s, u>>] = IF @ = "none" THEN @ ELSE "REJECTED"]
      /\ handler' = [handler EXCEPT ![u] = "rejected"]
      /\ peer' = [peer EXCEPT ![u] = s]
      /\ UNCHANGED <<online, found, task, inbox, list, stale>>
  BY DEF Reject, Update, loginVars, clientVars
<1>1. table[<<s, u>>] # "none" /\ <<s, u>> \in Users \X Users
  BY <1>0 DEF IInv, RowExists
<1>b. \A x, y \in Users : <<x, y>> \in Users \X Users /\ (<<x, y>> = <<s, u>> <=> x = s /\ y = u)
  OBVIOUS
<1>2. TypeOK'
  BY <1>0 DEF IInv, TypeOK
<1>3. /\ handler'[u] = "rejected" /\ peer'[u] = s
      /\ \A w \in Users \ {u} : handler'[w] = handler[w] /\ peer'[w] = peer[w]
  BY <1>0 DEF IInv, TypeOK
<1>4. table'[<<s, u>>] = "REJECTED"
  BY <1>0, <1>1 DEF IInv, TypeOK
<1>5. \A q \in Users \X Users : q = <<s, u>> \/ table'[q] = table[q]
  BY <1>0 DEF IInv, TypeOK
<1>6. \A x, y \in Users : ~(x = s /\ y = u) => table'[<<x, y>>] = table[<<x, y>>]
  BY <1>5, <1>b
<1>7. \A x, y \in Users : table'[<<x, y>>] = table[<<x, y>>]
         \/ table'[<<x, y>>] \in {"ACCEPTED", "REJECTED"}
  BY <1>4, <1>6
<1>8. RowExists' /\ RequestIsShown'
  BY <1>0, <1>1, <1>3, <1>4, <1>7, AnsweredRows
<1>9. FriendshipIsMutual'
  <2>1. ASSUME NEW x \in Users, NEW y \in Users, table'[<<x, y>>] = "ACCEPTED"
        PROVE  table'[<<y, x>>] \in {"ACCEPTED", "REJECTED"}
    <3>1. table[<<x, y>>] = "ACCEPTED"
      BY <1>4, <1>6, <2>1
    <3>2. table[<<y, x>>] \in {"ACCEPTED", "REJECTED"}
      BY <3>1 DEF IInv, FriendshipIsMutual
    <3> QED BY <1>7, <3>2
  <2> QED BY <2>1 DEF FriendshipIsMutual
<1>10. ListIsCurrent'
  <2>1. \A w \in Users : w # s => GetFriendList(w)' = GetFriendList(w)
    BY <1>6 DEF GetFriendList
  <2>2. \A w \in Users : handler[w] \in {"accepted", "rejected"} =>
           handler'[w] = handler[w] /\ peer'[w] = peer[w]
    BY <1>0, <1>3
  <2> QED BY <1>0, <1>3, <2>1, <2>2 DEF IInv, ListIsCurrent
<1> QED BY <1>2, <1>8, <1>9, <1>10 DEF IInv

LEMMA AnswerIInv == ASSUME IInv, NEW u \in Users, Answer(u) PROVE IInv'
<1>0. /\ handler[u] \in {"accepted", "rejected"}
      /\ stale' = [v \in Users |->
                    \/ stale[v]
                    \/ v = u /\ handler[u] = "accepted"
                    \/ v = peer[u] /\ v \in online]
      /\ inbox' = [inbox EXCEPT ![u] = @ \ {peer[u]}]
      /\ handler' = [handler EXCEPT ![u] = "idle"]
      /\ UNCHANGED <<table, peer, online, found, task, list>>
  BY DEF Answer, loginVars
<1>1. TypeOK'
  <2>1. stale' \in [Users -> BOOLEAN]
    BY <1>0 DEF IInv, TypeOK
  <2>2. inbox' \in [Users -> SUBSET Users]
    BY <1>0 DEF IInv, TypeOK
  <2>3. handler' \in [Users -> {"idle", "insert", "push", "accept", "accepted", "rejected"}]
    BY <1>0 DEF IInv, TypeOK
  <2> QED BY <1>0, <2>1, <2>2, <2>3 DEF IInv, TypeOK
<1>2. handler'[u] = "idle" /\ \A w \in Users \ {u} : handler'[w] = handler[w]
  BY <1>0 DEF IInv, TypeOK
<1>3. inbox'[u] = inbox[u] \ {peer[u]} /\ \A w \in Users \ {u} : inbox'[w] = inbox[w]
  BY <1>0 DEF IInv, TypeOK
<1>4. RowExists'
  <2>1. \A w, s \in Users : s \in inbox'[w] => s \in inbox[w]
    BY <1>3
  <2> QED BY <1>0, <1>2, <2>1 DEF IInv, RowExists
<1>5. FriendshipIsMutual'
  BY <1>0 DEF IInv, FriendshipIsMutual
<1>6. RequestIsShown'
  <2>1. table[<<peer[u], u>>] # "PENDING"
    BY <1>0 DEF IInv, RowExists
  <2>2. \A w, s \in Users : s \in inbox[w] /\ table[<<s, w>>] = "PENDING" => s \in inbox'[w]
    BY <1>3, <2>1
  <2>3. \A w \in Users : handler[w] = "push" => handler'[w] = "push"
    BY <1>0, <1>2
  <2> QED BY <1>0, <2>2, <2>3 DEF IInv, RequestIsShown
<1>7. ListIsCurrent'
  <2>1. \A w \in Users : GetFriendList(w)' = GetFriendList(w)
    BY <1>0 DEF GetFriendList
  <2>2. ASSUME NEW w \in Users, ~stale'[w], w \in online
        PROVE  /\ ~stale[w] /\ w # peer[u] /\ ~(w = u /\ handler[u] = "accepted")
    BY <1>0, <2>2
  <2>3. ASSUME NEW w \in Users, ~stale'[w], w \in online,
               \A v \in Users : handler'[v] = "accepted" => w \notin {v, peer[v]},
               \A v \in Users : handler'[v] = "rejected" => w # peer[v]
        PROVE  list[w] = GetFriendList(w)
    <3>1. \A v \in Users : handler[v] = "accepted" => w \notin {v, peer[v]}
      BY <1>2, <2>2, <2>3
    <3>2. \A v \in Users : handler[v] = "rejected" => w # peer[v]
      BY <1>2, <2>2, <2>3
    <3> QED BY <2>2, <2>3, <3>1, <3>2 DEF IInv, ListIsCurrent
  <2> QED BY <1>0, <2>1, <2>3 DEF ListIsCurrent
<1> QED BY <1>1, <1>4, <1>5, <1>6, <1>7 DEF IInv

----------------------------------------------------------------------------
LEMMA NextIInv == ASSUME IInv, [Next]_vars PROVE IInv'
<1>1. CASE UNCHANGED vars
  <2>1. UNCHANGED <<table, handler, peer, online, found, task, inbox, list, stale>>
    BY <1>1 DEF vars, rowVars, loginVars, clientVars
  <2>2. TypeOK'
    BY <2>1 DEF IInv, TypeOK
  <2>3. RowExists'
    BY <2>1 DEF IInv, RowExists
  <2>4. FriendshipIsMutual'
    BY <2>1 DEF IInv, FriendshipIsMutual
  <2>5. RequestIsShown'
    BY <2>1 DEF IInv, RequestIsShown
  <2>6. ListIsCurrent'
    BY <2>1 DEF IInv, ListIsCurrent, GetFriendList
  <2> QED BY <2>2, <2>3, <2>4, <2>5, <2>6 DEF IInv
<1>2. CASE Next
  BY <1>2, LoginIInv, TaskReadIInv, TaskPushIInv, TaskDoneIInv, LogoutIInv, RefreshIInv,
     AddInsertIInv, AddPushIInv, AcceptCommitIInv, AcceptRollbackIInv, AnswerIInv,
     AddSelectIInv, AcceptStartIInv, RejectIInv DEF Next
<1> QED BY <1>1, <1>2

\* The inductive invariant.
LEMMA FriendsInvariant == Spec => []IInv
<1>1. IInv /\ [Next]_vars => IInv'
  BY NextIInv
<1> QED BY InitIInv, <1>1, PTL DEF Spec

\* A friendship has two sides (FriendDao::HandleFriend writes both rows in one
\* transaction), for any users and requests and whatever transactions fail.
THEOREM FriendshipsAreMutual == Spec => []FriendshipIsMutual
<1>1. IInv => FriendshipIsMutual
  BY DEF IInv
<1> QED BY <1>1, FriendsInvariant, PTL

\* No request that waits for an answer is lost between the table, the task that
\* HandleLogin queues and the push of FriendService::AddFriend.
THEOREM RequestsAreShown == Spec => []RequestIsShown
<1>1. IInv => RequestIsShown
  BY DEF IInv
<1> QED BY <1>1, FriendsInvariant, PTL

\* A friend list that is not about to be fetched is that of the database.
THEOREM FriendListsAreCurrent == Spec => []FriendListIsCurrent
<1>1. ASSUME IInv PROVE FriendListIsCurrent
  <2>1. ASSUME NEW u \in Users, u \in online, ~stale[u],
               ~(\E v \in Users : handler[v] \in {"accepted", "rejected"} /\ u \in {v, peer[v]})
        PROVE  list[u] = GetFriendList(u)
    <3>1. \A v \in Users : handler[v] = "accepted" => u \notin {v, peer[v]}
      BY <2>1
    <3>2. \A v \in Users : handler[v] = "rejected" => u # peer[v]
      BY <2>1
    <3> QED BY <1>1, <2>1, <3>1, <3>2 DEF IInv, ListIsCurrent
  <2> QED BY <2>1 DEF FriendListIsCurrent
<1>2. IInv => FriendListIsCurrent
  BY <1>1
<1> QED BY <1>2, FriendsInvariant, PTL
=============================================================================
