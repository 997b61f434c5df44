-------------------------- MODULE WebserverProofs --------------------------
(***************************************************************************)
(* Proofs about Webserver, for any sets of descriptors, connection objects *)
(* and users, and any number of workers and of threads that push.          *)
(*                                                                         *)
(* What may not be lost (descriptors, hangups, users) follows from IInv:   *)
(* connections_ and the kernel agree on whose each descriptor is, every    *)
(* pointer is to an object that was accepted, and a closed connection that *)
(* still has its socket is in the hands of a thread inside close_conn.     *)
(*                                                                         *)
(* That no connection is closed twice and none is used once destroyed      *)
(* holds as long as no timer expires and nothing is pushed (quiet).  It    *)
(* needs OneShot: each connection is armed, or in one task, or with one    *)
(* thread; and that user_count is the number of open connections.          *)
(***************************************************************************)
EXTENDS Webserver, FiniteSetTheorems, WellFoundedInduction, TLAPS

\* A leaf is tried with Zenon first: most need no arithmetic.
USE ZenonT(5), SMTT(30)

Labels == {"idle", "read", "process", "register", "rearm", "del_fd", "check", "mark",
           "unregister", "close", "log", "push", "undefined"}

\* The threads that run CloseConn_; the others only push.
Owners == Workers \cup {Main}
Busy(t) == pc[t] \notin {"idle", "log", "undefined"}

\* What is in each variable.
TypeOK ==
    /\ sock \in [Fds -> Objs \cup {None}] /\ connections_ \in [Fds -> Objs \cup {None}]
    /\ armed \subseteq Fds /\ timer \subseteq Fds /\ destroyed \subseteq Objs
    /\ fd_ \in [Objs -> Fds \cup {None}]
    /\ is_close_ \in [Objs -> BOOLEAN]
    /\ user_id_ \in [Objs -> Users \cup {None}]
    /\ user_count \in Int
    /\ online_connections_ \in [Users -> Objs \cup {None}]
    /\ last \in [Users -> Objs \cup {None}]
    /\ tasks \in Seq(Objs)
    /\ pc \in [Threads -> Labels]
    /\ obj \in [Threads -> Objs \cup {None}]

\* connections_ holds the objects that are not destroyed, each under its descriptor,
\* and the kernel has no socket that is not in it.
Table ==
    /\ \A f \in Fds : connections_[f] # None =>
          fd_[connections_[f]] = f /\ connections_[f] \notin destroyed
    /\ \A o \in Objs \ destroyed : fd_[o] # None => connections_[fd_[o]] = o
    /\ \A f \in timer : connections_[f] # None
    /\ \A f \in Fds : sock[f] # None => connections_[f] = sock[f]
    /\ \A o \in Objs : ~is_close_[o] => fd_[o] # None /\ sock[fd_[o]] = o

\* Every pointer is to an object that was accepted.
Pointers ==
    /\ \A o \in destroyed : fd_[o] # None
    /\ \A t \in Threads : pc[t] # "idle" => obj[t] # None /\ fd_[obj[t]] # None
    /\ \A i \in 1..Len(tasks) : fd_[tasks[i]] # None
    /\ \A u \in Users :
          /\ online_connections_[u] # None => fd_[online_connections_[u]] # None
          /\ last[u] # None => fd_[last[u]] # None
    /\ \A o \in Objs : user_id_[o] \in {None, LoginAs[o]}
    /\ \A t \in Threads : pc[t] = "register" => user_id_[obj[t]] = LoginAs[obj[t]]
    /\ \A t \in Pushers : pc[t] \in {"idle", "push", "undefined"}

\* How far each thread is in close_conn.
Closing ==
    /\ \A t \in Threads : pc[t] \in {"unregister", "close", "log"} => is_close_[obj[t]]
    /\ \A t \in Threads : pc[t] = "log" => sock[fd_[obj[t]]] # obj[t]
    /\ \A f \in Fds : sock[f] # None /\ is_close_[sock[f]] =>
          \E t \in Threads : obj[t] = sock[f] /\ pc[t] \in {"unregister", "close"}

\* Only clients send and hang up.
Bytes == data \subseteq Objs /\ hup \subseteq Objs

IInv ==
    /\ TypeOK /\ Table /\ Pointers /\ Closing
    /\ HangupIsNoticed /\ OnlineUserIsReachable

\* One-shot registration passes each connection from hand to hand: it is armed, or in
\* one task, or with one thread, and only a connection that is not yet closed is in
\* the map of the users online.
ArmedIsOpen(f) == sock[f] # None /\ ~is_close_[sock[f]]

TaskIsOpen(i) ==
    /\ sock[fd_[tasks[i]]] = tasks[i] /\ ~is_close_[tasks[i]]
    /\ fd_[tasks[i]] \notin armed
    /\ \A j \in 1..Len(tasks) : tasks[j] = tasks[i] => i = j

OwnerIsAlone(t) ==
    /\ sock[fd_[obj[t]]] = obj[t] /\ fd_[obj[t]] \notin armed
    /\ is_close_[obj[t]] <=> pc[t] \in {"unregister", "close"}
    /\ \A i \in 1..Len(tasks) : tasks[i] # obj[t]
    /\ \A s \in Owners : Busy(s) /\ obj[s] = obj[t] => s = t

OnlineIsLive(u) ==
    /\ user_id_[online_connections_[u]] = u
    /\ sock[fd_[online_connections_[u]]] = online_connections_[u]
    /\ \A t \in Owners : obj[t] = online_connections_[u] => pc[t] # "close"

OneShot ==
    /\ \A f \in armed : ArmedIsOpen(f)
    /\ \A i \in 1..Len(tasks) : TaskIsOpen(i)
    /\ \A t \in Owners : Busy(t) => OwnerIsAlone(t)
    /\ \A u \in Users : online_connections_[u] # None => OnlineIsLive(u)

open == { o \in Objs : ~is_close_[o] }
Counted == IsFiniteSet(open) /\ user_count = Cardinality(open)

QInv == quiet => OneShot /\ Counted

----------------------------------------------------------------------------
\* A step of a thread that only moves it on: the pointer it holds, the table and the
\* tasks stay.
Moves(t, l) ==
    /\ pc[t] # "idle"
    /\ pc' = [pc EXCEPT ![t] = l]
    /\ UNCHANGED <<obj, tasks, fd_, connections_, destroyed, timer>>

LEMMA MovesPc ==
    ASSUME TypeOK, NEW t \in Threads, NEW l \in Labels, Moves(t, l)
    PROVE  /\ pc'[t] = l /\ \A s \in Threads \ {t} : pc'[s] = pc[s]
           /\ pc' \in [Threads -> Labels]
BY DEF TypeOK, Moves

LEMMA MovesTable ==
    ASSUME TypeOK, Table, NEW t \in Threads, NEW l \in Labels, Moves(t, l),
           UNCHANGED <<sock, is_close_>>
    PROVE  Table'
BY DEF Table, Moves

LEMMA MovesPointers ==
    ASSUME TypeOK, Pointers, NEW t \in Threads, NEW l \in Labels, Moves(t, l),
           UNCHANGED <<online_connections_, last, user_id_>>,
           l # "register", t \in Pushers => l \in {"idle", "push", "undefined"}
    PROVE  Pointers'
<1>1. UNCHANGED <<obj, tasks, fd_, connections_, destroyed, timer>> /\ pc[t] # "idle"
  BY DEF Moves
<1>2. /\ pc'[t] = l /\ \A s \in Threads \ {t} : pc'[s] = pc[s]
  BY MovesPc
<1>3. Pushers \subseteq Threads
  BY DEF Threads
<1> QED BY <1>1, <1>2, <1>3 DEF Pointers

\* A thread that is not between its Mark and its close keeps the sockets of the
\* connections marked in other hands.
LEMMA MovesClosing ==
    ASSUME IInv, NEW t \in Threads, NEW l \in Labels, Moves(t, l),
           UNCHANGED <<sock, is_close_>>,
           l \notin {"unregister", "close", "log"},
           pc[t] \in {"unregister", "close"} => obj[t] \in destroyed
    PROVE  Closing'
<1>1. UNCHANGED <<obj, tasks, fd_, connections_, destroyed, timer, sock, is_close_>>
  BY DEF Moves
<1>2. /\ pc'[t] = l /\ \A s \in Threads \ {t} : pc'[s] = pc[s]
  BY MovesPc DEF IInv
<1>3. ASSUME NEW f \in Fds, sock[f] # None, is_close_[sock[f]]
      PROVE  \E s \in Threads : obj[s] = sock[f] /\ pc'[s] \in {"unregister", "close"}
  <2>1. PICK s \in Threads : obj[s] = sock[f] /\ pc[s] \in {"unregister", "close"}
    BY <1>3 DEF IInv, Closing
  <2>2. sock[f] \notin destroyed
    BY <1>3 DEF IInv, Table
  <2>3. s # t
    BY <2>1, <2>2
  <2> QED BY <2>1, <2>3, <1>2
<1>4. \A s \in Threads : pc'[s] \in {"unregister", "close", "log"} => pc'[s] = pc[s]
  BY <1>2
<1> QED BY <1>1, <1>3, <1>4 DEF IInv, Closing

LEMMA MovesHangup ==
    ASSUME IInv, NEW t \in Threads, NEW l \in Labels, Moves(t, l),
           sock' = sock, armed \subseteq armed',
           l \notin {"idle", "push", "undefined"} \/ pc[t] = "push"
              \/ obj[t] \in destroyed \/ fd_[obj[t]] \in armed'
              \/ sock[fd_[obj[t]]] # obj[t]
    PROVE  HangupIsNoticed'
<1>1. UNCHANGED <<obj, tasks, sock>>
  BY DEF Moves
<1>2. /\ pc'[t] = l /\ \A s \in Threads \ {t} : pc'[s] = pc[s]
  BY MovesPc DEF IInv
<1>3. ASSUME NEW f \in Fds, sock[f] # None, f \notin armed',
             ~ \E i \in 1..Len(tasks) : tasks[i] = sock[f]
      PROVE  \E s \in Threads : obj[s] = sock[f] /\ pc'[s] \notin {"idle", "push", "undefined"}
  <2>1. PICK s \in Threads : obj[s] = sock[f] /\ pc[s] \notin {"idle", "push", "undefined"}
    BY <1>3 DEF IInv, HangupIsNoticed
  <2>2. sock[f] \notin destroyed /\ fd_[sock[f]] = f
    BY <1>3 DEF IInv, Table
  <2>3. CASE s = t
    <3>1. pc[t] # "push" /\ obj[t] \notin destroyed /\ fd_[obj[t]] = f /\ obj[t] = sock[f]
      BY <2>1, <2>2, <2>3
    <3>2. l \notin {"idle", "push", "undefined"}
      BY <3>1, <1>3
    <3> QED BY <3>1, <3>2, <1>2
  <2>4. CASE s # t
    BY <2>1, <2>4, <1>2
  <2> QED BY <2>3, <2>4
<1> QED BY <1>1, <1>3 DEF HangupIsNoticed

LEMMA SameOnline ==
    ASSUME OnlineUserIsReachable, UNCHANGED <<last, is_close_, user_id_, online_connections_>>
    PROVE  OnlineUserIsReachable'
BY DEF OnlineUserIsReachable

LEMMA InTypes ==
    ASSUME TypeOK, Pointers, NEW t \in Threads, pc[t] # "idle"
    PROVE  obj[t] \in Objs /\ fd_[obj[t]] \in Fds
BY DEF TypeOK, Pointers

LEMMA InitIInv == Init => IInv
<1> SUFFICES ASSUME Init PROVE IInv
  OBVIOUS
<1>1. TypeOK
  BY DEF Init, TypeOK, Labels
<1>2. tasks = <<>> /\ Len(tasks) = 0 /\ 1..Len(tasks) = {}
  BY DEF Init
<1>3. Pushers \subseteq Threads
  BY DEF Threads
<1>4. Table
  BY DEF Init, Table
<1>5. Pointers
  BY <1>2, <1>3 DEF Init, Pointers
<1>6. Closing
  BY DEF Init, Closing
<1>7. HangupIsNoticed
  BY DEF Init, HangupIsNoticed
<1>8. OnlineUserIsReachable
  BY DEF Init, OnlineUserIsReachable
<1> QED BY <1>1, <1>4, <1>5, <1>6, <1>7, <1>8 DEF IInv

----------------------------------------------------------------------------
\* The steps of CloseConn_ and close_conn.
LEMMA DelFdIInv ==
    ASSUME IInv, NEW t \in Threads, DelFd(t)
    PROVE  IInv'
<1>0. /\ pc[t] = "del_fd" /\ obj[t] \notin destroyed
      /\ armed' = armed \ {fd_[obj[t]]}
      /\ pc' = [pc EXCEPT ![t] = "check"]
      /\ UNCHANGED <<sock, connections_, fd_, destroyed, timer, is_close_, user_id_,
                     user_count, online_connections_, tasks, obj, last>>
  BY DEF DelFd, Goto, objects
<1>1. "check" \in Labels /\ Moves(t, "check")
  BY <1>0 DEF Labels, Moves
<1>2. t \notin Pushers
  BY <1>0 DEF IInv, Pointers
<1>3. /\ pc'[t] = "check" /\ \A s \in Threads \ {t} : pc'[s] = pc[s]
      /\ pc' \in [Threads -> Labels]
  BY <1>1, MovesPc DEF IInv
<1>4. TypeOK'
  BY <1>0, <1>3 DEF IInv, TypeOK
<1>5. Table'
  BY <1>0, <1>1, MovesTable DEF IInv
<1>6. Pointers'
  BY <1>0, <1>1, <1>2, MovesPointers DEF IInv
<1>7. Closing'
  BY <1>0, <1>1, MovesClosing
<1>8. HangupIsNoticed'
  <2>1. ASSUME NEW f \in Fds, sock[f] # None, f = fd_[obj[t]]
        PROVE  obj[t] = sock[f]
    <3>1. obj[t] \in Objs
      BY <1>0, InTypes DEF IInv
    <3>2. connections_[f] = obj[t] /\ connections_[f] = sock[f]
      BY <1>0, <2>1, <3>1 DEF IInv, Table, Pointers
    <3> QED BY <3>2
  <2>2. ASSUME NEW f \in Fds, sock[f] # None, f # fd_[obj[t]], f \notin armed,
               ~ \E i \in 1..Len(tasks) : tasks[i] = sock[f]
        PROVE  \E s \in Threads : obj[s] = sock[f] /\ pc'[s] \notin {"idle", "push", "undefined"}
    BY <1>3, <2>2 DEF IInv, HangupIsNoticed
  <2>3. pc'[t] \notin {"idle", "push", "undefined"}
    BY <1>3
  <2> QED BY <1>0, <2>1, <2>2, <2>3 DEF HangupIsNoticed
<1>9. OnlineUserIsReachable'
  BY <1>0, SameOnline DEF IInv
<1> QED BY <1>4, <1>5, <1>6, <1>7, <1>8, <1>9 DEF IInv

LEMMA CheckCloseIInv ==
    ASSUME IInv, NEW t \in Threads, CheckClose(t)
    PROVE  IInv'
<1> DEFINE l == IF is_close_[obj[t]] THEN "idle" ELSE "mark"
<1>0. /\ pc[t] = "check" /\ obj[t] \notin destroyed
      /\ pc' = [pc EXCEPT ![t] = l]
      /\ UNCHANGED <<sock, armed, connections_, fd_, destroyed, timer, is_close_, user_id_,
                     user_count, online_connections_, tasks, obj, last>>
  BY DEF CheckClose, Goto, objects, kernel
<1>a. l \in {"idle", "mark"} /\ (is_close_[obj[t]] \/ l = "mark")
  OBVIOUS
<1> HIDE DEF l
<1>1. l \in Labels /\ Moves(t, l)
  BY <1>0, <1>a DEF Labels, Moves
<1>2. t \notin Pushers
  BY <1>0 DEF IInv, Pointers
<1>3. /\ pc'[t] = l /\ \A s \in Threads \ {t} : pc'[s] = pc[s]
      /\ pc' \in [Threads -> Labels]
  BY <1>1, MovesPc DEF IInv
<1>4. TypeOK'
  BY <1>0, <1>3 DEF IInv, TypeOK
<1>5. Table'
  BY <1>0, <1>1, MovesTable DEF IInv
<1>6. Pointers'
  BY <1>0, <1>1, <1>2, <1>a, MovesPointers DEF IInv
<1>7. Closing'
  BY <1>0, <1>1, <1>a, MovesClosing
<1>8. HangupIsNoticed'
  <2>1. ASSUME NEW f \in Fds, sock[f] # None, is_close_[sock[f]]
        PROVE  \E s \in Threads : obj[s] = sock[f] /\ pc'[s] \notin {"idle", "push", "undefined"}
    <3>1. PICK s \in Threads : obj[s] = sock[f] /\ pc[s] \in {"unregister", "close"}
      BY <2>1 DEF IInv, Closing
    <3>2. s # t
      BY <1>0, <3>1
    <3> QED BY <1>3, <3>1, <3>2
  <2>2. ASSUME NEW f \in Fds, sock[f] # None, ~is_close_[sock[f]], f \notin armed,
               ~ \E i \in 1..Len(tasks) : tasks[i] = sock[f]
        PROVE  \E s \in Threads : obj[s] = sock[f] /\ pc'[s] \notin {"idle", "push", "undefined"}
    <3>1. PICK s \in Threads : obj[s] = sock[f] /\ pc[s] \notin {"idle", "push", "undefined"}
      BY <2>2 DEF IInv, HangupIsNoticed
    <3>2. CASE s = t
      BY <1>3, <1>a, <2>2, <3>1, <3>2
    <3>3. CASE s # t
      BY <1>3, <3>1, <3>3
    <3> QED BY <3>2, <3>3
  <2> QED BY <1>0, <2>1, <2>2 DEF HangupIsNoticed
<1>9. OnlineUserIsReachable'
  BY <1>0, SameOnline DEF IInv
<1> QED BY <1>4, <1>5, <1>6, <1>7, <1>8, <1>9 DEF IInv

LEMMA MarkIInv ==
    ASSUME IInv, NEW t \in Threads, Mark(t)
    PROVE  IInv'
<1>0. /\ pc[t] = "mark" /\ obj[t] \notin destroyed
      /\ is_close_' = [is_close_ EXCEPT ![obj[t]] = TRUE]
      /\ user_count' = user_count - 1
      /\ pc' = [pc EXCEPT ![t] = "unregister"]
      /\ UNCHANGED <<sock, armed, connections_, fd_, destroyed, timer, user_id_,
                     online_connections_, tasks, obj, last>>
  BY DEF Mark, Goto, objects, kernel
<1>1. "unregister" \in Labels /\ Moves(t, "unregister")
  BY <1>0 DEF Labels, Moves
<1>2. t \notin Pushers
  BY <1>0 DEF IInv, Pointers
<1>3. /\ pc'[t] = "unregister" /\ \A s \in Threads \ {t} : pc'[s] = pc[s]
      /\ pc' \in [Threads -> Labels]
  BY <1>1, MovesPc DEF IInv
<1>4. obj[t] \in Objs /\ fd_[obj[t]] \in Fds
  BY <1>0, InTypes DEF IInv
<1>5. is_close_'[obj[t]] /\ \A o \in Objs \ {obj[t]} : is_close_'[o] = is_close_[o]
  BY <1>0, <1>4 DEF IInv, TypeOK
<1>6. TypeOK'
  <2>1. user_count' \in Int
    BY <1>0 DEF IInv, TypeOK
  <2>2. is_close_' \in [Objs -> BOOLEAN]
    BY <1>0 DEF IInv, TypeOK
  <2> QED BY <1>0, <1>3, <2>1, <2>2 DEF IInv, TypeOK
<1>7. Table'
  BY <1>0, <1>5 DEF IInv, Table
<1>8. Pointers'
  BY <1>0, <1>1, <1>2, MovesPointers DEF IInv
<1>9. Closing'
  <2>1. ASSUME NEW s \in Threads, pc'[s] \in {"unregister", "close", "log"}
        PROVE  is_close_'[obj[s]]
    <3>1. CASE s = t
      BY <1>5, <3>1
    <3>2. CASE s # t
      <4>1. pc[s] \in {"unregister", "close", "log"} /\ pc[s] # "idle"
        BY <1>3, <2>1, <3>2
      <4>2. obj[s] \in Objs /\ is_close_[obj[s]]
        BY <4>1, InTypes DEF IInv, Closing
      <4> QED BY <1>5, <4>2
    <3> QED BY <3>1, <3>2
  <2>2. ASSUME NEW s \in Threads, pc'[s] = "log"
        PROVE  sock[fd_[obj[s]]] # obj[s]
    BY <1>3, <2>2 DEF IInv, Closing
  <2>3. ASSUME NEW f \in Fds, sock[f] # None, is_close_'[sock[f]]
        PROVE  \E s \in Threads : obj[s] = sock[f] /\ pc'[s] \in {"unregister", "close"}
    <3>1. CASE sock[f] = obj[t]
      BY <1>3, <3>1
    <3>2. CASE sock[f] # obj[t]
      <4>1. sock[f] \in Objs
        BY <2>3 DEF IInv, TypeOK
      <4>2. PICK s \in Threads : obj[s] = sock[f] /\ pc[s] \in {"unregister", "close"}
        BY <2>3, <3>2, <4>1, <1>5 DEF IInv, Closing
      <4> QED BY <1>3, <3>2, <4>2
    <3> QED BY <3>1, <3>2
  <2> QED BY <1>0, <2>1, <2>2, <2>3 DEF Closing
<1>10. HangupIsNoticed'
  BY <1>0, <1>1, MovesHangup
<1>11. OnlineUserIsReachable'
  BY <1>0, <1>5 DEF IInv, TypeOK, OnlineUserIsReachable
<1> QED BY <1>6, <1>7, <1>8, <1>9, <1>10, <1>11 DEF IInv

LEMMA UnregisterIInv ==
    ASSUME IInv, NEW t \in Threads, Unregister(t)
    PROVE  IInv'
<1>0. /\ pc[t] = "unregister" /\ obj[t] \notin destroyed
      /\ online_connections_' = [u \in Users |->
            IF u = user_id_[obj[t]] THEN None ELSE online_connections_[u]]
      /\ pc' = [pc EXCEPT ![t] = "close"]
      /\ UNCHANGED <<sock, armed, connections_, fd_, destroyed, timer, is_close_, user_id_,
                     user_count, tasks, obj, last>>
  BY DEF Unregister, Goto, objects, kernel
<1>1. "close" \in Labels /\ Moves(t, "close")
  BY <1>0 DEF Labels, Moves
<1>2. t \notin Pushers
  BY <1>0 DEF IInv, Pointers
<1>3. /\ pc'[t] = "close" /\ \A s \in Threads \ {t} : pc'[s] = pc[s]
      /\ pc' \in [Threads -> Labels]
  BY <1>1, MovesPc DEF IInv
<1>4. obj[t] \in Objs /\ is_close_[obj[t]]
  BY <1>0, InTypes DEF IInv, Closing
<1>5. \A u \in Users : online_connections_'[u] =
         IF u = user_id_[obj[t]] THEN None ELSE online_connections_[u]
  BY <1>0
<1>6. TypeOK'
  <2>1. online_connections_' \in [Users -> Objs \cup {None}]
    BY <1>0 DEF IInv, TypeOK
  <2> QED BY <1>0, <1>3, <2>1 DEF IInv, TypeOK
<1>7. Table'
  BY <1>0, <1>1, MovesTable DEF IInv
<1>8. Pointers'
  <2>1. \A u \in Users : online_connections_'[u] # None =>
           online_connections_'[u] = online_connections_[u]
    BY <1>5
  <2>2. \A s \in Threads : pc'[s] # "idle" => pc[s] # "idle"
    BY <1>0, <1>3
  <2>3. \A s \in Threads : pc'[s] = "register" => pc[s] = "register"
    BY <1>0, <1>3
  <2>4. \A s \in Pushers : pc'[s] = pc[s]
    BY <1>2, <1>3 DEF Threads
  <2> QED BY <1>0, <2>1, <2>2, <2>3, <2>4 DEF IInv, Pointers
<1>9. Closing'
  <2>1. \A s \in Threads : pc'[s] \in {"unregister", "close", "log"} =>
           pc[s] \in {"unregister", "close", "log"}
    BY <1>0, <1>3
  <2>2. \A s \in Threads : pc'[s] = "log" => pc[s] = "log"
    BY <1>0, <1>3
  <2>3. \A s \in Threads : pc[s] \in {"unregister", "close"} =>
           pc'[s] \in {"unregister", "close"}
    BY <1>3
  <2> QED BY <1>0, <2>1, <2>2, <2>3 DEF IInv, Closing
<1>10. HangupIsNoticed'
  BY <1>0, <1>1, MovesHangup
<1>11. OnlineUserIsReachable'
  <2>1. ASSUME NEW u \in Users, last[u] # None, ~is_close_[last[u]],
               \A x \in Objs : user_id_[x] = u => x = last[u]
        PROVE  online_connections_'[u] = last[u]
    <3>1. online_connections_[u] = last[u]
      BY <2>1 DEF IInv, OnlineUserIsReachable
    <3>2. u # user_id_[obj[t]]
      BY <1>4, <2>1
    <3> QED BY <1>5, <3>1, <3>2
  <2> QED BY <1>0, <2>1 DEF OnlineUserIsReachable
<1> QED BY <1>6, <1>7, <1>8, <1>9, <1>10, <1>11 DEF IInv

LEMMA CloseFdIInv ==
    ASSUME IInv, NEW t \in Threads, CloseFd(t)
    PROVE  IInv'
<1> DEFINE f == fd_[obj[t]]
<1>0. /\ pc[t] = "close" /\ obj[t] \notin destroyed
      /\ sock' = [sock EXCEPT ![f] = None]
      /\ armed' = armed \ {f}
      /\ pc' = [pc EXCEPT ![t] = "log"]
      /\ UNCHANGED <<connections_, fd_, destroyed, timer, is_close_, user_id_,
                     user_count, online_connections_, tasks, obj, last>>
  BY DEF CloseFd, Goto, objects
<1>1. "log" \in Labels /\ Moves(t, "log")
  BY <1>0 DEF Labels, Moves
<1>2. t \notin Pushers
  BY <1>0 DEF IInv, Pointers
<1>3. /\ pc'[t] = "log" /\ \A s \in Threads \ {t} : pc'[s] = pc[s]
      /\ pc' \in [Threads -> Labels]
  BY <1>1, MovesPc DEF IInv
<1>4. obj[t] \in Objs /\ is_close_[obj[t]] /\ f \in Fds
  BY <1>0, InTypes DEF IInv, Closing
<1>5. connections_[f] = obj[t]
  BY <1>0, <1>4 DEF IInv, Table, Pointers
<1>6. sock'[f] = None /\ \A g \in Fds \ {f} : sock'[g] = sock[g]
  BY <1>0, <1>4 DEF IInv, TypeOK
<1>7. \A o \in Objs : sock'[fd_[o]] = o => sock[fd_[o]] = o
  BY <1>0, <1>4, <1>6, WebserverAssumption DEF IInv, TypeOK
<1> HIDE DEF f
<1>8. TypeOK'
  <2>1. sock' \in [Fds -> Objs \cup {None}]
    BY <1>0 DEF IInv, TypeOK
  <2> QED BY <1>0, <1>3, <2>1 DEF IInv, TypeOK
<1>9. Table'
  <2>1. ASSUME NEW o \in Objs, ~is_close_[o]
        PROVE  fd_[o] # None /\ sock'[fd_[o]] = o
    <3>1. fd_[o] # None /\ sock[fd_[o]] = o /\ fd_[o] \in Fds
      BY <2>1 DEF IInv, Table, TypeOK
    <3>2. o # obj[t] /\ o # None
      BY <2>1, <1>4, WebserverAssumption
    <3>3. connections_[fd_[o]] = o
      BY <3>1, <3>2 DEF IInv, Table
    <3>4. fd_[o] # f
      BY <3>2, <3>3, <1>5
    <3> QED BY <1>6, <3>1, <3>4
  <2>2. \A g \in Fds : sock'[g] # None => sock'[g] = sock[g]
    BY <1>6
  <2> QED BY <1>0, <2>1, <2>2 DEF IInv, Table
<1>10. Pointers'
  BY <1>0, <1>1, <1>2, MovesPointers DEF IInv
<1>11. Closing'
  <2>1. \A s \in Threads : pc'[s] \in {"unregister", "close", "log"} =>
           pc[s] \in {"unregister", "close", "log"}
    BY <1>0, <1>3
  <2>2. ASSUME NEW s \in Threads, pc'[s] = "log"
        PROVE  sock'[fd_[obj[s]]] # obj[s]
    <3>1. CASE s = t
      BY <3>1, <1>4, <1>6, WebserverAssumption DEF f
    <3>2. CASE s # t
      <4>1. pc[s] = "log" /\ pc[s] # "idle"
        BY <1>3, <2>2, <3>2
      <4>2. obj[s] \in Objs /\ sock[fd_[obj[s]]] # obj[s]
        BY <4>1, InTypes DEF IInv, Closing
      <4> QED BY <1>7, <4>2
    <3> QED BY <3>1, <3>2
  <2>3. ASSUME NEW g \in Fds, sock'[g] # None, is_close_[sock'[g]]
        PROVE  \E s \in Threads : obj[s] = sock'[g] /\ pc'[s] \in {"unregister", "close"}
    <3>1. g # f /\ sock'[g] = sock[g]
      BY <2>3, <1>6
    <3>2. PICK s \in Threads : obj[s] = sock[g] /\ pc[s] \in {"unregister", "close"}
      BY <2>3, <3>1 DEF IInv, Closing
    <3>3. obj[s] # obj[t]
      BY <3>1, <3>2, <2>3 DEF IInv, Table, f
    <3> QED BY <1>3, <3>1, <3>2, <3>3
  <2> QED BY <1>0, <2>1, <2>2, <2>3 DEF IInv, Closing
<1>12. HangupIsNoticed'
  <2>1. ASSUME NEW g \in Fds, sock'[g] # None, g \notin armed',
               ~ \E i \in 1..Len(tasks) : tasks[i] = sock'[g]
        PROVE  \E s \in Threads : obj[s] = sock'[g] /\ pc'[s] \notin {"idle", "push", "undefined"}
    <3>1. g # f /\ sock'[g] = sock[g] /\ g \notin armed
      BY <2>1, <1>0, <1>6
    <3>2. PICK s \in Threads : obj[s] = sock[g] /\ pc[s] \notin {"idle", "push", "undefined"}
      BY <2>1, <3>1 DEF IInv, HangupIsNoticed
    <3>3. pc'[s] \notin {"idle", "push", "undefined"}
      BY <1>3, <3>2
    <3> QED BY <3>1, <3>2, <3>3
  <2> QED BY <1>0, <2>1 DEF HangupIsNoticed
<1>13. OnlineUserIsReachable'
  BY <1>0, SameOnline DEF IInv
<1> QED BY <1>8, <1>9, <1>10, <1>11, <1>12, <1>13 DEF IInv

LEMMA LogQuitIInv ==
    ASSUME IInv, NEW t \in Threads, LogQuit(t)
    PROVE  IInv'
<1>0. /\ pc[t] = "log" /\ obj[t] \notin destroyed
      /\ pc' = [pc EXCEPT ![t] = "idle"]
      /\ UNCHANGED <<sock, armed, connections_, fd_, destroyed, timer, is_close_, user_id_,
                     user_count, online_connections_, tasks, obj, last>>
  BY DEF LogQuit, Goto, objects, kernel
<1>1. "idle" \in Labels /\ Moves(t, "idle")
  BY <1>0 DEF Labels, Moves
<1>2. pc' \in [Threads -> Labels]
  BY <1>1, MovesPc DEF IInv
<1>3. TypeOK'
  BY <1>0, <1>2 DEF IInv, TypeOK
<1>4. Table'
  BY <1>0, <1>1, MovesTable DEF IInv
<1>5. Pointers'
  BY <1>0, <1>1, MovesPointers DEF IInv
<1>6. Closing'
  BY <1>0, <1>1, MovesClosing
<1>7. sock[fd_[obj[t]]] # obj[t]
  BY <1>0 DEF IInv, Closing
<1>8. HangupIsNoticed'
  BY <1>0, <1>1, <1>7, MovesHangup
<1>9. OnlineUserIsReachable'
  BY <1>0, SameOnline DEF IInv
<1> QED BY <1>3, <1>4, <1>5, <1>6, <1>8, <1>9 DEF IInv

LEMMA UseDestroyedIInv ==
    ASSUME IInv, NEW t \in Threads, UseDestroyed(t)
    PROVE  IInv'
<1>0. /\ pc[t] # "idle" /\ obj[t] \in destroyed
      /\ pc' = [pc EXCEPT ![t] = "undefined"]
      /\ UNCHANGED <<sock, armed, connections_, fd_, destroyed, timer, is_close_, user_id_,
                     user_count, online_connections_, tasks, obj, last>>
  BY DEF UseDestroyed, Goto, objects, kernel
<1>1. "undefined" \in Labels /\ Moves(t, "undefined")
  BY <1>0 DEF Labels, Moves
<1>2. pc' \in [Threads -> Labels]
  BY <1>1, MovesPc DEF IInv
<1>3. TypeOK'
  BY <1>0, <1>2 DEF IInv, TypeOK
<1>4. Table'
  BY <1>0, <1>1, MovesTable DEF IInv
<1>5. Pointers'
  BY <1>0, <1>1, MovesPointers DEF IInv
<1>6. Closing'
  BY <1>0, <1>1, MovesClosing
<1>7. HangupIsNoticed'
  BY <1>0, <1>1, MovesHangup
<1>8. OnlineUserIsReachable'
  BY <1>0, SameOnline DEF IInv
<1> QED BY <1>3, <1>4, <1>5, <1>6, <1>7, <1>8 DEF IInv

----------------------------------------------------------------------------
\* The steps of a worker.
LEMMA TakeTaskIInv ==
    ASSUME IInv, NEW w \in Workers, TakeTask(w)
    PROVE  IInv'
<1>0. /\ pc[w] = "idle" /\ tasks # <<>>
      /\ obj' = [obj EXCEPT ![w] = Head(tasks)]
      /\ tasks' = Tail(tasks)
      /\ pc' = [pc EXCEPT ![w] = "read"]
      /\ UNCHANGED <<sock, armed, connections_, fd_, destroyed, timer, is_close_, user_id_,
                     user_count, online_connections_, last>>
  BY DEF TakeTask, Goto, objects, kernel
<1>1. w \in Threads /\ w \notin Pushers /\ Pushers \subseteq Threads
  BY WebserverAssumption DEF Threads
<1>2. /\ Head(tasks) \in Objs /\ Head(tasks) = tasks[1] /\ 1 \in 1..Len(tasks)
      /\ Len(tasks) \in Nat /\ Tail(tasks) \in Seq(Objs) /\ Len(Tail(tasks)) = Len(tasks) - 1
  BY <1>0, SMT DEF IInv, TypeOK
<1>3. ASSUME NEW i \in 1..Len(tasks') PROVE i + 1 \in 1..Len(tasks) /\ tasks'[i] = tasks[i + 1]
  BY <1>0, <1>2, SMT DEF IInv, TypeOK
<1>4. ASSUME NEW i \in 1..Len(tasks), i # 1
      PROVE i - 1 \in 1..Len(tasks') /\ tasks'[i - 1] = tasks[i]
  BY <1>0, <1>2, <1>4, SMT DEF IInv, TypeOK
<1>5. /\ pc'[w] = "read" /\ \A s \in Threads \ {w} : pc'[s] = pc[s]
      /\ obj'[w] = Head(tasks) /\ \A s \in Threads \ {w} : obj'[s] = obj[s]
  BY <1>0, <1>1 DEF IInv, TypeOK
<1>6. TypeOK'
  <2>1. "read" \in Labels
    BY DEF Labels
  <2>2. pc' \in [Threads -> Labels] /\ obj' \in [Threads -> Objs \cup {None}]
    BY <1>0, <1>1, <1>2, <2>1 DEF IInv, TypeOK
  <2> QED BY <1>0, <1>2, <2>2 DEF IInv, TypeOK
<1>7. Table'
  BY <1>0 DEF IInv, Table
<1>8. Pointers'
  <2>1. fd_[Head(tasks)] # None /\ Head(tasks) # None
    BY <1>2, WebserverAssumption DEF IInv, Pointers
  <2>2. \A i \in 1..Len(tasks') : fd_[tasks'[i]] # None
    BY <1>3 DEF IInv, Pointers
  <2> QED BY <1>0, <1>1, <1>5, <2>1, <2>2 DEF IInv, Pointers
<1>9. Closing'
  <2>1. ASSUME NEW s \in Threads, pc'[s] \in {"unregister", "close", "log"}
        PROVE  s # w /\ pc'[s] = pc[s] /\ obj'[s] = obj[s]
    BY <1>5, <2>1
  <2>2. ASSUME NEW s \in Threads, pc[s] \in {"unregister", "close"}
        PROVE  pc'[s] = pc[s] /\ obj'[s] = obj[s]
    BY <1>0, <1>5, <2>2
  <2> QED BY <1>0, <2>1, <2>2 DEF IInv, Closing
<1>10. HangupIsNoticed'
  <2>1. ASSUME NEW f \in Fds, sock[f] # None, f \notin armed,
               ~ \E i \in 1..Len(tasks') : tasks'[i] = sock[f]
        PROVE  \E s \in Threads : obj'[s] = sock[f] /\ pc'[s] \notin {"idle", "push", "undefined"}
    <3>1. CASE \E i \in 1..Len(tasks) : tasks[i] = sock[f]
      <4>1. PICK i \in 1..Len(tasks) : tasks[i] = sock[f]
        BY <3>1
      <4>2. i = 1
        BY <1>4, <2>1, <4>1
      <4> QED BY <1>1, <1>2, <1>5, <4>1, <4>2
    <3>2. CASE ~ \E i \in 1..Len(tasks) : tasks[i] = sock[f]
      <4>1. PICK s \in Threads : obj[s] = sock[f] /\ pc[s] \notin {"idle", "push", "undefined"}
        BY <2>1, <3>2 DEF IInv, HangupIsNoticed
      <4> QED BY <1>0, <1>5, <4>1
    <3> QED BY <3>1, <3>2
  <2> QED BY <1>0, <2>1 DEF HangupIsNoticed
<1>11. OnlineUserIsReachable'
  BY <1>0, SameOnline DEF IInv
<1> QED BY <1>6, <1>7, <1>8, <1>9, <1>10, <1>11 DEF IInv

LEMMA ReadIInv ==
    ASSUME IInv, NEW w \in Workers, Read(w)
    PROVE  IInv'
<1> DEFINE l == IF sock[fd_[obj[w]]] # obj[w] \/ obj[w] \in hup THEN "del_fd" ELSE "process"
<1>0. /\ pc[w] = "read" /\ obj[w] \notin destroyed
      /\ pc' = [pc EXCEPT ![w] = l]
      /\ UNCHANGED <<sock, armed, connections_, fd_, destroyed, timer, is_close_, user_id_,
                     user_count, online_connections_, tasks, obj, last>>
  BY DEF Read, Goto, objects
<1>a. l \in {"del_fd", "process"}
  OBVIOUS
<1> HIDE DEF l
<1>1. w \in Threads /\ w \notin Pushers
  BY WebserverAssumption DEF Threads
<1>2. l \in Labels /\ Moves(w, l)
  BY <1>0, <1>a DEF Labels, Moves
<1>3. pc' \in [Threads -> Labels]
  BY <1>1, <1>2, MovesPc DEF IInv
<1>4. TypeOK'
  BY <1>0, <1>3 DEF IInv, TypeOK
<1>5. Table'
  BY <1>0, <1>1, <1>2, MovesTable DEF IInv
<1>6. Pointers'
  BY <1>0, <1>1, <1>2, <1>a, MovesPointers DEF IInv
<1>7. Closing'
  BY <1>0, <1>1, <1>2, <1>a, MovesClosing
<1>8. HangupIsNoticed'
  <2>1. l \notin {"idle", "push", "undefined"} /\ armed \subseteq armed'
    BY <1>0, <1>a
  <2> QED BY <1>0, <1>1, <1>2, <2>1, MovesHangup
<1>9. OnlineUserIsReachable'
  BY <1>0, SameOnline DEF IInv
<1> QED BY <1>4, <1>5, <1>6, <1>7, <1>8, <1>9 DEF IInv

LEMMA ProcessRequestIInv ==
    ASSUME IInv, NEW w \in Workers, ProcessRequest(w)
    PROVE  IInv'
<1>0. PICK l \in {"register", "rearm"} :
         /\ pc[w] = "process" /\ obj[w] \notin destroyed
         /\ pc' = [pc EXCEPT ![w] = l]
         /\ \/ l = "register" /\ user_id_' = [user_id_ EXCEPT ![obj[w]] = LoginAs[obj[w]]]
            \/ l = "rearm" /\ user_id_' = user_id_
         /\ UNCHANGED <<sock, armed, connections_, fd_, destroyed, timer, is_close_,
                        user_count, online_connections_, tasks, obj, last>>
  BY DEF ProcessRequest, Goto, objects, kernel
<1>1. w \in Threads /\ w \notin Pushers /\ Pushers \subseteq Threads
  BY WebserverAssumption DEF Threads
<1>2. l \in Labels /\ Moves(w, l)
  BY <1>0 DEF Labels, Moves
<1>3. /\ pc'[w] = l /\ \A s \in Threads \ {w} : pc'[s] = pc[s]
      /\ pc' \in [Threads -> Labels]
  BY <1>1, <1>2, MovesPc DEF IInv
<1>4. obj[w] \in Objs /\ LoginAs[obj[w]] \in Users
  BY <1>0, <1>1, InTypes, WebserverAssumption DEF IInv
<1>5. /\ \A o \in Objs : o # obj[w] => user_id_'[o] = user_id_[o]
      /\ l = "register" => user_id_'[obj[w]] = LoginAs[obj[w]]
      /\ l # "register" => user_id_'[obj[w]] = user_id_[obj[w]]
  BY <1>0, <1>4 DEF IInv, TypeOK
<1>6. TypeOK'
  <2>1. user_id_' \in [Objs -> Users \cup {None}]
    BY <1>0, <1>4 DEF IInv, TypeOK
  <2> QED BY <1>0, <1>3, <2>1 DEF IInv, TypeOK
<1>7. Table'
  BY <1>0, <1>1, <1>2, MovesTable DEF IInv
<1>8. \A o \in Objs : user_id_'[o] \in {None, LoginAs[o]} /\
         (user_id_[o] # None => user_id_'[o] = user_id_[o])
  BY <1>5 DEF IInv, Pointers
<1>9. Pointers'
  <2>1. ASSUME NEW s \in Threads, pc'[s] = "register"
        PROVE  user_id_'[obj[s]] = LoginAs[obj[s]]
    <3>1. CASE s = w
      BY <1>3, <1>5, <2>1, <3>1
    <3>2. CASE s # w
      <4>1. pc[s] = "register" /\ pc[s] # "idle"
        BY <1>3, <2>1, <3>2
      <4>2. obj[s] \in Objs /\ user_id_[obj[s]] = LoginAs[obj[s]]
        BY <4>1, InTypes DEF IInv, Pointers
      <4>3. LoginAs[obj[s]] # None
        BY <4>2, WebserverAssumption
      <4> QED BY <4>2, <4>3, <1>8
    <3> QED BY <3>1, <3>2
  <2>2. \A s \in Threads : pc'[s] # "idle" => pc[s] # "idle"
    BY <1>0, <1>3
  <2>3. \A s \in Pushers : pc'[s] = pc[s]
    BY <1>1, <1>3
  <2> QED BY <1>0, <1>8, <2>1, <2>2, <2>3 DEF IInv, Pointers
<1>10. Closing'
  <2>1. l \notin {"unregister", "close", "log"}
    BY <1>0
  <2> QED BY <1>0, <1>1, <1>2, <2>1, MovesClosing
<1>11. HangupIsNoticed'
  <2>1. l \notin {"idle", "push", "undefined"} /\ armed \subseteq armed'
    BY <1>0
  <2> QED BY <1>0, <1>1, <1>2, <2>1, MovesHangup
<1>12. OnlineUserIsReachable'
  <2>1. ASSUME NEW u \in Users, last[u] # None, ~is_close_[last[u]],
               \A x \in Objs : user_id_'[x] = u => x = last[u]
        PROVE  online_connections_[u] = last[u]
    <3>1. u # None
      BY WebserverAssumption
    <3>2. \A x \in Objs : user_id_[x] = u => x = last[u]
      BY <1>8, <2>1, <3>1
    <3> QED BY <2>1, <3>2 DEF IInv, OnlineUserIsReachable
  <2> QED BY <1>0, <2>1 DEF OnlineUserIsReachable
<1> QED BY <1>6, <1>7, <1>9, <1>10, <1>11, <1>12 DEF IInv

LEMMA RegisterIInv ==
    ASSUME IInv, NEW w \in Workers, Register(w)
    PROVE  IInv'
<1> DEFINE u == user_id_[obj[w]]
<1>0. /\ pc[w] = "register" /\ obj[w] \notin destroyed
      /\ online_connections_' = [online_connections_ EXCEPT ![u] = obj[w]]
      /\ last' = [last EXCEPT ![u] = obj[w]]
      /\ pc' = [pc EXCEPT ![w] = "rearm"]
      /\ UNCHANGED <<sock, armed, connections_, fd_, destroyed, timer, is_close_, user_id_,
                     user_count, tasks, obj>>
  BY DEF Register, Goto, objects, kernel
<1>1. w \in Threads /\ w \notin Pushers
  BY WebserverAssumption DEF Threads
<1>2. "rearm" \in Labels /\ Moves(w, "rearm")
  BY <1>0 DEF Labels, Moves
<1>3. /\ pc'[w] = "rearm" /\ \A s \in Threads \ {w} : pc'[s] = pc[s]
      /\ pc' \in [Threads -> Labels]
  BY <1>1, <1>2, MovesPc DEF IInv
<1>4. obj[w] \in Objs /\ fd_[obj[w]] # None /\ u \in Users
  BY <1>0, <1>1, InTypes, WebserverAssumption DEF IInv, Pointers
<1> HIDE DEF u
<1>5. /\ online_connections_'[u] = obj[w] /\ last'[u] = obj[w]
      /\ \A v \in Users \ {u} : online_connections_'[v] = online_connections_[v]
                                /\ last'[v] = last[v]
  BY <1>0, <1>4 DEF IInv, TypeOK
<1>6. TypeOK'
  <2>1. online_connections_' \in [Users -> Objs \cup {None}]
    BY <1>0, <1>4 DEF IInv, TypeOK
  <2>2. last' \in [Users -> Objs \cup {None}]
    BY <1>0, <1>4 DEF IInv, TypeOK
  <2> QED BY <1>0, <1>3, <2>1, <2>2 DEF IInv, TypeOK
<1>7. Table'
  BY <1>0, <1>1, <1>2, MovesTable DEF IInv
<1>8. Pointers'
  <2>1. \A v \in Users :
          /\ online_connections_'[v] # None => fd_[online_connections_'[v]] # None
          /\ last'[v] # None => fd_[last'[v]] # None
    BY <1>4, <1>5 DEF IInv, Pointers
  <2>2. \A s \in Threads : pc'[s] # "idle" => pc[s] # "idle"
    BY <1>0, <1>3
  <2>3. \A s \in Threads : pc'[s] = "register" => pc[s] = "register"
    BY <1>0, <1>3
  <2>4. \A s \in Pushers : pc'[s] = pc[s]
    BY <1>1, <1>3 DEF Threads
  <2> QED BY <1>0, <2>1, <2>2, <2>3, <2>4 DEF IInv, Pointers
<1>9. Closing'
  BY <1>0, <1>1, <1>2, MovesClosing
<1>10. HangupIsNoticed'
  BY <1>0, <1>1, <1>2, MovesHangup
<1>11. OnlineUserIsReachable'
  BY <1>0, <1>5 DEF IInv, OnlineUserIsReachable
<1> QED BY <1>6, <1>7, <1>8, <1>9, <1>10, <1>11 DEF IInv

LEMMA RearmIInv ==
    ASSUME IInv, NEW w \in Workers, Rearm(w)
    PROVE  IInv'
<1>0. /\ pc[w] = "rearm" /\ obj[w] \notin destroyed
      /\ armed' = armed \cup { g \in {fd_[obj[w]]} : sock[g] # None }
      /\ pc' = [pc EXCEPT ![w] = "idle"]
      /\ UNCHANGED <<sock, connections_, fd_, destroyed, timer, is_close_, user_id_,
                     user_count, online_connections_, tasks, obj, last>>
  BY DEF Rearm, Arm, Goto, objects
<1>1. w \in Threads /\ w \notin Pushers
  BY WebserverAssumption DEF Threads
<1>2. "idle" \in Labels /\ Moves(w, "idle")
  BY <1>0 DEF Labels, Moves
<1>3. pc' \in [Threads -> Labels]
  BY <1>1, <1>2, MovesPc DEF IInv
<1>4. obj[w] \in Objs /\ fd_[obj[w]] \in Fds /\ obj[w] # None
  BY <1>0, <1>1, InTypes, WebserverAssumption DEF IInv
<1>5. TypeOK'
  <2>1. armed' \subseteq Fds
    BY <1>0, <1>4 DEF IInv, TypeOK
  <2> QED BY <1>0, <1>3, <2>1 DEF IInv, TypeOK
<1>6. Table'
  BY <1>0, <1>1, <1>2, MovesTable DEF IInv
<1>7. Pointers'
  BY <1>0, <1>1, <1>2, MovesPointers DEF IInv
<1>8. Closing'
  BY <1>0, <1>1, <1>2, MovesClosing
<1>9. HangupIsNoticed'
  <2>1. armed \subseteq armed' /\ (fd_[obj[w]] \in armed' \/ sock[fd_[obj[w]]] # obj[w])
    BY <1>0, <1>4
  <2> QED BY <1>0, <1>1, <1>2, <2>1, MovesHangup
<1>10. OnlineUserIsReachable'
  BY <1>0, SameOnline DEF IInv
<1> QED BY <1>5, <1>6, <1>7, <1>8, <1>9, <1>10 DEF IInv

----------------------------------------------------------------------------
\* The threads that push, and the clients.
LEMMA LookUpIInv ==
    ASSUME IInv, NEW p \in Pushers, NEW u \in Users, LookUp(p, u)
    PROVE  IInv'
<1>0. /\ pc[p] = "idle" /\ online_connections_[u] # None
      /\ obj' = [obj EXCEPT ![p] = online_connections_[u]]
      /\ pc' = [pc EXCEPT ![p] = "push"]
      /\ UNCHANGED <<sock, armed, connections_, fd_, destroyed, timer, is_close_, user_id_,
                     user_count, online_connections_, tasks, last>>
  BY DEF LookUp, Goto, objects, kernel
<1>1. p \in Threads /\ Pushers \subseteq Threads
  BY DEF Threads
<1>2. /\ pc'[p] = "push" /\ \A s \in Threads \ {p} : pc'[s] = pc[s]
      /\ obj'[p] = online_connections_[u] /\ \A s \in Threads \ {p} : obj'[s] = obj[s]
  BY <1>0, <1>1 DEF IInv, TypeOK
<1>3. TypeOK'
  <2>1. "push" \in Labels
    BY DEF Labels
  <2>2. pc' \in [Threads -> Labels] /\ obj' \in [Threads -> Objs \cup {None}]
    BY <1>0, <1>1, <2>1 DEF IInv, TypeOK
  <2> QED BY <1>0, <2>2 DEF IInv, TypeOK
<1>4. Table'
  BY <1>0 DEF IInv, Table
<1>5. Pointers'
  BY <1>0, <1>1, <1>2 DEF IInv, Pointers
<1>6. Closing'
  <2>1. ASSUME NEW s \in Threads, pc'[s] \in {"unregister", "close", "log"}
        PROVE  pc'[s] = pc[s] /\ obj'[s] = obj[s]
    BY <1>2, <2>1
  <2>2. ASSUME NEW s \in Threads, pc[s] \in {"unregister", "close"}
        PROVE  pc'[s] = pc[s] /\ obj'[s] = obj[s]
    BY <1>0, <1>2, <2>2
  <2> QED BY <1>0, <2>1, <2>2 DEF IInv, Closing
<1>7. HangupIsNoticed'
  <2>1. ASSUME NEW s \in Threads, pc[s] \notin {"idle", "push", "undefined"}
        PROVE  pc'[s] = pc[s] /\ obj'[s] = obj[s]
    BY <1>0, <1>2, <2>1
  <2> QED BY <1>0, <2>1 DEF IInv, HangupIsNoticed
<1>8. OnlineUserIsReachable'
  BY <1>0, SameOnline DEF IInv
<1> QED BY <1>3, <1>4, <1>5, <1>6, <1>7, <1>8 DEF IInv

LEMMA EnqueueMessageIInv ==
    ASSUME IInv, NEW p \in Pushers, EnqueueMessage(p)
    PROVE  IInv'
<1>0. /\ pc[p] = "push" /\ obj[p] \notin destroyed
      /\ armed' \in {armed, armed \cup { g \in {fd_[obj[p]]} : sock[g] # None }}
      /\ pc' = [pc EXCEPT ![p] = "idle"]
      /\ UNCHANGED <<sock, connections_, fd_, destroyed, timer, is_close_, user_id_,
                     user_count, online_connections_, tasks, obj, last>>
  BY DEF EnqueueMessage, Arm, Goto, objects
<1>1. p \in Threads
  BY DEF Threads
<1>2. "idle" \in Labels /\ Moves(p, "idle")
  BY <1>0 DEF Labels, Moves
<1>3. pc' \in [Threads -> Labels]
  BY <1>1, <1>2, MovesPc DEF IInv
<1>4. obj[p] \in Objs /\ fd_[obj[p]] \in Fds
  BY <1>0, <1>1, InTypes DEF IInv
<1>5. TypeOK'
  <2>1. armed' \subseteq Fds
    BY <1>0, <1>4 DEF IInv, TypeOK
  <2> QED BY <1>0, <1>3, <2>1 DEF IInv, TypeOK
<1>6. Table'
  BY <1>0, <1>1, <1>2, MovesTable DEF IInv
<1>7. Pointers'
  BY <1>0, <1>1, <1>2, MovesPointers DEF IInv
<1>8. Closing'
  BY <1>0, <1>1, <1>2, MovesClosing
<1>9. HangupIsNoticed'
  <2>1. armed \subseteq armed'
    BY <1>0
  <2> QED BY <1>0, <1>1, <1>2, <2>1, MovesHangup
<1>10. OnlineUserIsReachable'
  BY <1>0, SameOnline DEF IInv
<1> QED BY <1>5, <1>6, <1>7, <1>8, <1>9, <1>10 DEF IInv

\* What the kernel holds of a client's bytes is in none of the conjuncts.
LEMMA ClientIInv ==
    ASSUME IInv,
           UNCHANGED <<sock, armed, connections_, fd_, destroyed, timer, is_close_, user_id_,
                       user_count, online_connections_, tasks, pc, obj, last>>
    PROVE  IInv'
<1>1. TypeOK'
  BY DEF IInv, TypeOK
<1>2. Table'
  BY DEF IInv, Table
<1>3. Pointers'
  BY DEF IInv, Pointers
<1>4. Closing'
  BY DEF IInv, Closing
<1>5. HangupIsNoticed'
  BY DEF IInv, HangupIsNoticed
<1>6. OnlineUserIsReachable'
  BY SameOnline DEF IInv
<1> QED BY <1>1, <1>2, <1>3, <1>4, <1>5, <1>6 DEF IInv

----------------------------------------------------------------------------
\* The steps of the event loop.
LEMMA DispatchIInv ==
    ASSUME IInv, Bytes, NEW f \in Fds, Dispatch(f)
    PROVE  IInv'
<1>0. /\ pc[Main] = "idle" /\ f \in armed /\ sock[f] \in hup \cup data
      /\ armed' = armed \ {f}
      /\ UNCHANGED <<sock, connections_, fd_, destroyed, timer, is_close_, user_id_,
                     user_count, online_connections_, last>>
  BY DEF Dispatch, objects
<1>1. Main \in Threads /\ Main \notin Pushers /\ Pushers \subseteq Threads
  BY WebserverAssumption DEF Threads
<1>3. Table'
  BY <1>0 DEF IInv, Table
<1>4. OnlineUserIsReachable'
  BY <1>0, SameOnline DEF IInv
<1>5. sock[f] # None => connections_[f] = sock[f] /\ sock[f] \in Objs
                        /\ fd_[sock[f]] = f
  BY DEF IInv, Table, TypeOK
<1>6. CASE /\ sock[f] # None
           /\ pc' = [pc EXCEPT ![Main] = "del_fd"]
           /\ obj' = [obj EXCEPT ![Main] = connections_[f]]
           /\ tasks' = tasks
  <2>1. /\ pc'[Main] = "del_fd" /\ \A s \in Threads \ {Main} : pc'[s] = pc[s]
        /\ obj'[Main] = sock[f] /\ \A s \in Threads \ {Main} : obj'[s] = obj[s]
    BY <1>1, <1>5, <1>6 DEF IInv, TypeOK
  <2>2. TypeOK'
    <3>1. "del_fd" \in Labels
      BY DEF Labels
    <3>2. pc' \in [Threads -> Labels] /\ obj' \in [Threads -> Objs \cup {None}]
      BY <1>1, <1>5, <1>6, <3>1 DEF IInv, TypeOK
    <3>3. armed' \subseteq Fds
      BY <1>0 DEF IInv, TypeOK
    <3> QED BY <1>0, <1>6, <3>2, <3>3 DEF IInv, TypeOK
  <2>3. Pointers'
    <3>1. fd_[sock[f]] # None
      BY <1>5, <1>6, WebserverAssumption
    <3> QED BY <1>0, <1>1, <1>6, <2>1, <3>1 DEF IInv, Pointers
  <2>4. Closing'
    <3>1. ASSUME NEW s \in Threads, pc'[s] \in {"unregister", "close", "log"}
          PROVE  pc'[s] = pc[s] /\ obj'[s] = obj[s]
      BY <2>1, <3>1
    <3>2. ASSUME NEW s \in Threads, pc[s] \in {"unregister", "close"}
          PROVE  pc'[s] = pc[s] /\ obj'[s] = obj[s]
      BY <1>0, <2>1, <3>2
    <3> QED BY <1>0, <3>1, <3>2 DEF IInv, Closing
  <2>5. HangupIsNoticed'
    <3>1. ASSUME NEW s \in Threads, pc[s] \notin {"idle", "push", "undefined"}
          PROVE  pc'[s] = pc[s] /\ obj'[s] = obj[s]
      BY <1>0, <2>1, <3>1
    <3>2. \A g \in Fds : g \in armed /\ g \notin armed' => g = f
      BY <1>0
    <3>3. Main \in Threads /\ obj'[Main] = sock[f] /\ pc'[Main] \notin {"idle", "push", "undefined"}
      BY <1>1, <2>1
    <3> QED BY <1>0, <1>6, <3>1, <3>2, <3>3 DEF IInv, HangupIsNoticed
  <2> QED BY <1>3, <1>4, <2>2, <2>3, <2>4, <2>5 DEF IInv
<1>7. CASE /\ sock[f] # None
           /\ tasks' = Append(tasks, connections_[f])
           /\ UNCHANGED <<pc, obj>>
  <2>1. /\ Len(tasks) \in Nat /\ tasks' \in Seq(Objs) /\ Len(tasks') = Len(tasks) + 1
        /\ tasks'[Len(tasks) + 1] = sock[f]
        /\ \A i \in 1..Len(tasks) : i \in 1..Len(tasks') /\ tasks'[i] = tasks[i]
    BY <1>5, <1>7, SMT DEF IInv, TypeOK
  <2>2. \A i \in 1..Len(tasks') : i = Len(tasks) + 1 \/ i \in 1..Len(tasks)
    BY <2>1, SMT
  <2>3. Len(tasks) + 1 \in 1..Len(tasks')
    BY <2>1, SMT
  <2>4. TypeOK'
    <3>1. armed' \subseteq Fds
      BY <1>0 DEF IInv, TypeOK
    <3> QED BY <1>0, <1>7, <2>1, <3>1 DEF IInv, TypeOK
  <2>5. Pointers'
    <3>1. fd_[sock[f]] # None
      BY <1>5, <1>7, WebserverAssumption
    <3>2. \A i \in 1..Len(tasks') : fd_[tasks'[i]] # None
      BY <2>1, <2>2, <3>1 DEF IInv, Pointers
    <3> QED BY <1>0, <1>7, <3>2 DEF IInv, Pointers
  <2>6. Closing'
    BY <1>0, <1>7 DEF IInv, Closing
  <2>7. HangupIsNoticed'
    <3>1. \E i \in 1..Len(tasks') : tasks'[i] = sock[f]
      BY <2>1, <2>3
    <3>2. ASSUME NEW g \in Fds, g # f, sock[g] # None
          PROVE  \/ g \in armed'
                 \/ \E i \in 1..Len(tasks') : tasks'[i] = sock[g]
                 \/ \E t \in Threads : obj[t] = sock[g] /\ pc[t] \notin {"idle", "push", "undefined"}
      <4>1. g \in armed => g \in armed'
        BY <1>0, <3>2
      <4>2. (\E i \in 1..Len(tasks) : tasks[i] = sock[g]) =>
               \E i \in 1..Len(tasks') : tasks'[i] = sock[g]
        BY <2>1
      <4> QED BY <3>2, <4>1, <4>2 DEF IInv, HangupIsNoticed
    <3> QED BY <1>0, <1>7, <3>1, <3>2 DEF HangupIsNoticed
  <2> QED BY <1>3, <1>4, <2>4, <2>5, <2>6, <2>7 DEF IInv
<1>8. CASE sock[f] = None
  BY <1>0, <1>8, WebserverAssumption DEF Bytes
<1> QED BY <1>6, <1>7, <1>8 DEF Dispatch, Goto

LEMMA TickIInv ==
    ASSUME IInv, NEW f \in Fds, Tick(f)
    PROVE  IInv'
<1>0. /\ pc[Main] = "idle" /\ f \in timer
      /\ timer' = timer \ {f}
      /\ obj' = [obj EXCEPT ![Main] = connections_[f]]
      /\ pc' = [pc EXCEPT ![Main] = "del_fd"]
      /\ UNCHANGED <<sock, armed, connections_, fd_, destroyed, is_close_, user_id_,
                     user_count, online_connections_, tasks, last>>
  BY DEF Tick, Goto, kernel
<1>1. Main \in Threads /\ Main \notin Pushers /\ Pushers \subseteq Threads
  BY WebserverAssumption DEF Threads
<1>2. connections_[f] \in Objs /\ fd_[connections_[f]] = f /\ f # None
  BY <1>0, WebserverAssumption DEF IInv, TypeOK, Table
<1>3. /\ pc'[Main] = "del_fd" /\ \A s \in Threads \ {Main} : pc'[s] = pc[s]
      /\ obj'[Main] = connections_[f] /\ \A s \in Threads \ {Main} : obj'[s] = obj[s]
  BY <1>0, <1>1 DEF IInv, TypeOK
<1>4. TypeOK'
  <2>1. "del_fd" \in Labels
    BY DEF Labels
  <2>2. pc' \in [Threads -> Labels] /\ obj' \in [Threads -> Objs \cup {None}]
    BY <1>0, <1>1, <1>2, <2>1 DEF IInv, TypeOK
  <2>3. timer' \subseteq Fds
    BY <1>0 DEF IInv, TypeOK
  <2> QED BY <1>0, <2>2, <2>3 DEF IInv, TypeOK
<1>5. Table'
  BY <1>0 DEF IInv, Table
<1>6. Pointers'
  <2>1. connections_[f] # None
    BY <1>2, WebserverAssumption
  <2> QED BY <1>0, <1>1, <1>2, <1>3, <2>1 DEF IInv, Pointers
<1>7. Closing'
  <2>1. ASSUME NEW s \in Threads, pc'[s] \in {"unregister", "close", "log"}
        PROVE  pc'[s] = pc[s] /\ obj'[s] = obj[s]
    BY <1>3, <2>1
  <2>2. ASSUME NEW s \in Threads, pc[s] \in {"unregister", "close"}
        PROVE  pc'[s] = pc[s] /\ obj'[s] = obj[s]
    BY <1>0, <1>3, <2>2
  <2> QED BY <1>0, <2>1, <2>2 DEF IInv, Closing
<1>8. HangupIsNoticed'
  <2>1. ASSUME NEW s \in Threads, pc[s] \notin {"idle", "push", "undefined"}
        PROVE  pc'[s] = pc[s] /\ obj'[s] = obj[s]
    BY <1>0, <1>3, <2>1
  <2> QED BY <1>0, <2>1 DEF IInv, HangupIsNoticed
<1>9. OnlineUserIsReachable'
  BY <1>0, SameOnline DEF IInv
<1> QED BY <1>4, <1>5, <1>6, <1>7, <1>8, <1>9 DEF IInv

\* The descriptor accept returns is free.
LEMMA LowestIsFree ==
    ASSUME free # {}
    PROVE  Min(free) \in Fds /\ sock[Min(free)] = None
<1>1. free \in SUBSET Nat
  BY WebserverAssumption DEF free
<1> DEFINE T == free
<1>2. T \in SUBSET Nat /\ T # {}
  BY <1>1
<1> HIDE DEF T
<1> DEFINE R == OpToRel(<, Nat)
<1>3. PICK x \in T : \A y \in T : ~(<<y, x>> \in R)
  <2> HIDE DEF R
  <2>1. IsWellFoundedOn(R, Nat)
    BY NatLessThanWellFounded DEF R
  <2> QED BY <1>2, <2>1, WFMin
<1>4. ASSUME NEW y \in T PROVE x <= y
  <2>1. x \in Nat /\ y \in Nat
    BY <1>2
  <2>2. ~(y < x)
    BY <1>3, <2>1 DEF OpToRel
  <2> QED BY <2>1, <2>2
<1>5. Min(T) \in T
  BY <1>4 DEF Min
<1> QED BY <1>5 DEF T, free

\* What AddClient_ sets up, for a new object under a free descriptor.
LEMMA AddClientFacts ==
    ASSUME IInv, NEW o \in Objs, NEW f \in Fds, o \notin accepted, sock[f] = None, AddClient(o, f)
    PROVE  /\ fd_[o] = None /\ f # None /\ o # None /\ is_close_[o]
           /\ sock'[f] = o /\ \A g \in Fds \ {f} : sock'[g] = sock[g]
           /\ connections_'[f] = o /\ \A g \in Fds \ {f} : connections_'[g] = connections_[g]
           /\ fd_'[o] = f /\ \A x \in Objs \ {o} : fd_'[x] = fd_[x]
           /\ ~is_close_'[o] /\ \A x \in Objs \ {o} : is_close_'[x] = is_close_[x]
           /\ destroyed' = destroyed \cup ({connections_[f]} \ {None})
           /\ user_count' = user_count + 1
           /\ timer' = timer \cup {f} /\ armed' = armed \cup {f}
           /\ UNCHANGED <<user_id_, online_connections_, tasks, pc, obj, last, quiet>>
<1>1. fd_[o] = None /\ f # None /\ o # None
  BY WebserverAssumption DEF accepted
<1>2. is_close_[o]
  BY <1>1 DEF IInv, Table
<1>3. sock'[f] = o /\ \A g \in Fds \ {f} : sock'[g] = sock[g]
  BY DEF AddClient, IInv, TypeOK
<1>4. connections_'[f] = o /\ \A g \in Fds \ {f} : connections_'[g] = connections_[g]
  BY DEF AddClient, IInv, TypeOK
<1>5. fd_'[o] = f /\ \A x \in Objs \ {o} : fd_'[x] = fd_[x]
  BY DEF AddClient, IInv, TypeOK
<1>6. ~is_close_'[o] /\ \A x \in Objs \ {o} : is_close_'[x] = is_close_[x]
  BY DEF AddClient, IInv, TypeOK
<1>7. destroyed' = destroyed \cup ({connections_[f]} \ {None})
  BY DEF AddClient
<1> QED BY <1>1, <1>2, <1>3, <1>4, <1>5, <1>6, <1>7 DEF AddClient

LEMMA AddClientIInv ==
    ASSUME IInv, NEW o \in Objs, NEW f \in Fds, o \notin accepted, sock[f] = None, AddClient(o, f)
    PROVE  IInv'
<1>0. /\ fd_[o] = None /\ f # None /\ o # None /\ is_close_[o]
      /\ destroyed' = destroyed \cup ({connections_[f]} \ {None})
      /\ user_count' = user_count + 1
      /\ timer' = timer \cup {f} /\ armed' = armed \cup {f}
      /\ UNCHANGED <<user_id_, online_connections_, tasks, pc, obj, last, quiet>>
  BY AddClientFacts
<1>1. sock'[f] = o /\ \A g \in Fds \ {f} : sock'[g] = sock[g]
  BY AddClientFacts
<1>2. connections_'[f] = o /\ \A g \in Fds \ {f} : connections_'[g] = connections_[g]
  BY AddClientFacts
<1>3. fd_'[o] = f /\ \A x \in Objs \ {o} : fd_'[x] = fd_[x]
  BY AddClientFacts
<1>4. ~is_close_'[o] /\ \A x \in Objs \ {o} : is_close_'[x] = is_close_[x]
  BY AddClientFacts
<1>5. \A x \in Objs : fd_[x] # None => x # o /\ fd_'[x] = fd_[x] /\ is_close_'[x] = is_close_[x]
  BY <1>0, <1>3, <1>4
<1>6. \A g \in Fds \ {f} : connections_[g] # None =>
         /\ fd_[connections_[g]] = g /\ connections_[g] \notin destroyed
         /\ connections_[g] \in Objs /\ g # None
  BY WebserverAssumption DEF IInv, Table, TypeOK
<1>7. \A g \in Fds : sock[g] # None => g # f /\ sock[g] \in Objs /\ fd_[sock[g]] # None
         /\ connections_[g] = sock[g]
  BY <1>6 DEF IInv, Table, TypeOK
<1>8. TypeOK'
  <2>1. sock' \in [Fds -> Objs \cup {None}] /\ connections_' \in [Fds -> Objs \cup {None}]
    BY DEF AddClient, IInv, TypeOK
  <2>2. fd_' \in [Objs -> Fds \cup {None}]
    BY DEF AddClient, IInv, TypeOK
  <2>3. is_close_' \in [Objs -> BOOLEAN]
    BY DEF AddClient, IInv, TypeOK
  <2>4. user_count' \in Int
    BY <1>0 DEF IInv, TypeOK
  <2>5. destroyed' \subseteq Objs /\ timer' \subseteq Fds /\ armed' \subseteq Fds
    BY <1>0 DEF IInv, TypeOK
  <2> QED BY <1>0, <2>1, <2>2, <2>3, <2>4, <2>5 DEF IInv, TypeOK
<1>9. Table'
  <2>1. ASSUME NEW g \in Fds, connections_'[g] # None
        PROVE  fd_'[connections_'[g]] = g /\ connections_'[g] \notin destroyed'
    <3>1. CASE g = f
      <4>1. o \notin destroyed
        BY <1>0 DEF IInv, Pointers
      <4>2. connections_[f] # o
        BY <1>0 DEF IInv, Table
      <4> QED BY <1>0, <1>2, <1>3, <3>1, <4>1, <4>2
    <3>2. CASE g # f
      <4>1. connections_'[g] = connections_[g] /\ connections_[g] # None
        BY <1>2, <2>1, <3>2
      <4>2. /\ fd_[connections_[g]] = g /\ connections_[g] \notin destroyed
            /\ connections_[g] \in Objs /\ g # None
        BY <1>6, <3>2, <4>1
      <4>3. fd_'[connections_[g]] = g
        BY <1>5, <4>2
      <4>4. connections_[g] # connections_[f]
        BY <3>2, <4>1, <4>2 DEF IInv, Table
      <4> QED BY <1>0, <4>1, <4>2, <4>3, <4>4
    <3> QED BY <3>1, <3>2
  <2>2. ASSUME NEW x \in Objs, x \notin destroyed', fd_'[x] # None
        PROVE  connections_'[fd_'[x]] = x
    <3>1. CASE x = o
      BY <1>2, <1>3, <3>1
    <3>2. CASE x # o
      <4>1. fd_'[x] = fd_[x] /\ fd_[x] # None /\ x \notin destroyed /\ fd_[x] \in Fds
        BY <1>0, <1>3, <2>2, <3>2 DEF IInv, TypeOK
      <4>2. connections_[fd_[x]] = x /\ x # None
        BY <4>1, WebserverAssumption DEF IInv, Table
      <4>3. fd_[x] # f
        BY <1>0, <2>2, <4>2
      <4> QED BY <1>2, <4>1, <4>2, <4>3
    <3> QED BY <3>1, <3>2
  <2>3. \A g \in timer' : connections_'[g] # None
    BY <1>0, <1>2 DEF IInv, TypeOK, Table
  <2>4. \A g \in Fds : sock'[g] # None => connections_'[g] = sock'[g]
    BY <1>1, <1>2, <1>7
  <2>5. ASSUME NEW x \in Objs, ~is_close_'[x]
        PROVE  fd_'[x] # None /\ sock'[fd_'[x]] = x
    <3>1. CASE x = o
      BY <1>0, <1>1, <1>3, <3>1
    <3>2. CASE x # o
      <4>1. fd_'[x] = fd_[x] /\ fd_[x] # None /\ sock[fd_[x]] = x /\ x # None /\ fd_[x] \in Fds
        BY <1>3, <1>4, <2>5, <3>2, WebserverAssumption DEF IInv, Table, TypeOK
      <4> QED BY <1>1, <1>7, <4>1
    <3> QED BY <3>1, <3>2
  <2> QED BY <2>1, <2>2, <2>3, <2>4, <2>5 DEF Table
<1>10. Pointers'
  <2>1. \A x \in destroyed' : fd_'[x] # None
    <3>1. \A x \in destroyed : x \in Objs /\ fd_[x] # None
      BY DEF IInv, Pointers, TypeOK
    <3>2. connections_[f] # None => connections_[f] \in Objs /\ fd_[connections_[f]] # None
      BY <1>0 DEF IInv, TypeOK, Table
    <3> QED BY <1>0, <1>5, <3>1, <3>2
  <2>2. \A t \in Threads : pc[t] # "idle" => obj[t] # None /\ fd_'[obj[t]] # None
    BY <1>5 DEF IInv, Pointers, TypeOK
  <2>3. \A i \in 1..Len(tasks) : fd_'[tasks[i]] # None
    BY <1>5 DEF IInv, Pointers, TypeOK
  <2>4. \A u \in Users :
          /\ online_connections_[u] # None => fd_'[online_connections_[u]] # None
          /\ last[u] # None => fd_'[last[u]] # None
    BY <1>5 DEF IInv, Pointers, TypeOK
  <2> QED BY <1>0, <2>1, <2>2, <2>3, <2>4 DEF IInv, Pointers
<1>11. Closing'
  <2>0. \A t \in Threads : pc[t] # "idle" => obj[t] \in Objs /\ fd_[obj[t]] # None /\ fd_[obj[t]] \in Fds
    BY DEF IInv, Pointers, TypeOK
  <2>1. \A t \in Threads : pc[t] \in {"unregister", "close", "log"} => is_close_'[obj[t]]
    BY <1>5, <2>0 DEF IInv, Closing
  <2>2. ASSUME NEW t \in Threads, pc[t] = "log"
        PROVE  sock'[fd_'[obj[t]]] # obj[t]
    <3>1. obj[t] # o /\ fd_'[obj[t]] = fd_[obj[t]] /\ fd_[obj[t]] \in Fds
      BY <1>5, <2>0, <2>2
    <3>2. sock[fd_[obj[t]]] # obj[t]
      BY <2>2 DEF IInv, Closing
    <3> QED BY <1>1, <3>1, <3>2
  <2>3. ASSUME NEW g \in Fds, sock'[g] # None, is_close_'[sock'[g]]
        PROVE  \E t \in Threads : obj[t] = sock'[g] /\ pc[t] \in {"unregister", "close"}
    <3>1. g # f /\ sock'[g] = sock[g]
      BY <1>1, <1>4, <2>3
    <3>2. is_close_[sock[g]]
      BY <1>5, <1>7, <2>3, <3>1
    <3> QED BY <2>3, <3>1, <3>2 DEF IInv, Closing
  <2> QED BY <1>0, <2>1, <2>2, <2>3 DEF Closing
<1>12. HangupIsNoticed'
  BY <1>0, <1>1 DEF IInv, HangupIsNoticed
<1>13. OnlineUserIsReachable'
  <2>1. ASSUME NEW u \in Users, last[u] # None
        PROVE  is_close_'[last[u]] = is_close_[last[u]]
    BY <1>5, <2>1 DEF IInv, TypeOK, Pointers
  <2> QED BY <1>0, <2>1 DEF IInv, OnlineUserIsReachable
<1> QED BY <1>8, <1>9, <1>10, <1>11, <1>12, <1>13 DEF IInv

LEMMA BytesNext == ASSUME Bytes, [Next]_vars PROVE Bytes'
<1>1. CASE UNCHANGED vars
  BY <1>1 DEF Bytes, vars, kernel
<1>2. CASE Next
  <2>1. data' \subseteq Objs
    BY <1>2 DEF Bytes, Next, Refuse, vars, Accept, AddClient, Send, Disconnect, Dispatch, Tick,
       Close, DelFd, CheckClose, Mark, Unregister, CloseFd, LogQuit, UseDestroyed, TakeTask, Work,
       Read, ProcessRequest, Register, Rearm, EnqueueMessage, LookUp, kernel
  <2>2. hup' \subseteq Objs
    BY <1>2 DEF Bytes, Next, Refuse, vars, Accept, AddClient, Send, Disconnect, Dispatch, Tick,
       Close, DelFd, CheckClose, Mark, Unregister, CloseFd, LogQuit, UseDestroyed, TakeTask, Work,
       Read, ProcessRequest, Register, Rearm, EnqueueMessage, LookUp, kernel
  <2> QED BY <2>1, <2>2 DEF Bytes
<1> QED BY <1>1, <1>2

LEMMA NextIInv == ASSUME IInv, Bytes, [Next]_vars PROVE IInv'
<1>1. CASE UNCHANGED vars
  BY <1>1, ClientIInv DEF vars, kernel, objects
<1>2. CASE Refuse
  BY <1>2, ClientIInv DEF Refuse, vars, kernel, objects
<1>3. ASSUME NEW o \in Objs, Accept(o) PROVE IInv'
  BY <1>3, LowestIsFree, AddClientIInv DEF Accept
<1>4. ASSUME NEW o \in Objs, Send(o) \/ Disconnect(o) PROVE IInv'
  BY <1>4, ClientIInv DEF Send, Disconnect, objects
<1>5. ASSUME NEW f \in Fds, Dispatch(f) \/ Tick(f) PROVE IInv'
  BY <1>5, DispatchIInv, TickIInv
<1>6. ASSUME NEW t \in Threads, Close(t) \/ UseDestroyed(t) PROVE IInv'
  BY <1>6, DelFdIInv, CheckCloseIInv, MarkIInv, UnregisterIInv, CloseFdIInv, LogQuitIInv,
     UseDestroyedIInv DEF Close
<1>7. ASSUME NEW w \in Workers, TakeTask(w) \/ Work(w) PROVE IInv'
  BY <1>7, TakeTaskIInv, ReadIInv, ProcessRequestIInv, RegisterIInv, RearmIInv DEF Work
<1>8. ASSUME NEW p \in Pushers, EnqueueMessage(p) PROVE IInv'
  BY <1>8, EnqueueMessageIInv
<1>9. ASSUME NEW p \in Pushers, NEW u \in Users, LookUp(p, u) PROVE IInv'
  BY <1>9, LookUpIInv
<1> QED BY <1>1, <1>2, <1>3, <1>4, <1>5, <1>6, <1>7, <1>8, <1>9 DEF Next

LEMMA SafetyOfIInv == IInv => NoDescriptorLeak
<1> SUFFICES ASSUME IInv PROVE NoDescriptorLeak
  OBVIOUS
<1>1. ASSUME NEW f \in Fds, sock[f] # None
      PROVE  /\ connections_[f] = sock[f] /\ fd_[sock[f]] = f /\ sock[f] \notin destroyed
             /\ is_close_[sock[f]] =>
                   \E t \in Threads : obj[t] = sock[f] /\ pc[t] \in {"unregister", "close"}
  BY <1>1 DEF IInv, Table, Closing
<1>2. ASSUME NEW o \in destroyed PROVE is_close_[o]
  <2>1. o \in Objs /\ (~is_close_[o] => sock[fd_[o]] = o /\ fd_[o] # None) /\ o # None
    BY WebserverAssumption DEF IInv, TypeOK, Table
  <2>2. fd_[o] # None => fd_[o] \in Fds
    BY <2>1 DEF IInv, TypeOK
  <2> QED BY <2>1, <2>2, <1>1
<1> QED BY <1>1, <1>2 DEF NoDescriptorLeak

----------------------------------------------------------------------------
\* Until a timer expires or something is pushed.

LEMMA OwnersAre ==
    /\ Owners \subseteq Threads /\ Main \in Owners /\ Workers \subseteq Owners
    /\ \A t \in Threads : t \in Owners <=> t \notin Pushers
BY WebserverAssumption DEF Owners, Threads

\* A step of the thread that has the connection in hand, and keeps it.
LEMMA MovesOneShot ==
    ASSUME IInv, OneShot, NEW t \in Owners, NEW l \in Labels, Moves(t, l), Busy(t),
           l \notin {"idle", "log", "undefined"}, sock' = sock, armed' \subseteq armed,
           \A o \in Objs \ {obj[t]} : is_close_'[o] = is_close_[o],
           is_close_'[obj[t]] <=> l \in {"unregister", "close"},
           \A o \in Objs : user_id_[o] # None => user_id_'[o] = user_id_[o],
           \A u \in Users :
              /\ \/ online_connections_'[u] = None
                 \/ online_connections_'[u] = online_connections_[u]
                 \/ online_connections_'[u] = obj[t] /\ user_id_'[obj[t]] = u
              /\ l = "close" => online_connections_'[u] # obj[t]
    PROVE  OneShot'
<1>1. UNCHANGED <<obj, tasks, fd_>> /\ pc[t] # "idle" /\ t \in Threads /\ Owners \subseteq Threads
  BY OwnersAre DEF Moves
<1>2. pc'[t] = l /\ \A s \in Threads \ {t} : pc'[s] = pc[s]
  BY <1>1, MovesPc DEF IInv
<1>3. /\ obj[t] \in Objs /\ sock[fd_[obj[t]]] = obj[t] /\ fd_[obj[t]] \notin armed
      /\ \A i \in 1..Len(tasks) : tasks[i] # obj[t]
      /\ \A s \in Owners : Busy(s) /\ obj[s] = obj[t] => s = t
  BY <1>1, InTypes DEF IInv, OneShot, OwnerIsAlone
<1>4. Busy(t)' /\ \A s \in Owners \ {t} : Busy(s)' <=> Busy(s)
  BY <1>1, <1>2 DEF Busy
<1>5. ASSUME NEW f \in armed' PROVE sock[f] # None /\ ~is_close_'[sock[f]]
  <2>1. f \in armed /\ f \in Fds /\ sock[f] # None /\ ~is_close_[sock[f]]
    BY DEF IInv, TypeOK, OneShot, ArmedIsOpen
  <2>2. sock[f] \in Objs /\ fd_[sock[f]] = f
    BY <2>1 DEF IInv, TypeOK, Table
  <2> QED BY <1>3, <2>1, <2>2
<1>6. ASSUME NEW i \in 1..Len(tasks)
      PROVE  /\ sock[fd_[tasks[i]]] = tasks[i] /\ ~is_close_'[tasks[i]]
             /\ fd_[tasks[i]] \notin armed'
             /\ \A j \in 1..Len(tasks) : tasks[j] = tasks[i] => i = j
  <2>1. tasks[i] \in Objs
    BY DEF IInv, TypeOK
  <2> QED BY <1>3, <2>1 DEF OneShot, TaskIsOpen
<1>7. ASSUME NEW s \in Owners, Busy(s)'
      PROVE  /\ sock[fd_[obj[s]]] = obj[s] /\ fd_[obj[s]] \notin armed'
             /\ is_close_'[obj[s]] <=> pc'[s] \in {"unregister", "close"}
             /\ \A i \in 1..Len(tasks) : tasks[i] # obj[s]
             /\ \A r \in Owners : Busy(r)' /\ obj[r] = obj[s] => r = s
  <2>1. CASE s = t
    BY <1>2, <1>3, <1>4, <2>1
  <2>2. CASE s # t
    <3>1. Busy(s) /\ pc'[s] = pc[s] /\ pc[s] # "idle"
      BY <1>1, <1>2, <1>4, <1>7, <2>2 DEF Busy
    <3>2. obj[s] \in Objs /\ obj[s] # obj[t]
      BY <1>1, <1>3, <2>2, <3>1, InTypes DEF IInv
    <3>3. is_close_'[obj[s]] <=> pc'[s] \in {"unregister", "close"}
      BY <3>1, <3>2 DEF OneShot, OwnerIsAlone
    <3>4. \A r \in Owners : Busy(r)' /\ obj[r] = obj[s] => r = s
      BY <1>4, <3>1, <3>2 DEF OneShot, OwnerIsAlone
    <3> QED BY <3>1, <3>3, <3>4 DEF OneShot, OwnerIsAlone
  <2> QED BY <2>1, <2>2
<1>8. ASSUME NEW u \in Users, online_connections_'[u] # None
      PROVE  /\ user_id_'[online_connections_'[u]] = u
             /\ sock[fd_[online_connections_'[u]]] = online_connections_'[u]
             /\ \A s \in Owners : obj[s] = online_connections_'[u] => pc'[s] # "close"
  <2>1. CASE online_connections_'[u] = obj[t]
    <3>1. ASSUME NEW s \in Owners, obj[s] = obj[t] PROVE pc'[s] # "close"
      <4>1. CASE s = t
        BY <1>2, <2>1, <4>1
      <4>2. CASE s # t
        <5>1. ~Busy(s) /\ pc'[s] = pc[s]
          BY <1>1, <1>2, <1>3, <3>1, <4>2
        <5> QED BY <5>1 DEF Busy
      <4> QED BY <4>1, <4>2
    <3>2. user_id_'[obj[t]] = u
      <4>1. CASE online_connections_[u] = obj[t]
        <5>1. user_id_[obj[t]] = u /\ u # None
          BY <1>8, <2>1, <4>1, WebserverAssumption DEF OneShot, OnlineIsLive
        <5> QED BY <1>3, <5>1
      <4>2. CASE online_connections_[u] # obj[t]
        BY <1>8, <2>1, <4>2
      <4> QED BY <4>1, <4>2
    <3> QED BY <1>3, <2>1, <3>1, <3>2
  <2>2. CASE online_connections_'[u] # obj[t]
    <3>1. online_connections_'[u] = online_connections_[u] /\ online_connections_[u] \in Objs
      BY <1>8, <2>2 DEF IInv, TypeOK
    <3>2. /\ user_id_[online_connections_[u]] = u
          /\ sock[fd_[online_connections_[u]]] = online_connections_[u]
          /\ \A s \in Owners : obj[s] = online_connections_[u] => pc[s] # "close"
      BY <1>8, <3>1 DEF OneShot, OnlineIsLive
    <3>3. user_id_'[online_connections_[u]] = u
      BY <3>1, <3>2, WebserverAssumption
    <3>4. \A s \in Owners : obj[s] = online_connections_[u] => pc'[s] # "close"
      BY <1>1, <1>2, <2>2, <3>1, <3>2
    <3> QED BY <3>1, <3>2, <3>3, <3>4
  <2> QED BY <2>1, <2>2
<1>9. \A g \in armed' : ArmedIsOpen(g)'
  BY <1>5 DEF ArmedIsOpen
<1>10. \A i \in 1..Len(tasks') : TaskIsOpen(i)'
  BY <1>1, <1>6 DEF TaskIsOpen
<1>11. \A s \in Owners : Busy(s)' => OwnerIsAlone(s)'
  BY <1>1, <1>7 DEF OwnerIsAlone
<1>12. \A u \in Users : online_connections_'[u] # None => OnlineIsLive(u)'
  BY <1>1, <1>8 DEF OnlineIsLive
<1> QED BY <1>9, <1>10, <1>11, <1>12 DEF OneShot

\* A step in which no owner takes up or lets go of a connection.
LEMMA IdleOneShot ==
    ASSUME OneShot, UNCHANGED <<sock, armed, tasks, fd_, is_close_, user_id_, online_connections_>>,
           \A s \in Owners : obj'[s] = obj[s] /\
              (pc'[s] = pc[s] \/ (~Busy(s) /\ pc'[s] \in {"idle", "log", "undefined"}))
    PROVE  OneShot'
<1>1. \A s \in Owners : (Busy(s)' <=> Busy(s)) /\ obj'[s] = obj[s]
  BY DEF Busy
<1>2. \A s \in Owners : Busy(s)' => pc'[s] = pc[s]
  BY DEF Busy
<1>3. \A s \in Owners : pc'[s] = "close" => pc[s] = "close"
  OBVIOUS
<1>4. \A s \in Owners : Busy(s)' =>
          /\ sock[fd_[obj[s]]] = obj[s] /\ fd_[obj[s]] \notin armed
          /\ is_close_[obj[s]] <=> pc'[s] \in {"unregister", "close"}
          /\ \A i \in 1..Len(tasks) : tasks[i] # obj[s]
          /\ \A r \in Owners : Busy(r)' /\ obj[r] = obj[s] => r = s
  BY <1>1, <1>2 DEF OneShot, OwnerIsAlone
<1>5. \A u \in Users : online_connections_[u] # None =>
          /\ user_id_[online_connections_[u]] = u
          /\ sock[fd_[online_connections_[u]]] = online_connections_[u]
          /\ \A s \in Owners : obj[s] = online_connections_[u] => pc'[s] # "close"
  <2> SUFFICES ASSUME NEW u \in Users, online_connections_[u] # None
               PROVE  /\ user_id_[online_connections_[u]] = u
                      /\ sock[fd_[online_connections_[u]]] = online_connections_[u]
                      /\ \A s \in Owners : obj[s] = online_connections_[u] => pc'[s] # "close"
    OBVIOUS
  <2>1. /\ user_id_[online_connections_[u]] = u
        /\ sock[fd_[online_connections_[u]]] = online_connections_[u]
        /\ \A s \in Owners : obj[s] = online_connections_[u] => pc[s] # "close"
    BY DEF OneShot, OnlineIsLive
  <2> QED BY ONLY <1>3, <2>1
<1>6. /\ \A f \in armed : sock[f] # None /\ ~is_close_[sock[f]]
      /\ \A i \in 1..Len(tasks) :
            /\ sock[fd_[tasks[i]]] = tasks[i] /\ ~is_close_[tasks[i]]
            /\ fd_[tasks[i]] \notin armed
            /\ \A j \in 1..Len(tasks) : tasks[j] = tasks[i] => i = j
  BY DEF OneShot, ArmedIsOpen, TaskIsOpen
<1>7. UNCHANGED <<sock, armed, tasks, fd_, is_close_, user_id_, online_connections_>>
  OBVIOUS
<1>8. \A g \in armed' : ArmedIsOpen(g)'
  BY <1>6, <1>7 DEF ArmedIsOpen
<1>9. \A i \in 1..Len(tasks') : TaskIsOpen(i)'
  BY <1>6, <1>7 DEF TaskIsOpen
<1>10. \A s \in Owners : Busy(s)' => OwnerIsAlone(s)'
  BY <1>1, <1>4, <1>7 DEF OwnerIsAlone
<1>11. \A u \in Users : online_connections_'[u] # None => OnlineIsLive(u)'
  BY <1>1, <1>5, <1>7 DEF OnlineIsLive
<1> QED BY <1>8, <1>9, <1>10, <1>11 DEF OneShot

LEMMA CloseFdOneShot ==
    ASSUME IInv, OneShot, NEW t \in Threads, CloseFd(t)
    PROVE  OneShot'
<1> DEFINE f == fd_[obj[t]]
<1>0. /\ pc[t] = "close" /\ obj[t] \notin destroyed
      /\ sock' = [sock EXCEPT ![f] = None]
      /\ armed' = armed \ {f}
      /\ pc' = [pc EXCEPT ![t] = "log"]
      /\ UNCHANGED <<fd_, is_close_, user_id_, online_connections_, tasks, obj>>
  BY DEF CloseFd, Goto, objects
<1>1. t \in Owners /\ Owners \subseteq Threads /\ Busy(t)
  BY <1>0, OwnersAre DEF IInv, Pointers, Busy
<1>2. pc'[t] = "log" /\ \A s \in Threads \ {t} : pc'[s] = pc[s]
  BY <1>0 DEF IInv, TypeOK
<1>3. /\ obj[t] \in Objs /\ sock[f] = obj[t] /\ f \in Fds
      /\ \A i \in 1..Len(tasks) : tasks[i] # obj[t]
      /\ \A s \in Owners : Busy(s) /\ obj[s] = obj[t] => s = t
  BY <1>0, <1>1, InTypes DEF IInv, OneShot, OwnerIsAlone
<1> HIDE DEF f
<1>4. sock'[f] = None /\ \A g \in Fds \ {f} : sock'[g] = sock[g]
  BY <1>0, <1>3 DEF IInv, TypeOK
<1>5. \A o \in Objs : o # obj[t] /\ fd_[o] # None /\ sock[fd_[o]] = o => sock'[fd_[o]] = o
  BY <1>3, <1>4 DEF IInv, TypeOK
<1>6. ~Busy(t)' /\ \A s \in Owners \ {t} : Busy(s)' <=> Busy(s)
  BY <1>1, <1>2 DEF Busy
<1>7. ASSUME NEW g \in armed' PROVE sock'[g] # None /\ ~is_close_[sock'[g]]
  BY <1>0, <1>4 DEF IInv, TypeOK, OneShot, ArmedIsOpen
<1>8. ASSUME NEW i \in 1..Len(tasks)
      PROVE  /\ sock'[fd_[tasks[i]]] = tasks[i] /\ ~is_close_[tasks[i]]
             /\ fd_[tasks[i]] \notin armed'
             /\ \A j \in 1..Len(tasks) : tasks[j] = tasks[i] => i = j
  <2>1. tasks[i] \in Objs /\ fd_[tasks[i]] # None
    BY DEF IInv, TypeOK, Pointers
  <2> QED BY <1>0, <1>3, <1>5, <2>1 DEF OneShot, TaskIsOpen
<1>9. ASSUME NEW s \in Owners, Busy(s)'
      PROVE  /\ sock'[fd_[obj[s]]] = obj[s] /\ fd_[obj[s]] \notin armed'
             /\ is_close_[obj[s]] <=> pc'[s] \in {"unregister", "close"}
             /\ \A i \in 1..Len(tasks) : tasks[i] # obj[s]
             /\ \A r \in Owners : Busy(r)' /\ obj[r] = obj[s] => r = s
  <2>1. s # t /\ Busy(s) /\ pc'[s] = pc[s] /\ pc[s] # "idle"
    BY <1>1, <1>2, <1>6, <1>9 DEF Busy
  <2>2. obj[s] \in Objs /\ fd_[obj[s]] # None /\ obj[s] # obj[t]
    BY <1>1, <1>3, <2>1 DEF IInv, TypeOK, Pointers
  <2>3. sock'[fd_[obj[s]]] = obj[s] /\ fd_[obj[s]] \notin armed'
    BY <1>0, <1>5, <2>1, <2>2 DEF OneShot, OwnerIsAlone
  <2>4. \A r \in Owners : Busy(r)' /\ obj[r] = obj[s] => r = s
    BY <1>6, <2>1, <2>2 DEF OneShot, OwnerIsAlone
  <2> QED BY <2>1, <2>3, <2>4 DEF OneShot, OwnerIsAlone
<1>10. ASSUME NEW u \in Users, online_connections_[u] # None
       PROVE  /\ user_id_[online_connections_[u]] = u
              /\ sock'[fd_[online_connections_[u]]] = online_connections_[u]
              /\ \A s \in Owners : obj[s] = online_connections_[u] => pc'[s] # "close"
  <2>1. online_connections_[u] \in Objs /\ fd_[online_connections_[u]] # None
    BY <1>10 DEF IInv, TypeOK, Pointers
  <2>2. online_connections_[u] # obj[t]
    BY <1>0, <1>1, <1>10 DEF OneShot, OnlineIsLive
  <2>3. sock'[fd_[online_connections_[u]]] = online_connections_[u]
    BY <1>5, <1>10, <2>1, <2>2 DEF OneShot, OnlineIsLive
  <2>4. \A s \in Owners : pc'[s] = "close" => pc[s] = "close"
    BY <1>1, <1>2
  <2> QED BY <1>10, <2>3, <2>4 DEF OneShot, OnlineIsLive
<1>11. \A g \in armed' : ArmedIsOpen(g)'
  BY <1>0, <1>7 DEF ArmedIsOpen
<1>12. \A i \in 1..Len(tasks') : TaskIsOpen(i)'
  BY <1>0, <1>8 DEF TaskIsOpen
<1>13. \A s \in Owners : Busy(s)' => OwnerIsAlone(s)'
  BY <1>0, <1>9 DEF OwnerIsAlone
<1>14. \A u \in Users : online_connections_'[u] # None => OnlineIsLive(u)'
  BY <1>0, <1>10 DEF OnlineIsLive
<1> QED BY <1>11, <1>12, <1>13, <1>14 DEF OneShot

LEMMA RearmOneShot ==
    ASSUME IInv, OneShot, NEW w \in Workers, Rearm(w)
    PROVE  OneShot'
<1> DEFINE f == fd_[obj[w]]
<1>0. /\ pc[w] = "rearm"
      /\ armed' = armed \cup { g \in {f} : sock[g] # None }
      /\ pc' = [pc EXCEPT ![w] = "idle"]
      /\ UNCHANGED <<sock, fd_, is_close_, user_id_, online_connections_, tasks, obj>>
  BY DEF Rearm, Arm, Goto, objects
<1>1. w \in Owners /\ Owners \subseteq Threads /\ Busy(w) /\ w \in Threads
  BY <1>0, OwnersAre DEF Busy
<1>2. pc'[w] = "idle" /\ \A s \in Threads \ {w} : pc'[s] = pc[s]
  BY <1>0, <1>1 DEF IInv, TypeOK
<1>3. /\ obj[w] \in Objs /\ sock[f] = obj[w] /\ f \in Fds /\ ~is_close_[obj[w]]
      /\ \A i \in 1..Len(tasks) : tasks[i] # obj[w]
      /\ \A s \in Owners : Busy(s) /\ obj[s] = obj[w] => s = w
  BY <1>0, <1>1, InTypes DEF IInv, OneShot, OwnerIsAlone
<1> HIDE DEF f
<1>4. armed' = armed \cup {f}
  BY <1>0, <1>3, WebserverAssumption
<1>5. ~Busy(w)' /\ \A s \in Owners \ {w} : Busy(s)' <=> Busy(s)
  BY <1>1, <1>2 DEF Busy
<1>6. ASSUME NEW g \in armed' PROVE sock[g] # None /\ ~is_close_[sock[g]]
  BY <1>3, <1>4, WebserverAssumption DEF OneShot, ArmedIsOpen
<1>7. ASSUME NEW i \in 1..Len(tasks) PROVE fd_[tasks[i]] \notin armed'
  <2>1. sock[fd_[tasks[i]]] = tasks[i] /\ fd_[tasks[i]] \notin armed
    BY DEF OneShot, TaskIsOpen
  <2>2. sock[f] # tasks[i]
    BY <1>3
  <2> QED BY <1>4, <2>1, <2>2
<1>8. ASSUME NEW s \in Owners, Busy(s)'
      PROVE  /\ sock[fd_[obj[s]]] = obj[s] /\ fd_[obj[s]] \notin armed'
             /\ is_close_[obj[s]] <=> pc'[s] \in {"unregister", "close"}
             /\ \A i \in 1..Len(tasks) : tasks[i] # obj[s]
             /\ \A r \in Owners : Busy(r)' /\ obj[r] = obj[s] => r = s
  <2>1. s # w /\ Busy(s) /\ pc'[s] = pc[s]
    BY <1>1, <1>2, <1>5, <1>8
  <2>2. obj[s] # obj[w]
    BY <1>3, <2>1
  <2>3. fd_[obj[s]] \notin armed'
    BY <1>3, <1>4, <2>1, <2>2 DEF OneShot, OwnerIsAlone
  <2>4. \A r \in Owners : Busy(r)' /\ obj[r] = obj[s] => r = s
    BY <1>5, <2>1 DEF OneShot, OwnerIsAlone
  <2> QED BY <2>1, <2>3, <2>4 DEF OneShot, OwnerIsAlone
<1>9. \A s \in Owners : pc'[s] = "close" => pc[s] = "close"
  BY <1>1, <1>2
<1>10. \A g \in armed' : ArmedIsOpen(g)'
  BY <1>0, <1>6 DEF ArmedIsOpen
<1>11. \A i \in 1..Len(tasks') : TaskIsOpen(i)'
  BY <1>0, <1>7 DEF OneShot, TaskIsOpen
<1>12. \A s \in Owners : Busy(s)' => OwnerIsAlone(s)'
  BY <1>0, <1>8 DEF OwnerIsAlone
<1>13. \A u \in Users : online_connections_'[u] # None => OnlineIsLive(u)'
  BY <1>0, <1>9 DEF OneShot, OnlineIsLive
<1> QED BY <1>10, <1>11, <1>12, <1>13 DEF OneShot

LEMMA TakeTaskOneShot ==
    ASSUME IInv, OneShot, NEW w \in Workers, TakeTask(w)
    PROVE  OneShot'
<1>0. /\ pc[w] = "idle" /\ tasks # <<>>
      /\ obj' = [obj EXCEPT ![w] = Head(tasks)]
      /\ tasks' = Tail(tasks)
      /\ pc' = [pc EXCEPT ![w] = "read"]
      /\ UNCHANGED <<sock, armed, fd_, is_close_, user_id_, online_connections_>>
  BY DEF TakeTask, Goto, objects, kernel
<1>1. w \in Owners /\ Owners \subseteq Threads /\ ~Busy(w) /\ w \in Threads
  BY <1>0, OwnersAre DEF Busy
<1>2. /\ pc'[w] = "read" /\ \A s \in Threads \ {w} : pc'[s] = pc[s]
      /\ obj'[w] = Head(tasks) /\ \A s \in Threads \ {w} : obj'[s] = obj[s]
  BY <1>0, <1>1 DEF IInv, TypeOK
<1>3. Head(tasks) = tasks[1] /\ 1 \in 1..Len(tasks) /\ Len(tasks) \in Nat
  BY <1>0, SMT DEF IInv, TypeOK
<1>4. ASSUME NEW i \in 1..Len(tasks')
      PROVE  i \in Int /\ i + 1 \in 1..Len(tasks) /\ i + 1 # 1 /\ tasks'[i] = tasks[i + 1]
  BY <1>0, <1>3, SMT DEF IInv, TypeOK
<1>5. Busy(w)' /\ \A s \in Owners \ {w} : Busy(s)' <=> Busy(s)
  BY <1>1, <1>2 DEF Busy
<1>6. /\ sock[fd_[tasks[1]]] = tasks[1] /\ ~is_close_[tasks[1]] /\ fd_[tasks[1]] \notin armed
      /\ \A j \in 1..Len(tasks) : tasks[j] = tasks[1] => j = 1
  BY <1>3 DEF OneShot, TaskIsOpen
<1>7. ASSUME NEW i \in 1..Len(tasks')
      PROVE  /\ sock[fd_[tasks'[i]]] = tasks'[i] /\ ~is_close_[tasks'[i]]
             /\ fd_[tasks'[i]] \notin armed
             /\ \A j \in 1..Len(tasks') : tasks'[j] = tasks'[i] => i = j
  <2>1. ASSUME NEW j \in 1..Len(tasks'), tasks'[j] = tasks'[i] PROVE i = j
    <3>1. i + 1 = j + 1
      BY <1>4, <2>1 DEF OneShot, TaskIsOpen
    <3> QED BY <1>4, <3>1
  <2>2. /\ i + 1 \in 1..Len(tasks) /\ tasks'[i] = tasks[i + 1]
    BY <1>4
  <2>3. /\ sock[fd_[tasks[i + 1]]] = tasks[i + 1] /\ ~is_close_[tasks[i + 1]]
        /\ fd_[tasks[i + 1]] \notin armed
    BY <2>2 DEF OneShot, TaskIsOpen
  <2> QED BY <2>1, <2>2, <2>3
<1>8. ASSUME NEW i \in 1..Len(tasks') PROVE tasks'[i] # tasks[1]
  BY <1>4, <1>6
<1>9. ASSUME NEW s \in Owners, Busy(s), NEW i \in 1..Len(tasks) PROVE tasks[i] # obj[s]
  BY <1>9 DEF OneShot, OwnerIsAlone
<1>10. ASSUME NEW s \in Owners, Busy(s)'
      PROVE  /\ sock[fd_[obj'[s]]] = obj'[s] /\ fd_[obj'[s]] \notin armed
             /\ is_close_[obj'[s]] <=> pc'[s] \in {"unregister", "close"}
             /\ \A i \in 1..Len(tasks') : tasks'[i] # obj'[s]
             /\ \A r \in Owners : Busy(r)' /\ obj'[r] = obj'[s] => r = s
  <2>1. CASE s = w
    <3>1. ASSUME NEW r \in Owners, Busy(r)', obj'[r] = obj'[s] PROVE r = s
      <4>1. SUFFICES ASSUME r # w PROVE FALSE
        BY <2>1
      <4>2. Busy(r) /\ obj'[r] = obj[r]
        BY <1>1, <1>2, <1>5, <3>1, <4>1
      <4> QED BY <1>2, <1>3, <1>9, <2>1, <3>1, <4>2
    <3> QED BY <1>2, <1>3, <1>6, <1>8, <2>1, <3>1
  <2>2. CASE s # w
    <3>1. Busy(s) /\ obj'[s] = obj[s] /\ pc'[s] = pc[s]
      BY <1>1, <1>2, <1>5, <1>10, <2>2
    <3>2. \A i \in 1..Len(tasks') : tasks'[i] # obj[s]
      BY <1>4, <1>9, <3>1
    <3>3. ASSUME NEW r \in Owners, Busy(r)', obj'[r] = obj[s] PROVE r = s
      <4>1. r # w
        BY <1>2, <1>3, <1>9, <3>1, <3>3
      <4>2. Busy(r) /\ obj'[r] = obj[r]
        BY <1>1, <1>2, <1>5, <3>3, <4>1
      <4>3. obj[r] = obj[s]
        BY <3>3, <4>2
      <4> QED BY <3>1, <4>2, <4>3 DEF OneShot, OwnerIsAlone
    <3> QED BY <3>1, <3>2, <3>3 DEF OneShot, OwnerIsAlone
  <2> QED BY <2>1, <2>2
<1>11. ASSUME NEW s \in Owners, pc'[s] = "close" PROVE pc[s] = "close" /\ obj'[s] = obj[s]
  BY <1>1, <1>2, <1>11
<1>12. \A g \in armed' : ArmedIsOpen(g)'
  BY <1>0 DEF OneShot, ArmedIsOpen
<1>13. \A i \in 1..Len(tasks') : TaskIsOpen(i)'
  BY <1>0, <1>7 DEF TaskIsOpen
<1>14. \A s \in Owners : Busy(s)' => OwnerIsAlone(s)'
  BY <1>0, <1>10 DEF OwnerIsAlone
<1>15. \A u \in Users : online_connections_'[u] # None => OnlineIsLive(u)'
  BY <1>0, <1>11 DEF OneShot, OnlineIsLive
<1> QED BY <1>12, <1>13, <1>14, <1>15 DEF OneShot

LEMMA DispatchOneShot ==
    ASSUME IInv, OneShot, NEW f \in Fds, Dispatch(f)
    PROVE  OneShot'
<1>0. /\ pc[Main] = "idle" /\ f \in armed
      /\ armed' = armed \ {f}
      /\ UNCHANGED <<sock, fd_, is_close_, user_id_, online_connections_>>
  BY DEF Dispatch, objects
<1>1. Main \in Owners /\ Owners \subseteq Threads /\ ~Busy(Main) /\ Main \in Threads
  BY <1>0, OwnersAre DEF Busy
<1> DEFINE o == sock[f]
<1>2. /\ o \in Objs /\ connections_[f] = o /\ fd_[o] = f /\ ~is_close_[o] /\ o # None
  BY <1>0 DEF IInv, TypeOK, Table, OneShot, ArmedIsOpen
<1>3. sock[fd_[o]] = o /\ fd_[o] \notin armed'
  BY <1>0, <1>2
<1> HIDE DEF o
<1>on. fd_[o] \in armed
  BY <1>0, <1>2
<1>4. ASSUME NEW i \in 1..Len(tasks) PROVE tasks[i] # o
  <2>1. fd_[tasks[i]] \notin armed
    BY DEF OneShot, TaskIsOpen
  <2> QED BY <1>on, <2>1
<1>5. ASSUME NEW s \in Owners, Busy(s) PROVE obj[s] # o
  <2>1. fd_[obj[s]] \notin armed
    BY <1>5 DEF OneShot, OwnerIsAlone
  <2> QED BY <1>on, <2>1
<1>6. \A g \in armed' : sock[g] # None /\ ~is_close_[sock[g]]
  BY <1>0 DEF OneShot, ArmedIsOpen
<1>7. \A g : g \notin armed => g \notin armed'
  BY <1>0
<1>8. CASE /\ pc' = [pc EXCEPT ![Main] = "del_fd"]
           /\ obj' = [obj EXCEPT ![Main] = connections_[f]]
           /\ tasks' = tasks
  <2>1. /\ pc'[Main] = "del_fd" /\ \A s \in Threads \ {Main} : pc'[s] = pc[s]
        /\ obj'[Main] = o /\ \A s \in Threads \ {Main} : obj'[s] = obj[s]
    BY <1>1, <1>2, <1>8 DEF IInv, TypeOK
  <2>2. Busy(Main)' /\ \A s \in Owners \ {Main} : Busy(s)' <=> Busy(s)
    BY <1>1, <2>1 DEF Busy
  <2>3. ASSUME NEW s \in Owners, Busy(s)'
        PROVE  /\ sock[fd_[obj'[s]]] = obj'[s] /\ fd_[obj'[s]] \notin armed'
               /\ is_close_[obj'[s]] <=> pc'[s] \in {"unregister", "close"}
               /\ \A i \in 1..Len(tasks) : tasks[i] # obj'[s]
               /\ \A r \in Owners : Busy(r)' /\ obj'[r] = obj'[s] => r = s
    <3>1. CASE s = Main
      <4>1. ASSUME NEW r \in Owners, Busy(r)', r # Main PROVE obj'[r] # o
        BY <1>1, <1>5, <2>1, <2>2, <4>1
      <4> QED BY <1>2, <1>3, <1>4, <2>1, <3>1, <4>1
    <3>2. CASE s # Main
      <4>1. Busy(s) /\ obj'[s] = obj[s] /\ pc'[s] = pc[s] /\ obj[s] # o
        BY <1>1, <1>5, <2>1, <2>2, <2>3, <3>2
      <4>2. ASSUME NEW r \in Owners, Busy(r)', obj'[r] = obj[s] PROVE r = s
        <5>1. r # Main
          BY <2>1, <4>1, <4>2
        <5>2. Busy(r) /\ obj[r] = obj[s]
          BY <1>1, <2>1, <2>2, <4>2, <5>1
        <5> QED BY <4>1, <5>2 DEF OneShot, OwnerIsAlone
      <4>3. /\ sock[fd_[obj[s]]] = obj[s] /\ fd_[obj[s]] \notin armed
            /\ is_close_[obj[s]] <=> pc[s] \in {"unregister", "close"}
            /\ \A i \in 1..Len(tasks) : tasks[i] # obj[s]
        BY <4>1 DEF OneShot, OwnerIsAlone
      <4> QED BY <1>7, <4>1, <4>2, <4>3
    <3> QED BY <3>1, <3>2
  <2>4. ASSUME NEW s \in Owners, pc'[s] = "close" PROVE pc[s] = "close" /\ obj'[s] = obj[s]
    BY <1>1, <2>1, <2>4
  <2>5. \A g \in armed' : ArmedIsOpen(g)'
    BY <1>0, <1>6 DEF ArmedIsOpen
  <2>6. \A i \in 1..Len(tasks') : TaskIsOpen(i)'
    BY <1>0, <1>7, <1>8 DEF OneShot, TaskIsOpen
  <2>7. \A s \in Owners : Busy(s)' => OwnerIsAlone(s)'
    BY <1>0, <1>8, <2>3 DEF OwnerIsAlone
  <2>8. \A u \in Users : online_connections_'[u] # None => OnlineIsLive(u)'
    BY <1>0, <2>4 DEF OneShot, OnlineIsLive
  <2> QED BY <2>5, <2>6, <2>7, <2>8 DEF OneShot
<1>9. CASE tasks' = Append(tasks, connections_[f]) /\ UNCHANGED <<pc, obj>>
  <2>1. /\ Len(tasks) \in Nat /\ Len(tasks') = Len(tasks) + 1 /\ tasks'[Len(tasks) + 1] = o
        /\ \A i \in 1..Len(tasks) : tasks'[i] = tasks[i]
    BY <1>2, <1>9, SMT DEF IInv, TypeOK
  <2>2. \A i \in 1..Len(tasks') : i = Len(tasks) + 1 \/ i \in 1..Len(tasks)
    BY <2>1, SMT
  <2>3. ASSUME NEW i \in 1..Len(tasks')
        PROVE  /\ sock[fd_[tasks'[i]]] = tasks'[i] /\ ~is_close_[tasks'[i]]
               /\ fd_[tasks'[i]] \notin armed'
               /\ \A j \in 1..Len(tasks') : tasks'[j] = tasks'[i] => i = j
    <3>1. CASE i = Len(tasks) + 1
      BY <1>2, <1>3, <1>4, <2>1, <2>2, <3>1
    <3>2. CASE i \in 1..Len(tasks)
      <4>1. tasks'[i] = tasks[i] /\ tasks[i] # o
        BY <1>4, <2>1, <3>2
      <4>2. ASSUME NEW j \in 1..Len(tasks'), tasks'[j] = tasks'[i] PROVE i = j
        <5>1. j \in 1..Len(tasks) /\ tasks[j] = tasks[i]
          BY <2>1, <2>2, <4>1, <4>2
        <5> QED BY <3>2, <5>1 DEF OneShot, TaskIsOpen
      <4>3. /\ sock[fd_[tasks[i]]] = tasks[i] /\ ~is_close_[tasks[i]]
            /\ fd_[tasks[i]] \notin armed
        BY <3>2 DEF OneShot, TaskIsOpen
      <4> QED BY <1>7, <4>1, <4>2, <4>3
    <3> QED BY <2>2, <3>1, <3>2
  <2>4. \A s \in Owners : Busy(s) => \A i \in 1..Len(tasks') : tasks'[i] # obj[s]
    BY <1>5, <2>1, <2>2 DEF OneShot, OwnerIsAlone
  <2>5. \A s \in Owners : Busy(s)' <=> Busy(s)
    BY <1>9 DEF Busy
  <2>6. \A g \in armed' : ArmedIsOpen(g)'
    BY <1>0, <1>6 DEF ArmedIsOpen
  <2>7. \A i \in 1..Len(tasks') : TaskIsOpen(i)'
    BY <1>0, <2>3 DEF TaskIsOpen
  <2>8. \A s \in Owners : Busy(s)' => OwnerIsAlone(s)'
    BY <1>0, <1>7, <1>9, <2>4, <2>5 DEF OneShot, OwnerIsAlone
  <2>9. \A u \in Users : online_connections_'[u] # None => OnlineIsLive(u)'
    BY <1>0, <1>9 DEF OneShot, OnlineIsLive
  <2> QED BY <2>6, <2>7, <2>8, <2>9 DEF OneShot
<1> QED BY <1>8, <1>9 DEF Dispatch, Goto

LEMMA AddClientOneShot ==
    ASSUME IInv, OneShot, NEW o \in Objs, NEW f \in Fds, o \notin accepted, sock[f] = None,
           AddClient(o, f)
    PROVE  OneShot'
<1>0. /\ fd_[o] = None /\ f # None /\ o # None
      /\ armed' = armed \cup {f}
      /\ UNCHANGED <<user_id_, online_connections_, tasks, pc, obj>>
  BY AddClientFacts
<1>1. sock'[f] = o /\ \A g \in Fds \ {f} : sock'[g] = sock[g]
  BY AddClientFacts
<1>2. fd_'[o] = f /\ \A x \in Objs \ {o} : fd_'[x] = fd_[x]
  BY AddClientFacts
<1>3. ~is_close_'[o] /\ \A x \in Objs \ {o} : is_close_'[x] = is_close_[x]
  BY AddClientFacts
<1>4. ASSUME NEW x \in Objs, fd_[x] # None, sock[fd_[x]] = x
      PROVE  /\ x # o /\ fd_'[x] = fd_[x] /\ fd_[x] # f /\ sock'[fd_[x]] = x
             /\ is_close_'[x] = is_close_[x]
  <2>1. x # o /\ x # None /\ fd_[x] \in Fds
    BY <1>0, <1>4, WebserverAssumption DEF IInv, TypeOK
  <2>2. fd_[x] # f
    BY <1>4, <2>1
  <2> QED BY <1>1, <1>2, <1>3, <1>4, <2>1, <2>2
<1>5. ASSUME NEW g \in armed' PROVE sock'[g] # None /\ ~is_close_'[sock'[g]]
  <2>1. CASE g = f
    BY <1>0, <1>1, <1>3, <2>1
  <2>2. CASE g # f
    <3>1. g \in Fds /\ g \in armed /\ sock[g] # None /\ ~is_close_[sock[g]]
      BY <1>0, <2>2 DEF IInv, TypeOK, OneShot, ArmedIsOpen
    <3>2. sock[g] \in Objs /\ fd_[sock[g]] = g /\ g # None
      BY <3>1, WebserverAssumption DEF IInv, TypeOK, Table
    <3> QED BY <1>1, <1>4, <2>2, <3>1, <3>2
  <2> QED BY <2>1, <2>2
<1>6. ASSUME NEW i \in 1..Len(tasks)
      PROVE  /\ sock'[fd_'[tasks[i]]] = tasks[i] /\ ~is_close_'[tasks[i]]
             /\ fd_'[tasks[i]] \notin armed'
  <2>1. tasks[i] \in Objs /\ fd_[tasks[i]] # None
    BY DEF IInv, TypeOK, Pointers
  <2>2. sock[fd_[tasks[i]]] = tasks[i] /\ ~is_close_[tasks[i]] /\ fd_[tasks[i]] \notin armed
    BY DEF OneShot, TaskIsOpen
  <2> QED BY <1>0, <1>4, <2>1, <2>2
<1>7. ASSUME NEW s \in Owners, Busy(s)
      PROVE  /\ sock'[fd_'[obj[s]]] = obj[s] /\ fd_'[obj[s]] \notin armed'
             /\ is_close_'[obj[s]] <=> pc[s] \in {"unregister", "close"}
  <2>1. s \in Threads /\ pc[s] # "idle"
    BY <1>7, OwnersAre DEF Busy
  <2>2. obj[s] \in Objs /\ fd_[obj[s]] # None
    BY <2>1, InTypes DEF IInv, Pointers
  <2>3. /\ sock[fd_[obj[s]]] = obj[s] /\ fd_[obj[s]] \notin armed
        /\ is_close_[obj[s]] <=> pc[s] \in {"unregister", "close"}
    BY <1>7 DEF OneShot, OwnerIsAlone
  <2> QED BY <1>0, <1>4, <2>2, <2>3
<1>8. ASSUME NEW u \in Users, online_connections_[u] # None
      PROVE  sock'[fd_'[online_connections_[u]]] = online_connections_[u]
  <2>1. online_connections_[u] \in Objs /\ fd_[online_connections_[u]] # None
    BY <1>8 DEF IInv, TypeOK, Pointers
  <2>2. sock[fd_[online_connections_[u]]] = online_connections_[u]
    BY <1>8 DEF OneShot, OnlineIsLive
  <2> QED BY <1>4, <2>1, <2>2
<1>9. \A s \in Owners : Busy(s)' <=> Busy(s)
  BY <1>0 DEF Busy
<1>10. \A g \in armed' : ArmedIsOpen(g)'
  BY <1>5 DEF ArmedIsOpen
<1>11. \A i \in 1..Len(tasks') : TaskIsOpen(i)'
  BY <1>0, <1>6 DEF OneShot, TaskIsOpen
<1>12. \A s \in Owners : Busy(s)' => OwnerIsAlone(s)'
  BY <1>0, <1>7, <1>9 DEF OneShot, OwnerIsAlone
<1>13. \A u \in Users : online_connections_'[u] # None => OnlineIsLive(u)'
  BY <1>0, <1>8 DEF OneShot, OnlineIsLive
<1> QED BY <1>10, <1>11, <1>12, <1>13 DEF OneShot

----------------------------------------------------------------------------
\* user_count counts the open connections.

LEMMA SameCount == ASSUME Counted, UNCHANGED <<is_close_, user_count>> PROVE Counted'
<1>1. open' = open
  BY DEF open
<1> QED BY <1>1 DEF Counted

LEMMA AddClientCounted ==
    ASSUME IInv, Counted, NEW o \in Objs, NEW f \in Fds, o \notin accepted, sock[f] = None,
           AddClient(o, f)
    PROVE  Counted'
<1>1. is_close_[o] /\ ~is_close_'[o] /\ \A x \in Objs \ {o} : is_close_'[x] = is_close_[x]
  BY AddClientFacts
<1>2. open' = open \cup {o} /\ o \notin open
  BY <1>1 DEF open
<1>3. IsFiniteSet(open) /\ Cardinality(open) \in Nat
  BY FS_CardinalityType DEF Counted
<1>4. IsFiniteSet(open \cup {o}) /\ Cardinality(open \cup {o}) = Cardinality(open) + 1
  BY <1>2, <1>3, FS_AddElement
<1>5. user_count' = user_count + 1
  BY DEF AddClient
<1> QED BY <1>2, <1>4, <1>5 DEF Counted

LEMMA MarkCounted ==
    ASSUME IInv, OneShot, Counted, NEW t \in Threads, Mark(t)
    PROVE  Counted'
<1>0. /\ pc[t] = "mark"
      /\ is_close_' = [is_close_ EXCEPT ![obj[t]] = TRUE]
      /\ user_count' = user_count - 1
  BY DEF Mark
<1>1. t \in Owners /\ Busy(t)
  BY <1>0, OwnersAre DEF IInv, Pointers, Busy
<1>2. obj[t] \in Objs /\ ~is_close_[obj[t]]
  BY <1>0, <1>1, InTypes DEF IInv, OneShot, OwnerIsAlone
<1>3. is_close_'[obj[t]] /\ \A x \in Objs \ {obj[t]} : is_close_'[x] = is_close_[x]
  BY <1>0, <1>2 DEF IInv, TypeOK
<1>4. open' = open \ {obj[t]} /\ obj[t] \in open
  BY <1>2, <1>3 DEF open
<1>5. IsFiniteSet(open) /\ Cardinality(open) \in Nat
  BY FS_CardinalityType DEF Counted
<1>6. /\ IsFiniteSet(open \ {obj[t]})
      /\ Cardinality(open \ {obj[t]}) = Cardinality(open) - 1
  BY <1>4, <1>5, FS_RemoveElement
<1> QED BY <1>0, <1>4, <1>6 DEF Counted

----------------------------------------------------------------------------
\* The steps of a thread that keep its connection in hand.
LEMMA CloseOneShot ==
    ASSUME IInv, OneShot, NEW t \in Threads, Close(t) \/ UseDestroyed(t)
    PROVE  OneShot'
<1>0. Owners \subseteq Threads /\ (t \notin Owners => pc[t] \in {"idle", "push", "undefined"})
  BY OwnersAre DEF IInv, Pointers
<1>1. ASSUME t \in Owners, Busy(t)
      PROVE  /\ obj[t] \in Objs /\ obj[t] \notin destroyed
             /\ is_close_[obj[t]] <=> pc[t] \in {"unregister", "close"}
  <2>1. obj[t] \in Objs /\ fd_[obj[t]] \in Fds /\ sock[fd_[obj[t]]] = obj[t]
    BY <1>1, InTypes DEF IInv, OneShot, OwnerIsAlone, Busy
  <2>2. obj[t] # None
    BY <2>1, WebserverAssumption
  <2>3. obj[t] \notin destroyed
    BY <2>1, <2>2 DEF IInv, Table
  <2>4. is_close_[obj[t]] <=> pc[t] \in {"unregister", "close"}
    BY <1>1 DEF OneShot, OwnerIsAlone
  <2> QED BY <2>1, <2>3, <2>4
<1>2. CASE DelFd(t)
  <2>0. /\ pc[t] = "del_fd" /\ armed' \subseteq armed /\ pc' = [pc EXCEPT ![t] = "check"]
        /\ UNCHANGED <<sock, connections_, fd_, destroyed, timer, is_close_, user_id_,
                       online_connections_, tasks, obj>>
    BY <1>2 DEF DelFd, Goto, objects
  <2>1. t \in Owners /\ Busy(t)
    BY <1>0, <2>0 DEF Busy
  <2>2. "check" \in Labels /\ Moves(t, "check")
    BY <2>0 DEF Labels, Moves
  <2>3. ~is_close_[obj[t]]
    BY <1>1, <2>0, <2>1
  <2> QED BY <2>0, <2>1, <2>2, <2>3, MovesOneShot
<1>3. CASE CheckClose(t)
  <2>0. /\ pc[t] = "check" /\ pc' = [pc EXCEPT ![t] = IF is_close_[obj[t]] THEN "idle" ELSE "mark"]
        /\ UNCHANGED <<sock, armed, connections_, fd_, destroyed, timer, is_close_, user_id_,
                       online_connections_, tasks, obj>>
    BY <1>3 DEF CheckClose, Goto, objects, kernel
  <2>1. t \in Owners /\ Busy(t)
    BY <1>0, <2>0 DEF Busy
  <2>2. ~is_close_[obj[t]]
    BY <1>1, <2>0, <2>1
  <2>3. "mark" \in Labels /\ Moves(t, "mark")
    BY <2>0, <2>2 DEF Labels, Moves
  <2> QED BY <2>0, <2>1, <2>2, <2>3, MovesOneShot
<1>4. CASE Mark(t)
  <2>0. /\ pc[t] = "mark" /\ pc' = [pc EXCEPT ![t] = "unregister"]
        /\ is_close_' = [is_close_ EXCEPT ![obj[t]] = TRUE]
        /\ UNCHANGED <<sock, armed, connections_, fd_, destroyed, timer, user_id_,
                       online_connections_, tasks, obj>>
    BY <1>4 DEF Mark, Goto, objects, kernel
  <2>1. t \in Owners /\ Busy(t)
    BY <1>0, <2>0 DEF Busy
  <2>2. "unregister" \in Labels /\ Moves(t, "unregister")
    BY <2>0 DEF Labels, Moves
  <2>3. is_close_'[obj[t]] /\ \A o \in Objs \ {obj[t]} : is_close_'[o] = is_close_[o]
    BY <1>1, <2>0, <2>1 DEF IInv, TypeOK
  <2> QED BY <2>0, <2>1, <2>2, <2>3, MovesOneShot
<1>5. CASE Unregister(t)
  <2>0. /\ pc[t] = "unregister" /\ pc' = [pc EXCEPT ![t] = "close"]
        /\ online_connections_' = [u \in Users |->
              IF u = user_id_[obj[t]] THEN None ELSE online_connections_[u]]
        /\ UNCHANGED <<sock, armed, connections_, fd_, destroyed, timer, is_close_, user_id_,
                       tasks, obj>>
    BY <1>5 DEF Unregister, Goto, objects, kernel
  <2>1. t \in Owners /\ Busy(t)
    BY <1>0, <2>0 DEF Busy
  <2>2. "close" \in Labels /\ Moves(t, "close")
    BY <2>0 DEF Labels, Moves
  <2>3. is_close_[obj[t]] /\ obj[t] # None
    BY <1>1, <2>0, <2>1, WebserverAssumption
  <2>4. ASSUME NEW u \in Users
        PROVE  /\ online_connections_'[u] = None \/ online_connections_'[u] = online_connections_[u]
               /\ online_connections_'[u] # obj[t]
    <3>1. CASE u = user_id_[obj[t]]
      BY <2>0, <2>3, <3>1
    <3>2. CASE u # user_id_[obj[t]]
      <4>1. online_connections_'[u] = online_connections_[u]
        BY <2>0, <3>2
      <4> QED BY <2>3, <3>2, <4>1 DEF OneShot, OnlineIsLive
    <3> QED BY <3>1, <3>2
  <2> QED BY <2>0, <2>1, <2>2, <2>3, <2>4, MovesOneShot
<1>6. CASE CloseFd(t)
  BY <1>6, CloseFdOneShot
<1>7. CASE LogQuit(t) \/ UseDestroyed(t)
  <2>0. PICK l \in {"idle", "undefined"} :
        /\ pc[t] = "log" \/ obj[t] \in destroyed
        /\ pc' = [pc EXCEPT ![t] = l]
        /\ UNCHANGED <<sock, armed, fd_, is_close_, user_id_, online_connections_, tasks, obj>>
    BY <1>7 DEF LogQuit, UseDestroyed, Goto, objects, kernel
  <2>1. pc'[t] = l /\ \A s \in Threads \ {t} : pc'[s] = pc[s]
    BY <2>0 DEF IInv, TypeOK
  <2>2. t \in Owners => ~Busy(t)
    BY <1>1, <2>0 DEF Busy
  <2> QED BY <1>0, <2>0, <2>1, <2>2, IdleOneShot
<1> QED BY <1>2, <1>3, <1>4, <1>5, <1>6, <1>7 DEF Close

LEMMA WorkOneShot ==
    ASSUME IInv, OneShot, NEW w \in Workers, TakeTask(w) \/ Work(w)
    PROVE  OneShot'
<1>0. w \in Owners /\ w \in Threads /\ Owners \subseteq Threads
  BY OwnersAre
<1>1. ASSUME Busy(w), pc[w] \notin {"unregister", "close"}
      PROVE  obj[w] \in Objs /\ ~is_close_[obj[w]]
  BY <1>0, <1>1, InTypes DEF IInv, OneShot, OwnerIsAlone, Busy
<1>2. CASE Read(w)
  <2>0. PICK l \in {"del_fd", "process"} :
        /\ pc[w] = "read" /\ pc' = [pc EXCEPT ![w] = l]
        /\ UNCHANGED <<sock, armed, connections_, fd_, destroyed, timer, is_close_, user_id_,
                       online_connections_, tasks, obj>>
    BY <1>2 DEF Read, Goto, objects
  <2>1. Busy(w) /\ ~is_close_[obj[w]]
    BY <1>1, <2>0 DEF Busy
  <2>2. l \in Labels /\ Moves(w, l) /\ l \notin {"idle", "log", "undefined", "unregister", "close"}
    BY <2>0 DEF Labels, Moves
  <2> QED BY <1>0, <2>0, <2>1, <2>2, MovesOneShot
<1>3. CASE ProcessRequest(w)
  <2>0. PICK l \in {"register", "rearm"} :
        /\ pc[w] = "process" /\ pc' = [pc EXCEPT ![w] = l]
        /\ user_id_' = [user_id_ EXCEPT ![obj[w]] = LoginAs[obj[w]]] \/ user_id_' = user_id_
        /\ UNCHANGED <<sock, armed, connections_, fd_, destroyed, timer, is_close_,
                       online_connections_, tasks, obj>>
    BY <1>3 DEF ProcessRequest, Goto, objects, kernel
  <2>1. Busy(w) /\ ~is_close_[obj[w]] /\ obj[w] \in Objs
    BY <1>1, <2>0 DEF Busy
  <2>2. l \in Labels /\ Moves(w, l) /\ l \notin {"idle", "log", "undefined", "unregister", "close"}
    BY <2>0 DEF Labels, Moves
  <2>3. \A o \in Objs : user_id_[o] # None => user_id_'[o] = user_id_[o]
    BY <2>0, <2>1 DEF IInv, TypeOK, Pointers
  <2> QED BY <1>0, <2>0, <2>1, <2>2, <2>3, MovesOneShot
<1>4. CASE Register(w)
  <2>0. /\ pc[w] = "register" /\ pc' = [pc EXCEPT ![w] = "rearm"]
        /\ online_connections_' = [online_connections_ EXCEPT ![user_id_[obj[w]]] = obj[w]]
        /\ UNCHANGED <<sock, armed, connections_, fd_, destroyed, timer, is_close_, user_id_,
                       tasks, obj>>
    BY <1>4 DEF Register, Goto, objects, kernel
  <2>1. Busy(w) /\ ~is_close_[obj[w]]
    BY <1>1, <2>0 DEF Busy
  <2>2. "rearm" \in Labels /\ Moves(w, "rearm")
    BY <2>0 DEF Labels, Moves
  <2>3. ASSUME NEW u \in Users
        PROVE  \/ online_connections_'[u] = online_connections_[u]
               \/ online_connections_'[u] = obj[w] /\ user_id_'[obj[w]] = u
    <3>1. online_connections_ \in [Users -> Objs \cup {None}]
      BY DEF IInv, TypeOK
    <3>2. CASE u # user_id_[obj[w]]
      BY <2>0, <3>1, <3>2
    <3>3. CASE u = user_id_[obj[w]]
      <4>1. online_connections_'[u] = obj[w]
        BY <2>0, <3>1, <3>3
      <4> QED BY <2>0, <3>3, <4>1
    <3> QED BY <3>2, <3>3
  <2> QED BY <1>0, <2>0, <2>1, <2>2, <2>3, MovesOneShot
<1> QED BY <1>2, <1>3, <1>4, RearmOneShot, TakeTaskOneShot DEF Work

LEMMA NextQInv == ASSUME IInv, Bytes, QInv, [Next]_vars PROVE QInv'
<1> SUFFICES ASSUME quiet' PROVE OneShot' /\ Counted'
  BY DEF QInv
<1>0. Owners \subseteq Threads /\ \A t \in Owners : t \notin Pushers
  BY OwnersAre
<1>1. CASE UNCHANGED vars
  <2>1. UNCHANGED <<sock, armed, tasks, fd_, is_close_, user_id_, online_connections_, user_count,
                    pc, obj, quiet>>
    BY <1>1 DEF vars, kernel, objects
  <2> QED BY <2>1, IdleOneShot, SameCount DEF QInv
<1>2. CASE Refuse
  <2>1. UNCHANGED <<sock, armed, tasks, fd_, is_close_, user_id_, online_connections_, user_count,
                    pc, obj, quiet>>
    BY <1>2 DEF Refuse, vars, kernel, objects
  <2> QED BY <2>1, IdleOneShot, SameCount DEF QInv
<1>3. ASSUME NEW o \in Objs, Accept(o) PROVE OneShot' /\ Counted'
  <2>1. o \notin accepted /\ AddClient(o, Min(free)) /\ Min(free) \in Fds /\ sock[Min(free)] = None
    BY <1>3, LowestIsFree DEF Accept
  <2>2. quiet
    BY <2>1 DEF AddClient
  <2> QED BY <2>1, <2>2, AddClientOneShot, AddClientCounted DEF QInv
<1>4. ASSUME NEW o \in Objs, Send(o) \/ Disconnect(o) PROVE OneShot' /\ Counted'
  <2>1. UNCHANGED <<sock, armed, tasks, fd_, is_close_, user_id_, online_connections_, user_count,
                    pc, obj, quiet>>
    BY <1>4 DEF Send, Disconnect, objects
  <2> QED BY <2>1, IdleOneShot, SameCount DEF QInv
<1>5. ASSUME NEW f \in Fds, Dispatch(f) PROVE OneShot' /\ Counted'
  <2>1. UNCHANGED <<is_close_, user_count, quiet>>
    BY <1>5 DEF Dispatch
  <2> QED BY <1>5, <2>1, DispatchOneShot, SameCount DEF QInv
<1>6. ASSUME NEW f \in Fds, Tick(f) PROVE OneShot' /\ Counted'
  BY <1>6 DEF Tick
<1>7. ASSUME NEW t \in Threads, Close(t) \/ UseDestroyed(t) PROVE OneShot' /\ Counted'
  <2>1. quiet
    BY <1>7 DEF Close, DelFd, CheckClose, Mark, Unregister, CloseFd, LogQuit, UseDestroyed
  <2>2. CASE Mark(t)
    BY <1>7, <2>1, <2>2, CloseOneShot, MarkCounted DEF QInv
  <2>3. CASE ~Mark(t)
    <3>1. UNCHANGED <<is_close_, user_count>>
      BY <1>7, <2>3 DEF Close, DelFd, CheckClose, Unregister, CloseFd, LogQuit, UseDestroyed
    <3> QED BY <1>7, <2>1, <3>1, CloseOneShot, SameCount DEF QInv
  <2> QED BY <2>2, <2>3
<1>8. ASSUME NEW w \in Workers, TakeTask(w) \/ Work(w) PROVE OneShot' /\ Counted'
  <2>1. UNCHANGED <<is_close_, user_count, quiet>>
    BY <1>8 DEF TakeTask, Work, Read, ProcessRequest, Register, Rearm
  <2> QED BY <1>8, <2>1, WorkOneShot, SameCount DEF QInv
<1>9. ASSUME NEW p \in Pushers, EnqueueMessage(p) PROVE OneShot' /\ Counted'
  BY <1>9 DEF EnqueueMessage
<1>10. ASSUME NEW p \in Pushers, NEW u \in Users, LookUp(p, u) PROVE OneShot' /\ Counted'
  <2>1. /\ pc' = [pc EXCEPT ![p] = "push"]
        /\ obj' = [obj EXCEPT ![p] = online_connections_[u]]
        /\ UNCHANGED <<sock, armed, tasks, fd_, is_close_, user_id_, online_connections_,
                       user_count, quiet>>
    BY <1>10 DEF LookUp, Goto, kernel, objects
  <2>2. \A s \in Owners : pc'[s] = pc[s] /\ obj'[s] = obj[s]
    BY <1>0, <2>1 DEF IInv, TypeOK
  <2> QED BY <2>1, <2>2, IdleOneShot, SameCount DEF QInv
<1> QED BY <1>1, <1>2, <1>3, <1>4, <1>5, <1>6, <1>7, <1>8, <1>9, <1>10 DEF Next

LEMMA InitQInv == Init => QInv
<1> SUFFICES ASSUME Init PROVE OneShot /\ Counted
  BY DEF QInv
<1>1. open = {}
  BY DEF Init, open
<1>2. Counted
  BY <1>1, FS_EmptySet DEF Init, Counted
<1>3. \A t \in Owners : ~Busy(t)
  BY OwnersAre DEF Init, Busy
<1>4. tasks = <<>> /\ 1..Len(tasks) = {}
  BY SMT DEF Init
<1> QED BY <1>2, <1>3, <1>4 DEF Init, OneShot

LEMMA QuietPointers == IInv /\ QInv => ClosedOnce /\ PointersAreLive
<1> SUFFICES ASSUME IInv, QInv, quiet
             PROVE  /\ user_count = Cardinality({ o \in Objs : ~is_close_[o] })
                    /\ \A t \in Threads : pc[t] = "close" =>
                          obj[t] \notin destroyed /\ sock[fd_[obj[t]]] = obj[t]
                    /\ \A u \in Users : online_connections_[u] \notin destroyed
                    /\ \A i \in 1..Len(tasks) : tasks[i] \notin destroyed
                    /\ \A t \in Workers \cup {Main} :
                          pc[t] \notin {"idle", "log", "undefined"} => obj[t] \notin destroyed
  BY DEF ClosedOnce, PointersAreLive
<1>0. OneShot /\ Counted
  BY DEF QInv
<1>1. ASSUME NEW o \in Objs, fd_[o] # None, sock[fd_[o]] = o PROVE o \notin destroyed
  <2>1. fd_[o] \in Fds /\ o # None
    BY <1>1, WebserverAssumption DEF IInv, TypeOK
  <2> QED BY <1>1, <2>1 DEF IInv, Table
<1>2. user_count = Cardinality({ o \in Objs : ~is_close_[o] })
  BY <1>0 DEF Counted, open
<1>3. ASSUME NEW t \in Owners, Busy(t)
      PROVE  obj[t] \notin destroyed /\ sock[fd_[obj[t]]] = obj[t]
  <2>1. t \in Threads /\ pc[t] # "idle"
    BY <1>3, OwnersAre DEF Busy
  <2>2. obj[t] \in Objs /\ fd_[obj[t]] # None
    BY <2>1, InTypes DEF IInv, Pointers
  <2>3. sock[fd_[obj[t]]] = obj[t]
    BY <1>0, <1>3 DEF OneShot, OwnerIsAlone
  <2> QED BY <1>1, <2>2, <2>3
<1>4. ASSUME NEW t \in Threads, pc[t] = "close"
      PROVE  obj[t] \notin destroyed /\ sock[fd_[obj[t]]] = obj[t]
  <2>1. t \in Owners /\ Busy(t)
    BY <1>4, OwnersAre DEF IInv, Pointers, Busy
  <2> QED BY <1>3, <2>1
<1>5. ASSUME NEW u \in Users PROVE online_connections_[u] \notin destroyed
  <2>1. CASE online_connections_[u] = None
    BY <2>1, WebserverAssumption DEF IInv, TypeOK
  <2>2. CASE online_connections_[u] # None
    <3>1. online_connections_[u] \in Objs /\ fd_[online_connections_[u]] # None
      BY <2>2 DEF IInv, TypeOK, Pointers
    <3> QED BY <1>0, <1>1, <2>2, <3>1 DEF OneShot, OnlineIsLive
  <2> QED BY <2>1, <2>2
<1>6. ASSUME NEW i \in 1..Len(tasks) PROVE tasks[i] \notin destroyed
  <2>1. tasks[i] \in Objs /\ fd_[tasks[i]] # None
    BY DEF IInv, TypeOK, Pointers
  <2> QED BY <1>0, <1>1, <2>1 DEF OneShot, TaskIsOpen
<1> QED BY <1>2, <1>3, <1>4, <1>5, <1>6 DEF Owners, Busy

----------------------------------------------------------------------------
\* The inductive invariant holds in every reachable state of the event loop, the workers
\* and the threads that push.
THEOREM WebserverInvariant == Spec => [](IInv /\ Bytes /\ QInv)
<1>1. Init => IInv /\ Bytes /\ QInv
  BY InitIInv, InitQInv DEF Init, Bytes
<1>2. IInv /\ Bytes /\ QInv /\ [Next]_vars => (IInv /\ Bytes /\ QInv)'
  BY NextIInv, BytesNext, NextQInv
<1> QED BY <1>1, <1>2, PTL DEF Spec

\* No descriptor leaks, whatever the timers, the pushes and the reuse of numbers by
\* accept: a socket is its live object's, or a thread inside close_conn closes it.
THEOREM NoDescriptorLeaks == Spec => []NoDescriptorLeak
BY WebserverInvariant, SafetyOfIInv, PTL

\* No open connection is forgotten by epoll, the tasks and the threads at once, so that
\* the event of its hang-up is always seen.
THEOREM HangupsAreNoticed == Spec => []HangupIsNoticed
<1>1. IInv => HangupIsNoticed
  BY DEF IInv
<1> QED BY <1>1, WebserverInvariant, PTL

\* Registering and unregistering in online_connections_ race with logins and closes of
\* others, and a user with one open connection is still found under it.
THEOREM OnlineUsersAreReachable == Spec => []OnlineUserIsReachable
<1>1. IInv => OnlineUserIsReachable
  BY DEF IInv
<1> QED BY <1>1, WebserverInvariant, PTL

\* As long as no timer expired and nothing was pushed, close_conn closes each connection
\* once, and user_count is right.
THEOREM ConnectionsCloseOnce == Spec => []ClosedOnce
BY WebserverInvariant, QuietPointers, PTL

\* Under the same condition AddClient_ destroys no object that a task, a thread or
\* online_connections_ still points to.
THEOREM NoDanglingPointers == Spec => []PointersAreLive
BY WebserverInvariant, QuietPointers, PTL
=============================================================================
