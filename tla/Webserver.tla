----------------------------- MODULE Webserver -----------------------------
(***************************************************************************)
(* The life of connections in the server: accept, the table connections_,  *)
(* TcpConnection objects and their descriptors, the timer, CloseConn_ run  *)
(* by the main thread and by pool workers, and the map of online users of  *)
(* PushService.  Sources: server/src/core/webserver.cpp, tcp_connection.cpp*)
(* and service/push_service.cpp.                                           *)
(*                                                                         *)
(* A client is named by the TcpConnection object it gets.  A thread holds  *)
(* a raw pointer obj[t]; when it uses one to a destroyed object it goes to *)
(* "undefined" and is no longer followed.  is_close_ is a plain bool: its  *)
(* test and its assignment are separate steps.  What a worker reads and    *)
(* writes on the connection is in module Connection.                       *)
(***************************************************************************)
EXTENDS Integers, Sequences, FiniteSets, FiniteSetsExt

CONSTANTS
    Objs,       \* the TcpConnection objects, one per accepted client
    Fds,        \* descriptor numbers
    Users, LoginAs,   \* user ids, and the one each client logs in as
    Workers, Pushers, Main,   \* pool threads, threads that push, the event loop
    MAX_FD,     \* the limit on user_count
    MaxTasks,   \* bound on the tasks waiting in the pool
    None

ASSUME WebserverAssumption ==
    /\ Fds \subseteq Nat
    /\ LoginAs \in [Objs -> Users]
    /\ Main \notin Workers \cup Pushers /\ Workers \cap Pushers = {}
    /\ MAX_FD \in Nat /\ MaxTasks \in Nat
    /\ None \notin Objs \cup Users \cup Fds

Threads == Workers \cup Pushers \cup {Main}

VARIABLES
    sock,          \* sock[fd]: whose socket the kernel has open as fd
    armed,         \* descriptors with an armed one-shot registration
    data, hup,     \* clients with unread bytes; clients that disconnected
    connections_, fd_, is_close_, user_id_,
    destroyed,     \* objects whose destructor has run
    user_count, online_connections_, timer,
    tasks,         \* OnRead_ tasks in the pool
    pc, obj,       \* per thread: where it is, and its TcpConnection*
    last,          \* history: the object that last registered for each user
    quiet          \* history: no timer has expired and nothing has been pushed

kernel == <<sock, armed, data, hup>>
objects == <<connections_, fd_, destroyed, timer>>
vars == <<kernel, objects, is_close_, user_id_, user_count, online_connections_,
          tasks, pc, obj, last, quiet>>

accepted == { o \in Objs : fd_[o] # None }

Init ==
    /\ sock = [f \in Fds |-> None]
    /\ armed = {} /\ data = {} /\ hup = {}
    /\ connections_ = [f \in Fds |-> None]
    /\ fd_ = [o \in Objs |-> None]
    /\ is_close_ = [o \in Objs |-> TRUE]
    /\ user_id_ = [o \in Objs |-> None]
    /\ destroyed = {}
    /\ user_count = 0
    /\ online_connections_ = [u \in Users |-> None]
    /\ timer = {}
    /\ tasks = <<>>
    /\ pc = [t \in Threads |-> "idle"]
    /\ obj = [t \in Threads |-> None]
    /\ last = [u \in Users |-> None]
    /\ quiet = TRUE

Goto(t, label) == pc' = [pc EXCEPT ![t] = label]

\* modFd sets the registration of whatever socket has the number.
Arm(f) == armed \cup { g \in {f} : sock[g] # None }

----------------------------------------------------------------------------
\* AddClient_: init of a new object.  The one that had the number before (it has
\* been closed) is destroyed when the table entry is assigned.
AddClient(o, f) ==
    /\ sock' = [sock EXCEPT ![f] = o]
    /\ fd_' = [fd_ EXCEPT ![o] = f]
    /\ is_close_' = [is_close_ EXCEPT ![o] = FALSE]
    /\ user_count' = user_count + 1
    /\ destroyed' = destroyed \cup ({ connections_[g] : g \in Fds \cap {f} } \ {None})
    /\ connections_' = [connections_ EXCEPT ![f] = o]
    /\ timer' = timer \cup {f}
    /\ armed' = armed \cup {f}
    /\ UNCHANGED <<data, hup, user_id_, online_connections_, tasks, pc, obj, last, quiet>>

free == { f \in Fds : sock[f] = None }

\* DealListen_: accept gives the lowest free descriptor.
Accept(o) ==
    /\ pc[Main] = "idle"
    /\ o \notin accepted
    /\ free # {} /\ user_count < MAX_FD
    /\ AddClient(o, Min(free))

\* DealListen_ with user_count at MAX_FD: SendError_ closes the new descriptor and
\* nothing else changes.
Refuse ==
    /\ pc[Main] = "idle"
    /\ free # {} /\ user_count >= MAX_FD
    /\ UNCHANGED vars

\* A plausible bug: the registration is not one-shot.
DispatchNotOneShot(f) ==
    /\ pc[Main] = "idle"
    /\ f \in armed /\ sock[f] \in hup \cup data
    /\ \/ /\ sock[f] \in hup
          /\ Goto(Main, "del_fd")
          /\ obj' = [obj EXCEPT ![Main] = connections_[f]]
          /\ UNCHANGED tasks
       \/ /\ sock[f] \notin hup
          /\ Len(tasks) < MaxTasks
          /\ tasks' = Append(tasks, connections_[f])
          /\ UNCHANGED <<pc, obj>>
    /\ UNCHANGED <<kernel, objects, is_close_, user_id_, user_count,
                   online_connections_, last, quiet>>

\* One event of a descriptor: EPOLLRDHUP starts CloseConn_ in the main thread,
\* EPOLLIN extends the timer and queues OnRead_ with the raw pointer.
Dispatch(f) ==
    LET o == connections_[f]
    IN  /\ pc[Main] = "idle"
        /\ f \in armed /\ sock[f] \in hup \cup data
        /\ armed' = armed \ {f}
        /\ \/ /\ sock[f] \in hup
              /\ Goto(Main, "del_fd")
              /\ obj' = [obj EXCEPT ![Main] = o]
              /\ UNCHANGED tasks
           \/ /\ sock[f] \notin hup
              /\ Len(tasks) < MaxTasks
              /\ tasks' = Append(tasks, o)
              /\ UNCHANGED <<pc, obj>>
        /\ UNCHANGED <<sock, data, hup, objects, is_close_, user_id_, user_count,
                       online_connections_, last, quiet>>

\* HeapTimer::Tick: the entry is removed and its callback runs CloseConn_.
Tick(f) ==
    /\ pc[Main] = "idle"
    /\ f \in timer
    /\ timer' = timer \ {f}
    /\ obj' = [obj EXCEPT ![Main] = connections_[f]]
    /\ Goto(Main, "del_fd")
    /\ quiet' = FALSE
    /\ UNCHANGED <<kernel, connections_, fd_, destroyed, is_close_, user_id_,
                   user_count, online_connections_, tasks, last>>

----------------------------------------------------------------------------
\* CloseConn_ and close_conn, by the main thread or by a worker.
DelFd(t) ==
    /\ pc[t] = "del_fd"
    /\ obj[t] \notin destroyed
    /\ armed' = armed \ {fd_[obj[t]]}
    /\ Goto(t, "check")
    /\ UNCHANGED <<sock, data, hup, objects, is_close_, user_id_, user_count,
                   online_connections_, tasks, obj, last, quiet>>

CheckClose(t) ==
    /\ pc[t] = "check"
    /\ obj[t] \notin destroyed
    /\ Goto(t, IF is_close_[obj[t]] THEN "idle" ELSE "mark")
    /\ UNCHANGED <<kernel, objects, is_close_, user_id_, user_count,
                   online_connections_, tasks, obj, last, quiet>>

\* A plausible bug: close_conn forgets to record that it ran.
MarkForgotten(t) ==
    /\ pc[t] = "mark"
    /\ obj[t] \notin destroyed
    /\ user_count' = user_count - 1
    /\ Goto(t, "unregister")
    /\ UNCHANGED <<kernel, objects, is_close_, user_id_, online_connections_, tasks, obj, last, quiet>>

Mark(t) ==
    /\ pc[t] = "mark"
    /\ obj[t] \notin destroyed
    /\ is_close_' = [is_close_ EXCEPT ![obj[t]] = TRUE]
    /\ user_count' = user_count - 1
    /\ Goto(t, "unregister")
    /\ UNCHANGED <<kernel, objects, user_id_, online_connections_, tasks, obj, last, quiet>>

\* A plausible bug: the entry of a user who hangs up is left in the map.
UnregisterForgotten(t) ==
    /\ pc[t] = "unregister"
    /\ obj[t] \notin destroyed
    /\ Goto(t, "close")
    /\ UNCHANGED <<kernel, objects, is_close_, user_id_, user_count, online_connections_,
                   tasks, obj, last, quiet>>

\* remove_client erases the user's entry, whichever connection it names.
Unregister(t) ==
    /\ pc[t] = "unregister"
    /\ obj[t] \notin destroyed
    /\ online_connections_' = [u \in Users |->
            IF u = user_id_[obj[t]] THEN None ELSE online_connections_[u]]
    /\ Goto(t, "close")
    /\ UNCHANGED <<kernel, objects, is_close_, user_id_, user_count, tasks, obj, last, quiet>>

\* A plausible bug: the descriptor is not closed.
CloseForgotten(t) ==
    /\ pc[t] = "close"
    /\ obj[t] \notin destroyed
    /\ Goto(t, "log")
    /\ UNCHANGED <<kernel, objects, is_close_, user_id_, user_count,
                   online_connections_, tasks, obj, last, quiet>>

\* close(fd_) closes whatever socket has the number, and its registration.
CloseFd(t) ==
    /\ pc[t] = "close"
    /\ obj[t] \notin destroyed
    /\ sock' = [sock EXCEPT ![fd_[obj[t]]] = None]
    /\ armed' = armed \ {fd_[obj[t]]}
    /\ Goto(t, "log")
    /\ UNCHANGED <<data, hup, objects, is_close_, user_id_, user_count,
                   online_connections_, tasks, obj, last, quiet>>

\* The LOG_INFO at the end of close_conn still reads fd_ and addr_.
LogQuit(t) ==
    /\ pc[t] = "log"
    /\ obj[t] \notin destroyed
    /\ Goto(t, "idle")
    /\ UNCHANGED <<kernel, objects, is_close_, user_id_, user_count,
                   online_connections_, tasks, obj, last, quiet>>

Close(t) == DelFd(t) \/ CheckClose(t) \/ Mark(t) \/ Unregister(t) \/ CloseFd(t) \/ LogQuit(t)

\* Any of these through a pointer to an object that AddClient_ has destroyed.
UseDestroyed(t) ==
    /\ pc[t] \notin {"idle", "undefined"}
    /\ obj[t] \in destroyed
    /\ Goto(t, "undefined")
    /\ UNCHANGED <<kernel, objects, is_close_, user_id_, user_count,
                   online_connections_, tasks, obj, last, quiet>>

----------------------------------------------------------------------------
TakeTask(w) ==
    /\ pc[w] = "idle"
    /\ tasks # <<>>
    /\ obj' = [obj EXCEPT ![w] = Head(tasks)]
    /\ tasks' = Tail(tasks)
    /\ Goto(w, "read")
    /\ UNCHANGED <<kernel, objects, is_close_, user_id_, user_count,
                   online_connections_, last, quiet>>

\* OnRead_: end of file or an error leads to CloseConn_, otherwise OnProcess_.
Read(w) ==
    LET o == obj[w]
        fails == sock[fd_[o]] # o \/ o \in hup
    IN  /\ pc[w] = "read"
        /\ o \notin destroyed
        /\ data' = data \ {o}
        /\ Goto(w, IF fails THEN "del_fd" ELSE "process")
        /\ UNCHANGED <<sock, armed, hup, objects, is_close_, user_id_, user_count,
                       online_connections_, tasks, obj, last, quiet>>

\* The request is a login (set_user_id begins) or anything else.
ProcessRequest(w) ==
    /\ pc[w] = "process"
    /\ obj[w] \notin destroyed
    /\ \/ /\ user_id_' = [user_id_ EXCEPT ![obj[w]] = LoginAs[obj[w]]]
          /\ Goto(w, "register")
       \/ /\ UNCHANGED user_id_
          /\ Goto(w, "rearm")
    /\ UNCHANGED <<kernel, objects, is_close_, user_count, online_connections_,
                   tasks, obj, last, quiet>>

\* set_user_id ends with PushService::add_client.
Register(w) ==
    /\ pc[w] = "register"
    /\ obj[w] \notin destroyed
    /\ online_connections_' = [online_connections_ EXCEPT ![user_id_[obj[w]]] = obj[w]]
    /\ last' = [last EXCEPT ![user_id_[obj[w]]] = obj[w]]
    /\ Goto(w, "rearm")
    /\ UNCHANGED <<kernel, objects, is_close_, user_id_, user_count, tasks, obj, quiet>>

\* A plausible bug: a request that needs no answer does not re-arm the socket.
RearmForgotten(w) ==
    /\ pc[w] = "rearm"
    /\ obj[w] \notin destroyed
    /\ Goto(w, "idle")
    /\ UNCHANGED <<kernel, objects, is_close_, user_id_, user_count,
                   online_connections_, tasks, obj, last, quiet>>

\* The modFd that ends OnProcess_ and OnWrite_.
Rearm(w) ==
    /\ pc[w] = "rearm"
    /\ obj[w] \notin destroyed
    /\ armed' = Arm(fd_[obj[w]])
    /\ Goto(w, "idle")
    /\ UNCHANGED <<sock, data, hup, objects, is_close_, user_id_, user_count,
                   online_connections_, tasks, obj, last, quiet>>

\* send_envelope and push_to_user copy the pointer under mtx_ ...
LookUp(p, u) ==
    /\ pc[p] = "idle"
    /\ online_connections_[u] # None
    /\ obj' = [obj EXCEPT ![p] = online_connections_[u]]
    /\ Goto(p, "push")
    /\ UNCHANGED <<kernel, objects, is_close_, user_id_, user_count,
                   online_connections_, tasks, last, quiet>>

\* ... and use it after the unlock; notify_writable may call modFd.
EnqueueMessage(p) ==
    /\ pc[p] = "push"
    /\ obj[p] \notin destroyed
    /\ armed' \in {armed, Arm(fd_[obj[p]])}
    /\ Goto(p, "idle")
    /\ quiet' = FALSE
    /\ UNCHANGED <<sock, data, hup, objects, is_close_, user_id_, user_count,
                   online_connections_, tasks, obj, last>>

\* The clients.
Send(o) ==
    /\ \E f \in Fds : sock[f] = o
    /\ o \notin data \cup hup
    /\ data' = data \cup {o}
    /\ UNCHANGED <<sock, armed, hup, objects, is_close_, user_id_, user_count,
                   online_connections_, tasks, pc, obj, last, quiet>>

Disconnect(o) ==
    /\ \E f \in Fds : sock[f] = o
    /\ o \notin hup
    /\ hup' = hup \cup {o}
    /\ UNCHANGED <<sock, armed, data, objects, is_close_, user_id_, user_count,
                   online_connections_, tasks, pc, obj, last, quiet>>

----------------------------------------------------------------------------
Work(w) == Read(w) \/ ProcessRequest(w) \/ Register(w) \/ Rearm(w)

Next ==
    \/ Refuse
    \/ \E o \in Objs : Accept(o) \/ Send(o) \/ Disconnect(o)
    \/ \E f \in Fds : Dispatch(f) \/ Tick(f)
    \/ \E t \in Threads : Close(t) \/ UseDestroyed(t)
    \/ \E w \in Workers : TakeTask(w) \/ Work(w)
    \/ \E p \in Pushers : EnqueueMessage(p) \/ \E u \in Users : LookUp(p, u)

Spec == Init /\ [][Next]_vars

----------------------------------------------------------------------------
\* close_conn runs once per connection, until a timer or a push lets two threads run
\* it: user_count, which admits or refuses clients, is the number of open connections,
\* and the socket that close() closes is the connection's own, not one that was given
\* the number in the meantime.
ClosedOnce ==
    quiet =>
        /\ user_count = Cardinality({ o \in Objs : ~is_close_[o] })
        /\ \A t \in Threads : pc[t] = "close" =>
              obj[t] \notin destroyed /\ sock[fd_[obj[t]]] = obj[t]

\* Under the same condition every TcpConnection* that is kept somewhere points to a live
\* object: in the map that send_envelope and push_to_user look into, in the tasks, and
\* in the hands of the workers and of the event loop, up to the close(fd_) after which
\* the number may be given away (the LOG_INFO that follows still reads the object).
PointersAreLive ==
    quiet =>
        /\ \A u \in Users : online_connections_[u] \notin destroyed
        /\ \A i \in 1..Len(tasks) : tasks[i] \notin destroyed
        /\ \A t \in Workers \cup {Main} :
              pc[t] \notin {"idle", "log", "undefined"} => obj[t] \notin destroyed

\* The open connection a user logged in with is the one pushes go to, for a user
\* that has not logged in on a second connection.
OnlineUserIsReachable ==
    \A u \in Users :
        LET o == last[u] IN
        (o # None /\ ~is_close_[o] /\ \A x \in Objs : user_id_[x] = u => x = o)
            => online_connections_[u] = o

\* Every open socket is the one of a live object in the table under its number, and
\* that object is open or some thread is about to close the socket.  So no
\* descriptor leaks, the event loop never finds a dead object, and the destructor
\* AddClient_ runs never has anything left to close.
NoDescriptorLeak ==
    /\ \A f \in Fds : sock[f] # None => LET o == sock[f] IN
        /\ connections_[f] = o /\ fd_[o] = f /\ o \notin destroyed
        /\ is_close_[o] => \E t \in Threads : obj[t] = o /\ pc[t] \in {"unregister", "close"}
    /\ \A o \in destroyed : is_close_[o]

\* The hang-up of a client does not go unnoticed: every open socket is armed, or a
\* task or a thread that will arm or close it is on its way.
HangupIsNoticed ==
    \A f \in Fds : sock[f] # None =>
        \/ f \in armed
        \/ \E i \in 1..Len(tasks) : tasks[i] = sock[f]
        \/ \E t \in Threads : obj[t] = sock[f] /\ pc[t] \notin {"idle", "push", "undefined"}

=============================================================================
