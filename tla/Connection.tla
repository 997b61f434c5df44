----------------------------- MODULE Connection -----------------------------
(***************************************************************************)
(* One logged-in Protobuf connection of the server: the epoll registration *)
(* of its socket (edge-triggered, one-shot), the event loop that turns     *)
(* events into tasks, the pool workers that run OnRead_ and OnWrite_, and  *)
(* the threads that push messages to it with enqueue_message.  Sources:    *)
(* server/src/core/webserver.cpp, tcp_connection.cpp, epoller.cpp and      *)
(* handler/protobuf_handler.cpp.                                           *)
(*                                                                         *)
(* A worker's step is one critical section of conn_mutex_, one epoll_ctl   *)
(* or one store to events_.  Frames are numbers: request i travels as two  *)
(* segments i, i (it may arrive in two reads) and a heartbeat as one 0.    *)
(* outgoing_queue_ is a FIFO, which module MPSCQueue establishes.          *)
(***************************************************************************)
EXTENDS Naturals, Sequences, FiniteSets, Functions

CONSTANTS
    Workers,      \* threads of the pool
    Pushers,      \* threads that call enqueue_message on this connection
    MaxRequests,  \* how many requests the client sends
    Unparsable,   \* the requests whose payload ParseFromArray rejects
    MaxPushes,    \* how many messages are pushed
    SendBuffer,   \* messages the kernel's send buffer holds
    ClientWaits,  \* the client sends a request when the last one is answered
    Heartbeats    \* the client's HeartbeatLoop runs

ASSUME ConnectionAssumption ==
    /\ MaxRequests \in Nat /\ MaxPushes \in Nat /\ SendBuffer \in Nat \ {0}
    /\ Unparsable \subseteq 1..MaxRequests
    /\ ClientWaits \in BOOLEAN /\ Heartbeats \in BOOLEAN

VARIABLES
    armed,             \* events the one-shot registration waits for; {} once it fired
    events_,           \* TcpConnection::events_, the registration as last recorded
    recv, net,         \* what the socket holds for the server, and for the client
    read_buff_, write_buff_, outgoing_queue_,
    closed,            \* close_conn has run
    tasks,             \* tasks of this connection waiting in the pool
    pc, arm, ret,      \* per worker: where it is, the events it will set, what write returned
    ppc,               \* per pusher: where it is in enqueue_message
    sent, mid,         \* the client's requests, and whether the last one is half sent
    pushed,            \* messages enqueued so far
    received           \* history: responses and pushes the client has received

conn == <<read_buff_, write_buff_, outgoing_queue_, closed>>
client == <<sent, mid, received>>
vars == <<armed, events_, recv, net, conn, tasks, pc, arm, ret, ppc, client, pushed>>

EPOLLIN == {"IN"}
EPOLLOUT == {"OUT"}
Heartbeat == 0
Response(i) == <<"response", i>>
Push(m) == <<"push", m>>

\* After a login whose response has been written: OnWrite_ left EPOLLIN.
Init ==
    /\ armed = EPOLLIN /\ events_ = EPOLLIN
    /\ recv = <<>> /\ net = <<>>
    /\ read_buff_ = <<>> /\ write_buff_ = <<>> /\ outgoing_queue_ = <<>>
    /\ closed = FALSE
    /\ tasks = <<>>
    /\ pc = [w \in Workers |-> "idle"]
    /\ arm = [w \in Workers |-> EPOLLIN]
    /\ ret = [w \in Workers |-> "none"]
    /\ ppc = [p \in Pushers |-> "idle"]
    /\ sent = 0 /\ mid = FALSE /\ pushed = 0 /\ received = <<>>

----------------------------------------------------------------------------
\* What epoll finds for the socket.  A one-shot registration is examined when it
\* is set (EPOLL_CTL_MOD) and whenever the socket changes.
Ready == (IF recv # <<>> THEN EPOLLIN ELSE {})
            \cup (IF Len(net) < SendBuffer THEN EPOLLOUT ELSE {})

\* A plausible bug: a socket that is both readable and writable gets no task.
DispatchDropsBoth ==
    /\ armed \cap Ready # {}
    /\ armed' = {}
    /\ tasks' = CASE armed \cap Ready = EPOLLIN -> Append(tasks, "OnRead")
                  [] armed \cap Ready = EPOLLOUT -> Append(tasks, "OnWrite")
                  [] OTHER -> tasks
    /\ UNCHANGED <<events_, recv, net, conn, pc, arm, ret, ppc, client, pushed>>

\* A plausible bug: EPOLLONESHOT is missing from conn_event_.
DispatchNotOneShot ==
    /\ armed \cap Ready # {}
    /\ Len(tasks) < 2
    /\ tasks' = Append(tasks, IF "IN" \in armed \cap Ready THEN "OnRead" ELSE "OnWrite")
    /\ UNCHANGED <<armed, events_, recv, net, conn, pc, arm, ret, ppc, client, pushed>>

\* The event loop: the one-shot event is consumed and a task is added.
Dispatch ==
    /\ armed \cap Ready # {}
    /\ armed' = {}
    /\ tasks' = Append(tasks, IF "IN" \in armed \cap Ready THEN "OnRead" ELSE "OnWrite")
    /\ UNCHANGED <<events_, recv, net, conn, pc, arm, ret, ppc, client, pushed>>

TakeTask(w) ==
    /\ pc[w] = "idle"
    /\ tasks # <<>>
    /\ tasks' = Tail(tasks)
    /\ pc' = [pc EXCEPT ![w] = IF Head(tasks) = "OnRead" THEN "read" ELSE "write"]
    /\ UNCHANGED <<armed, events_, recv, net, conn, arm, ret, ppc, client, pushed>>

\* OnRead_: read until EAGAIN.  On a closed descriptor the read fails, and the
\* CloseConn_ that follows finds is_close_ set.
Read(w) ==
    /\ pc[w] = "read"
    /\ \/ /\ ~closed
          /\ read_buff_' = read_buff_ \o recv
          /\ recv' = <<>>
          /\ pc' = [pc EXCEPT ![w] = "process"]
       \/ /\ closed
          /\ pc' = [pc EXCEPT ![w] = "idle"]
          /\ UNCHANGED <<recv, read_buff_>>
    /\ UNCHANGED <<armed, events_, net, write_buff_, outgoing_queue_, closed,
                   tasks, arm, ret, ppc, client, pushed>>

FrameLen(buff) == IF Head(buff) = Heartbeat THEN 1 ELSE 2

HasFrame(buff) == buff # <<>> /\ Len(buff) >= FrameLen(buff)

\* A plausible bug: the request is parsed and its bytes stay in the buffer.
ProcessKeepsFrame(w) ==
    /\ pc[w] = "process"
    /\ \/ /\ HasFrame(read_buff_)
          /\ write_buff_' = Append(write_buff_, Response(Head(read_buff_)))
          /\ arm' = [arm EXCEPT ![w] = EPOLLOUT]
       \/ /\ ~HasFrame(read_buff_)
          /\ arm' = [arm EXCEPT ![w] = EPOLLIN]
          /\ UNCHANGED write_buff_
    /\ pc' = [pc EXCEPT ![w] = "mod_fd"]
    /\ UNCHANGED <<armed, events_, recv, net, read_buff_, outgoing_queue_, closed,
                   tasks, ret, ppc, client, pushed>>

\* OnProcess_: decode and answer one frame.  An incomplete frame, and one that
\* does not parse (which is consumed), make process() return false.
Process(w) ==
    /\ pc[w] = "process"
    /\ \/ /\ HasFrame(read_buff_)
          /\ read_buff_' = SubSeq(read_buff_, 1 + FrameLen(read_buff_), Len(read_buff_))
          /\ IF Head(read_buff_) \in Unparsable
             THEN /\ arm' = [arm EXCEPT ![w] = EPOLLIN]
                  /\ UNCHANGED write_buff_
             ELSE /\ arm' = [arm EXCEPT ![w] = EPOLLOUT]
                  /\ write_buff_' = Append(write_buff_, Response(Head(read_buff_)))
       \/ /\ ~HasFrame(read_buff_)
          /\ arm' = [arm EXCEPT ![w] = EPOLLIN]
          /\ UNCHANGED <<read_buff_, write_buff_>>
    /\ pc' = [pc EXCEPT ![w] = "mod_fd"]
    /\ UNCHANGED <<armed, events_, recv, net, outgoing_queue_, closed, tasks,
                   ret, ppc, client, pushed>>

\* Epoller::modFd, which fails on a closed descriptor.
ModFd(events) == armed' = IF closed THEN armed ELSE events

Rearm(w) ==
    /\ pc[w] = "mod_fd"
    /\ ModFd(arm[w])
    /\ pc' = [pc EXCEPT ![w] = "update"]
    /\ UNCHANGED <<events_, recv, net, conn, tasks, arm, ret, ppc, client, pushed>>

UpdateEvents(w) ==
    /\ pc[w] = "update"
    /\ events_' = arm[w]
    /\ pc' = [pc EXCEPT ![w] = "idle"]
    /\ UNCHANGED <<armed, recv, net, conn, tasks, arm, ret, ppc, client, pushed>>

\* OnWrite_: flush_pending_to_buffer, then write until the buffer is empty or the
\* socket is full.  With nothing to write the result is -1 and errno is not set.
Write(w) ==
    LET data == write_buff_ \o outgoing_queue_
        room == SendBuffer - Len(net)
        n == IF closed THEN 0 ELSE IF Len(data) <= room THEN Len(data) ELSE room
    IN  /\ pc[w] = "write"
        /\ outgoing_queue_' = <<>>
        /\ write_buff_' = SubSeq(data, n + 1, Len(data))
        /\ net' = net \o SubSeq(data, 1, n)
        /\ ret' = [ret EXCEPT ![w] = CASE data = <<>> \/ closed -> "failed"
                                       [] data # <<>> /\ ~closed /\ n = Len(data) -> "sent"
                                       [] OTHER -> "again"]
        /\ pc' = [pc EXCEPT ![w] = "written"]
        /\ UNCHANGED <<armed, events_, recv, read_buff_, closed, tasks, arm, ppc,
                       client, pushed>>

\* A plausible bug: a complete write does not go back to reading.
AfterWriteNoRearm(w) ==
    /\ pc[w] = "written"
    /\ pc' = [pc EXCEPT ![w] = "idle"]
    /\ UNCHANGED <<armed, events_, recv, net, conn, tasks, arm, ret, ppc, client, pushed>>

\* The rest of OnWrite_, in its own critical section: to_write_bytes, then back to
\* reading, wait for room, or CloseConn_ (delFd and close_conn).
AfterWrite(w) ==
    /\ pc[w] = "written"
    /\ \/ /\ write_buff_ = <<>>
          /\ arm' = [arm EXCEPT ![w] = EPOLLIN]
          /\ pc' = [pc EXCEPT ![w] = "mod_fd"]
          /\ UNCHANGED <<armed, closed>>
       \/ /\ write_buff_ # <<>> /\ ret[w] = "again"
          /\ arm' = [arm EXCEPT ![w] = EPOLLOUT]
          /\ pc' = [pc EXCEPT ![w] = "mod_fd"]
          /\ UNCHANGED <<armed, closed>>
       \/ /\ write_buff_ # <<>> /\ ret[w] # "again"
          /\ closed' = TRUE
          /\ armed' = {}
          /\ pc' = [pc EXCEPT ![w] = "idle"]
          /\ UNCHANGED arm
    /\ UNCHANGED <<events_, recv, net, read_buff_, write_buff_, outgoing_queue_,
                   tasks, ret, ppc, client, pushed>>

----------------------------------------------------------------------------
\* enqueue_message: queue the message, then notify_writable.
EnqueueMessage(p) ==
    /\ ppc[p] = "idle"
    /\ pushed < MaxPushes
    /\ pushed' = pushed + 1
    /\ outgoing_queue_' = Append(outgoing_queue_, Push(pushed'))
    /\ ppc' = [ppc EXCEPT ![p] = "check"]
    /\ UNCHANGED <<armed, events_, recv, net, read_buff_, write_buff_, closed,
                   tasks, pc, arm, ret, client>>

\* notify_writable returns early when events_ already has both.
NotifyCheck(p) ==
    /\ ppc[p] = "check"
    /\ ppc' = [ppc EXCEPT ![p] = IF events_ = EPOLLIN \cup EPOLLOUT THEN "idle" ELSE "mod_fd"]
    /\ UNCHANGED <<armed, events_, recv, net, conn, tasks, pc, arm, ret, client, pushed>>

NotifyModFd(p) ==
    /\ ppc[p] = "mod_fd"
    /\ ModFd(EPOLLIN \cup EPOLLOUT)
    /\ ppc' = [ppc EXCEPT ![p] = IF closed THEN "idle" ELSE "update"]
    /\ UNCHANGED <<events_, recv, net, conn, tasks, pc, arm, ret, client, pushed>>

NotifyUpdate(p) ==
    /\ ppc[p] = "update"
    /\ events_' = EPOLLIN \cup EPOLLOUT
    /\ ppc' = [ppc EXCEPT ![p] = "idle"]
    /\ UNCHANGED <<armed, recv, net, conn, tasks, pc, arm, ret, client, pushed>>

----------------------------------------------------------------------------
\* The client (external here; module NetworkManager models it).
Answered(i) == Response(i) \in Range(received)

\* The server has nothing to do for this connection.
Idle ==
    /\ armed \cap Ready = {} /\ tasks = <<>> /\ net = <<>> /\ recv = <<>>
    /\ \A w \in Workers : pc[w] = "idle"
    /\ \A p \in Pushers : ppc[p] = "idle"

\* The next request: at any time, or (ClientWaits) after the answer to the last
\* one, or after its 5 second timeout, when the server has long been idle.
SendRequest ==
    /\ ~mid
    /\ sent < MaxRequests
    /\ ClientWaits /\ sent > 0 => Answered(sent) \/ Idle
    /\ sent' = sent + 1
    /\ recv' = Append(recv, sent')
    /\ mid' = TRUE
    /\ UNCHANGED <<armed, events_, net, conn, tasks, pc, arm, ret, ppc, received, pushed>>

SendRest ==
    /\ mid
    /\ recv' = Append(recv, sent)
    /\ mid' = FALSE
    /\ UNCHANGED <<armed, events_, net, conn, tasks, pc, arm, ret, ppc, sent, received,
                   pushed>>

Receive ==
    /\ net # <<>>
    /\ net' = Tail(net)
    /\ received' = IF Head(net) = Response(Heartbeat) THEN received
                   ELSE Append(received, Head(net))
    /\ UNCHANGED <<armed, events_, recv, conn, tasks, pc, arm, ret, ppc, sent, mid, pushed>>

\* A heartbeat every 15 seconds: the server has long been idle when it comes.
SendHeartbeat ==
    /\ Heartbeats
    /\ Idle
    /\ ~mid
    /\ ~closed
    /\ recv' = Append(recv, Heartbeat)
    /\ UNCHANGED <<armed, events_, net, conn, tasks, pc, arm, ret, ppc, client, pushed>>

----------------------------------------------------------------------------
Work(w) == Read(w) \/ Process(w) \/ Rearm(w) \/ UpdateEvents(w) \/ Write(w) \/ AfterWrite(w)

Notify(p) == NotifyCheck(p) \/ NotifyModFd(p) \/ NotifyUpdate(p)

Next ==
    \/ Dispatch
    \/ \E w \in Workers : TakeTask(w) \/ Work(w)
    \/ \E p \in Pushers : EnqueueMessage(p) \/ Notify(p)
    \/ SendRequest \/ SendRest \/ Receive \/ SendHeartbeat

Spec == Init /\ [][Next]_vars

\* The event loop and every thread that has begun run on; the client reads, ends
\* the frame it began, and its heartbeat thread keeps running.
Fairness ==
    /\ WF_vars(Dispatch)
    /\ WF_vars(\E w \in Workers : TakeTask(w))
    /\ \A w \in Workers : WF_vars(Work(w))
    /\ \A p \in Pushers : WF_vars(Notify(p))
    /\ WF_vars(Receive) /\ WF_vars(SendRest) /\ WF_vars(SendHeartbeat)

FairSpec == Spec /\ Fairness

----------------------------------------------------------------------------
Items == {"response", "push"} \X Nat

\* The registration, the buffers and the threads' locals have their types.
TypeOK ==
    /\ armed \subseteq {"IN", "OUT"} /\ events_ \subseteq {"IN", "OUT"}
    /\ recv \in Seq(0..MaxRequests) /\ read_buff_ \in Seq(0..MaxRequests)
    /\ net \in Seq(Items) /\ Len(net) <= SendBuffer
    /\ write_buff_ \in Seq(Items) /\ outgoing_queue_ \in Seq(Items)
    /\ received \in Seq(Items)
    /\ closed \in BOOLEAN /\ mid \in BOOLEAN
    /\ tasks \in Seq({"OnRead", "OnWrite"})
    /\ pc \in [Workers -> {"idle", "read", "process", "write", "written", "mod_fd", "update"}]
    /\ arm \in [Workers -> {EPOLLIN, EPOLLOUT}]
    /\ ret \in [Workers -> {"none", "sent", "again", "failed"}]
    /\ ppc \in [Pushers -> {"idle", "check", "mod_fd", "update"}]
    /\ sent \in 0..MaxRequests /\ pushed \in 0..MaxPushes

WillRearm(w) == pc[w] \in {"read", "process", "write", "written", "mod_fd"}

\* An open connection never goes deaf: when its one-shot registration has fired, a
\* task or a worker exists that will set it again (or close the connection).
NeverDeaf ==
    ~closed /\ armed = {} => tasks # <<>> \/ \E w \in Workers : WillRearm(w)

\* One-shot registration gives the connection to one worker at a time: while a
\* worker is between its event and its modFd, no other has a task of it, until the
\* first notify_writable of a push sets the registration from outside.
OneWorkerPerConnection ==
    pushed = 0 =>
        /\ \A v, w \in Workers : WillRearm(v) /\ WillRearm(w) => v = w
        /\ \A w \in Workers : WillRearm(w) => armed = {} /\ tasks = <<>>

\* x may go out before y: the numbers of the pushes, and of the responses but for
\* those to heartbeats, go up.
Precedes(x, y) == x[1] = y[1] /\ y # Response(Heartbeat) => x[2] < y[2]

InOrder(items) == \A i, j \in DOMAIN items : i < j => Precedes(items[i], items[j])

\* Nothing is lost, duplicated or reordered between enqueue_message or read and the
\* client: the pushes that are on their way out or have arrived are all the pushes, and
\* the responses are those of a prefix of the requests, each of them once and in order.
Conserved ==
    LET all == received \o net \o write_buff_ \o outgoing_queue_
        answered == { i \in 1..MaxRequests : Response(i) \in Range(all) }
    IN  /\ InOrder(all)
        /\ { m \in 1..MaxPushes : Push(m) \in Range(all) } = 1..pushed
        /\ answered \subseteq (1..sent) \ Unparsable
        /\ \A n \in answered : (1..n) \ Unparsable \subseteq answered

\* OnWrite_ leaves a persistent connection open ("modify the event to EPOLLIN") as
\* long as its client stays and no write to it fails.
PersistentIsKept == ~closed

\* The same for a connection to which nothing has been pushed yet.
UnpushedIsKept == pushed = 0 => ~closed

\* Every request that parses is answered (unless the connection is closed).
RequestsAnswered ==
    \A i \in (1..MaxRequests) \ Unparsable : sent >= i ~> Answered(i) \/ closed

\* Every pushed message reaches its client (unless the connection is closed).
PushesDelivered ==
    \A m \in 1..MaxPushes : pushed >= m ~> Push(m) \in Range(received) \/ closed
=============================================================================
