----------------------------- MODULE Messaging -----------------------------
(***************************************************************************)
(* The life of a private message: MsgService acknowledges it and pushes it *)
(* to a receiver who is online, AsyncMsgWriter stores it from a thread of  *)
(* its own in ScyllaDB, and a client that logs in replaces its history by  *)
(* what the database holds (SyncMessages).                                 *)
(*                                                                         *)
(* The writer's queue is the FIFO that MPSCQueue implements.  Pushes wait  *)
(* in outgoing_queue_ until the connection is flushed, behind responses    *)
(* already written (Connection).  A login is one step: its handler         *)
(* registers the user in PushService, and its response changes no message. *)
(* The connection of a client that logs out is closed in the same step;    *)
(* Webserver has the interleavings of closing.                             *)
(***************************************************************************)
EXTENDS Integers, Sequences, FiniteSets, Functions

CONSTANTS
    Users,          \* registered users
    NoUser,         \* receiver_id 0
    kBatchSize,
    SyncLimit,      \* LIMIT 500 of GetMessagesForUser
    MaxFailures,    \* database requests that fail
    MaxMsgs,        \* messages sent
    MaxTime,        \* the clock, in seconds, stops here
    MaxLogins       \* logins in all

kMaxRetries == 3

ASSUME MessagingAssumption ==
    /\ NoUser \notin Users
    /\ {kBatchSize, SyncLimit} \subseteq Nat \ {0}
    /\ {MaxFailures, MaxMsgs, MaxTime, MaxLogins} \subseteq Nat

VARIABLES
    main,       \* the main thread, from the constructor of Webserver to exit()
    mtx,        \* whether the main thread holds ScyllaSession's mtx_
    session,    \* whether session_ is a connected session
    running_,   \* AsyncMsgWriter
    queue,      \* queue_
    writer,     \* where WorkerLoop is
    batch,      \* batch_buffer
    retry,      \* retry_count
    rows,       \* the rows of im.messages and im.user_messages
    client,     \* what each client is doing
    draft,      \* the message of the client's current request
    pending,    \* pushes in outgoing_queue_ of the user's connection
    wire,       \* what the server has sent and the client has not read
    history,    \* p2p_chat_history_ of each client
    now, failures, logins, msgs,
    acked,      \* messages acknowledged with success
    dropped,    \* messages the writer gave up
    before      \* what was stored when the user logged in last

server == <<main, mtx, session, running_>>
store == <<queue, writer, batch, retry, rows, dropped, failures>>
clients == <<client, draft, history>>
net == <<pending, wire>>
msg_vars == <<server, store, clients, net, now, logins, msgs, acked, before>>

\* A message: n tells it from the others; the database never sees n.
Message == [n : 1 .. MaxMsgs, from : Users, to : Users \cup {NoUser},
            ts : 0 .. MaxTime, id : 0 .. MaxMsgs]

MsgInit ==
    /\ main = "init" /\ mtx = FALSE /\ session = FALSE
    /\ running_ = TRUE /\ queue = <<>> /\ writer = "loop" /\ batch = <<>> /\ retry = 0
    /\ rows = {} /\ dropped = {} /\ failures = 0
    /\ client = [u \in Users |-> "out"]
    /\ draft = [u \in Users |-> <<>>]
    /\ history = [u \in Users |-> <<>>]
    /\ pending = [u \in Users |-> <<>>]
    /\ wire = [u \in Users |-> <<>>]
    /\ now = 0 /\ logins = 0 /\ msgs = 0 /\ acked = {}
    /\ before = [u \in Users |-> {}]

online == {u \in Users : client[u] # "out"}
----------------------------------------------------------------------------
(* The database.  A row's key is its partition, its timestamp and its      *)
(* message id: a row with the key of another one replaces it.              *)

RowsOf(m) ==
    {[part |-> <<"conversation", {m.from, m.to}>>, msg |-> m],
     [part |-> <<"user", m.to>>, msg |-> m],
     [part |-> <<"user", m.from>>, msg |-> m]}

SameKey(r, s) == r.part = s.part /\ r.msg.ts = s.msg.ts /\ r.msg.id = s.msg.id

\* A plausible bug: the sender's inbox is forgotten.
InsertNotSender(table, m) ==
    LET new == {r \in RowsOf(m) : r.part # <<"user", m.from>>} IN
    {r \in table : \A s \in new : ~SameKey(r, s)} \cup new

Insert(table, m) ==
    {r \in table : \A s \in RowsOf(m) : ~SameKey(r, s)} \cup RowsOf(m)

\* The logged batch: all of its statements or none.
InsertAll(table, b) ==
    LET after[k \in 0 .. Len(b)] == IF k = 0 THEN table ELSE Insert(after[k - 1], b[k])
    IN  after[Len(b)]

Inbox(u) == {r.msg : r \in {s \in rows : s.part = <<"user", u>>}}

\* A plausible bug: the order of the query is the wrong way round.
OldestFirst(a, b) == a.ts < b.ts \/ (a.ts = b.ts /\ a.id < b.id)

\* The clustering order of im.user_messages.
Newer(a, b) == a.ts > b.ts \/ (a.ts = b.ts /\ a.id < b.id)

\* What the query may return: the first SyncLimit rows in that order, or all of them.
GetMessagesForUser(u) ==
    IF ~session THEN {<<>>} ELSE
    {s \in UNION {[1 .. k -> Inbox(u)] : k \in 0 .. SyncLimit} :
        /\ \A i, j \in DOMAIN s : i < j => Newer(s[i], s[j])
        /\ \A m \in Inbox(u) \ Range(s) : \A i \in DOMAIN s : Newer(s[i], m)
        /\ Len(s) < SyncLimit => Range(s) = Inbox(u)}

stored == {r.msg : r \in rows}

----------------------------------------------------------------------------
(* The main thread: ScyllaSession::Init in Webserver's constructor, Close  *)
(* in its destructor, and the destructor of the static AsyncMsgWriter.     *)

\* Init holds mtx_ from here on.
InitLock ==
    /\ main = "init" /\ ~mtx
    /\ mtx' = TRUE /\ main' = "connecting"
    /\ UNCHANGED <<session, running_, store, clients, net, now, logins, msgs, acked, before>>

InitConnected ==
    /\ main = "connecting"
    /\ session' = TRUE /\ mtx' = FALSE /\ main' = "serving"
    /\ UNCHANGED <<running_, store, clients, net, now, logins, msgs, acked, before>>

\* The connection fails: Init calls Close and still holds mtx_.
InitFailed ==
    /\ main = "connecting"
    /\ main' = "failed"
    /\ UNCHANGED <<mtx, session, running_, store, clients, net, now, logins, msgs, acked, before>>

\* Close, from Init that failed or from ~Webserver, locks mtx_.  In ~Webserver the
\* event loop has ended: no handler runs any more.
Close ==
    /\ main \in {"failed", "serving"}
    /\ ~mtx
    /\ main' = IF main = "failed" THEN "serving" ELSE "closed"
    /\ session' = FALSE
    /\ UNCHANGED <<mtx, running_, store, clients, net, now, logins, msgs, acked, before>>

Stop ==
    /\ main = "closed"
    /\ running_' = FALSE /\ main' = "stopping"
    /\ UNCHANGED <<mtx, session, store, clients, net, now, logins, msgs, acked, before>>

Join ==
    /\ main = "stopping" /\ writer = "done"
    /\ main' = "exit"
    /\ UNCHANGED <<mtx, session, running_, store, clients, net, now, logins, msgs, acked, before>>

----------------------------------------------------------------------------
(* AsyncMsgWriter::WorkerLoop.                                             *)

\* A plausible bug: the message that finds the batch full is taken and lost.
DequeueBulkOneMore ==
    LET k == IF Len(queue) < kBatchSize THEN Len(queue) ELSE kBatchSize IN
    /\ queue # <<>>
    /\ batch' = SubSeq(queue, 1, k)
    /\ queue' = SubSeq(queue, k + 2, Len(queue))
    /\ retry' = 0

\* dequeue_bulk, of a queue that is not empty.
DequeueBulk ==
    LET k == IF Len(queue) < kBatchSize THEN Len(queue) ELSE kBatchSize IN
    /\ queue # <<>>
    /\ batch' = SubSeq(queue, 1, k)
    /\ queue' = SubSeq(queue, k + 1, Len(queue))
    /\ retry' = 0

\* InsertBatch returns ok.  A request that times out may have been applied.
InsertBatch(ok) ==
    \/ /\ ok /\ session
       /\ rows' = InsertAll(rows, batch) /\ UNCHANGED failures
    \/ /\ ~ok /\ ~session
       /\ UNCHANGED <<rows, failures>>
    \/ /\ ~ok /\ session /\ failures < MaxFailures
       /\ failures' = failures + 1
       /\ rows' \in {rows, InsertAll(rows, batch)}

WriterTake ==
    /\ writer = "loop" /\ running_
    /\ DequeueBulk
    /\ writer' = "insert"
    /\ UNCHANGED <<server, rows, dropped, failures, clients, net, now, logins, msgs, acked, before>>

WriterInsert ==
    /\ writer = "insert"
    /\ InsertBatch(TRUE)
    /\ batch' = <<>> /\ writer' = "loop"
    /\ UNCHANGED <<server, queue, retry, dropped, clients, net, now, logins, msgs, acked, before>>

\* The batch is tried again, and given up after kMaxRetries retries.
WriterFails ==
    /\ writer = "insert"
    /\ InsertBatch(FALSE)
    /\ retry' = retry + 1
    /\ IF retry' > kMaxRetries
       THEN batch' = <<>> /\ writer' = "loop" /\ dropped' = dropped \cup Range(batch)
       ELSE UNCHANGED <<batch, writer, dropped>>
    /\ UNCHANGED <<server, queue, clients, net, now, logins, msgs, acked, before>>

WriterLeaves ==
    /\ writer = "loop" /\ ~running_
    /\ writer' = "drain"
    /\ UNCHANGED <<server, queue, batch, retry, rows, dropped, failures, clients, net, now, logins, msgs, acked, before>>

DrainTake ==
    /\ writer = "drain"
    /\ DequeueBulk
    /\ writer' = "drain_insert"
    /\ UNCHANGED <<server, rows, dropped, failures, clients, net, now, logins, msgs, acked, before>>

\* One attempt, and the batch is cleared whatever comes of it.
DrainInsert ==
    /\ writer = "drain_insert"
    /\ \E ok \in BOOLEAN :
          /\ InsertBatch(ok)
          /\ dropped' = IF ok THEN dropped ELSE dropped \cup Range(batch)
    /\ batch' = <<>> /\ writer' = "drain"
    /\ UNCHANGED <<server, queue, retry, clients, net, now, logins, msgs, acked, before>>

DrainDone ==
    /\ writer = "drain" /\ queue = <<>>
    /\ writer' = "done"
    /\ UNCHANGED <<server, queue, batch, retry, rows, dropped, failures, clients, net, now, logins, msgs, acked, before>>

----------------------------------------------------------------------------
(* Clients and the handlers of their requests.  A client has one request   *)
(* at a time (SendRequestAndWait); NetworkManager has its timeouts.        *)

\* Login succeeds, and the client asks for its messages.
Login(u) ==
    /\ main = "serving" /\ client[u] = "out" /\ logins < MaxLogins
    /\ client' = [client EXCEPT ![u] = "sync"]
    /\ before' = [before EXCEPT ![u] = Inbox(u)]
    /\ logins' = logins + 1
    /\ UNCHANGED <<server, store, draft, history, net, now, msgs, acked>>

\* sync_messages: the rows are read here and arrive later.
SyncMessages(u) ==
    /\ main = "serving" /\ client[u] = "sync"
    /\ client' = [client EXCEPT ![u] = "syncing"]
    /\ \E messages \in GetMessagesForUser(u) :
          wire' = [wire EXCEPT ![u] = Append(@, [kind |-> "sync", body |-> messages])]
    /\ UNCHANGED <<server, store, draft, history, pending, now, logins, msgs, acked, before>>

\* SendP2PMessage of the client, to a friend or before a friend is chosen.  The TUI
\* leaves the message id 0; the clients of the tests number their messages.
Compose(u, to) ==
    /\ client[u] = "in" /\ msgs < MaxMsgs
    /\ msgs' = msgs + 1
    /\ \E id \in {0, msgs'} :
          draft' = [draft EXCEPT ![u] =
                       <<[n |-> msgs', from |-> u, to |-> to, ts |-> now, id |-> id]>>]
    /\ client' = [client EXCEPT ![u] = "sending"]
    /\ UNCHANGED <<server, store, history, net, now, logins, acked, before>>

\* send_p2p_message refuses a message without receiver.
Refuse(u) ==
    /\ main = "serving" /\ client[u] = "sending" /\ draft[u][1].to = NoUser
    /\ client' = [client EXCEPT ![u] = "sent"]
    /\ wire' = [wire EXCEPT ![u] = Append(@, [kind |-> "refused", body |-> draft[u]])]
    /\ UNCHANGED <<server, store, draft, history, pending, now, logins, msgs, acked, before>>

\* send_p2p_message, up to Enqueue.
SendEnqueue(u) ==
    /\ main = "serving" /\ client[u] = "sending" /\ draft[u][1].to # NoUser
    /\ queue' = queue \o draft[u]
    /\ client' = [client EXCEPT ![u] = "enqueued"]
    /\ UNCHANGED <<server, writer, batch, retry, rows, dropped, failures, draft, history,
                   net, now, logins, msgs, acked, before>>

\* push_p2p_message to a receiver that is online, and the acknowledgement.
SendPush(u) ==
    LET to == draft[u][1].to IN
    /\ main = "serving" /\ client[u] = "enqueued"
    /\ client' = [client EXCEPT ![u] = "sent"]
    /\ pending' = [pending EXCEPT ![to] =
                      IF to \in online THEN Append(@, [kind |-> "push", body |-> draft[u]])
                      ELSE @]
    /\ wire' = [wire EXCEPT ![u] = Append(@, [kind |-> "ack", body |-> draft[u]])]
    /\ acked' = acked \cup Range(draft[u])
    /\ UNCHANGED <<server, store, draft, history, now, logins, msgs, before>>

\* flush_pending_to_buffer, and the write.
Flush(u) ==
    /\ pending[u] # <<>>
    /\ wire' = [wire EXCEPT ![u] = @ \o pending[u]]
    /\ pending' = [pending EXCEPT ![u] = <<>>]
    /\ UNCHANGED <<server, store, clients, now, logins, msgs, acked, before>>

\* The query has the newest message first, the history the oldest.
Reverse(s) == [i \in 1 .. Len(s) |-> s[(Len(s) - i) + 1]]

\* The listener thread and the waiting request: a push is added to the history, an
\* acknowledgement adds the client's own message, a sync replaces the history.
Receive(u) ==
    LET e == Head(wire[u]) IN
    /\ wire[u] # <<>>
    /\ wire' = [wire EXCEPT ![u] = Tail(@)]
    /\ history' = [history EXCEPT ![u] =
                      CASE e.kind \in {"push", "ack"} -> @ \o e.body
                        [] e.kind = "sync"            -> Reverse(e.body)
                        [] e.kind = "refused"         -> @]
    /\ client' = [client EXCEPT ![u] = IF e.kind = "push" THEN @ ELSE "in"]
    /\ draft' = [draft EXCEPT ![u] = IF e.kind = "push" THEN @ ELSE <<>>]
    /\ UNCHANGED <<server, store, pending, now, logins, msgs, acked, before>>

\* ClearAuth and Disconnect.
Logout(u) ==
    /\ client[u] = "in"
    /\ client' = [client EXCEPT ![u] = "out"]
    /\ history' = [history EXCEPT ![u] = <<>>]
    /\ wire' = [wire EXCEPT ![u] = <<>>]
    /\ pending' = [pending EXCEPT ![u] = <<>>]
    /\ UNCHANGED <<server, store, draft, now, logins, msgs, acked, before>>

TimePasses ==
    /\ now < MaxTime
    /\ now' = now + 1
    /\ UNCHANGED <<server, store, clients, net, logins, msgs, acked, before>>

Main == InitLock \/ InitConnected \/ InitFailed \/ Close \/ Stop \/ Join

Writer == WriterTake \/ WriterInsert \/ WriterFails \/ WriterLeaves
             \/ DrainTake \/ DrainInsert \/ DrainDone

Handler(u) == SyncMessages(u) \/ Refuse(u) \/ SendEnqueue(u) \/ SendPush(u) \/ Flush(u)

MsgNext ==
    \/ Main \/ Writer \/ TimePasses
    \/ \E u \in Users :
          \/ Handler(u) \/ Receive(u) \/ Login(u) \/ Logout(u)
          \/ \E to \in (Users \ {u}) \cup {NoUser} : Compose(u, to)

MsgSpec == MsgInit /\ [][MsgNext]_msg_vars

----------------------------------------------------------------------------
(* Properties.                                                             *)

\* An acknowledged message is not lost: it waits for the writer or is stored, until
\* the database fails more often than WorkerLoop retries or the server stops
\* (send_p2p_message acknowledges before WorkerLoop stores), or until a message of the
\* same second between the same users replaces it, both without an id.
AckedIsAccountedFor ==
    \A m \in acked :
        \/ m \in Range(queue) \cup Range(batch) \cup stored
        \/ m \in dropped /\ (failures > kMaxRetries \/ main # "serving")
        \/ m.id = 0 /\ \E k \in stored :
              k.id = 0 /\ k.ts = m.ts /\ {k.from, k.to} = {m.from, m.to}

\* A message is in both inboxes and in the conversation, or in none of them
\* (InsertBatch writes one logged batch, and retries are of whole batches).  One
\* without an id may have been replaced in some, never removed.
StoredEverywhere ==
    \A m \in stored : \A r \in RowsOf(m) :
        r \in rows \/ (m.id = 0 /\ \E s \in rows : SameKey(r, s))

\* m is in the messages, another one of the same second stands for it, both without
\* an id, or SyncLimit messages that are at least as new are there.
Shown(messages, m) ==
    \/ m \in messages
    \/ m.id = 0 /\ \E k \in messages : k.id = 0 /\ k.ts = m.ts
    \/ Cardinality({k \in messages : k.ts >= m.ts}) >= SyncLimit

\* After the sync of its login a client shows what was stored for it before the
\* login (README.md: messages sent to offline users are stored and arrive upon
\* reconnection).
SyncShowsStored ==
    \A u \in Users : client[u] \in {"in", "sending", "enqueued", "sent"} =>
        \A m \in before[u] : Shown(Range(history[u]), m)
============================================================================
