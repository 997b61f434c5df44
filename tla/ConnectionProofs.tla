-------------------------- MODULE ConnectionProofs --------------------------
(***************************************************************************)
(* Proofs about Connection, for any number of workers, pushers, requests   *)
(* and pushes: the registration never goes deaf, one worker at a time      *)
(* until a push, and nothing of what the server sends is lost.             *)
(***************************************************************************)
EXTENDS Connection, SequenceTheorems, TLAPS

\* A leaf is tried with Zenon first: most need no arithmetic.
USE ZenonT(5), SMTT(30)

LEMMA SeqTypes ==
    ASSUME NEW S, NEW s \in Seq(S)
    PROVE  /\ \A t \in Seq(S) : s \o t \in Seq(S)
           /\ \A e \in S : Append(s, e) \in Seq(S)
           /\ \A m \in 1..(Len(s) + 1) : SubSeq(s, m, Len(s)) \in Seq(S)
           /\ <<>> \in Seq(S)
<1>1. ASSUME NEW m \in 1..(Len(s) + 1) PROVE SubSeq(s, m, Len(s)) \in Seq(S)
  <2>1. \A i \in m..Len(s) : s[i] \in S
    OBVIOUS
  <2> QED BY <2>1, SubSeqProperties
<1> QED BY <1>1

LEMMA EventMasks ==
    /\ EPOLLIN \subseteq {"IN", "OUT"} /\ EPOLLOUT \subseteq {"IN", "OUT"}
    /\ EPOLLIN # {} /\ EPOLLOUT # {}
BY DEF EPOLLIN, EPOLLOUT

LEMMA InitTypeOK == Init => TypeOK
<1> SUFFICES ASSUME Init PROVE TypeOK
  OBVIOUS
<1> USE ConnectionAssumption, EventMasks DEF Init
<1>1. /\ recv \in Seq(0..MaxRequests) /\ read_buff_ \in Seq(0..MaxRequests)
      /\ net \in Seq(Items) /\ Len(net) <= SendBuffer
      /\ write_buff_ \in Seq(Items) /\ outgoing_queue_ \in Seq(Items)
      /\ received \in Seq(Items) /\ tasks \in Seq({"OnRead", "OnWrite"})
  OBVIOUS
<1>2. /\ pc \in [Workers -> {"idle", "read", "process", "write", "written", "mod_fd", "update"}]
      /\ arm \in [Workers -> {EPOLLIN, EPOLLOUT}]
      /\ ret \in [Workers -> {"none", "sent", "again", "failed"}]
      /\ ppc \in [Pushers -> {"idle", "check", "mod_fd", "update"}]
  OBVIOUS
<1>3. sent \in 0..MaxRequests /\ pushed \in 0..MaxPushes
  OBVIOUS
<1> QED BY <1>1, <1>2, <1>3 DEF TypeOK

LEMMA NextTypeOK == TypeOK /\ [Next]_vars => TypeOK'
<1> SUFFICES ASSUME TypeOK, [Next]_vars PROVE TypeOK'
  OBVIOUS
<1> USE ConnectionAssumption, EventMasks DEF TypeOK
<1>1. CASE Dispatch
  BY <1>1 DEF Dispatch, conn, client
<1>2. ASSUME NEW w \in Workers, TakeTask(w) PROVE TypeOK'
  BY <1>2 DEF TakeTask, conn, client
<1>3. ASSUME NEW w \in Workers, Read(w) PROVE TypeOK'
  <2>1. read_buff_' \in Seq(0..MaxRequests) /\ recv' \in Seq(0..MaxRequests)
    <3>1. \/ read_buff_' = read_buff_ \o recv /\ recv' = <<>>
          \/ read_buff_' = read_buff_ /\ recv' = recv
      BY <1>3 DEF Read
    <3>2. read_buff_ \in Seq(0..MaxRequests) /\ recv \in Seq(0..MaxRequests)
      OBVIOUS
    <3> HIDE DEF TypeOK
    <3> QED BY <3>1, <3>2, SeqTypes
  <2>2. pc' \in [Workers -> {"idle", "read", "process", "write", "written", "mod_fd", "update"}]
    BY <1>3 DEF Read
  <2> QED BY <1>3, <2>1, <2>2 DEF Read, client
<1>4. ASSUME NEW w \in Workers, Process(w) PROVE TypeOK'
  <2>1. HasFrame(read_buff_) =>
            /\ Head(read_buff_) \in 0..MaxRequests
            /\ FrameLen(read_buff_) \in 1..Len(read_buff_)
    BY DEF HasFrame, FrameLen
  <2>2. HasFrame(read_buff_) =>
            SubSeq(read_buff_, 1 + FrameLen(read_buff_), Len(read_buff_)) \in Seq(0..MaxRequests)
    <3> HAVE HasFrame(read_buff_)
    <3>1. /\ 1 + FrameLen(read_buff_) \in 1..(Len(read_buff_) + 1)
          /\ read_buff_ \in Seq(0..MaxRequests)
      BY <2>1
    <3> HIDE DEF TypeOK
    <3> QED BY <3>1, SeqTypes
  <2>3. read_buff_' \in Seq(0..MaxRequests)
    BY <1>4, <2>2 DEF Process
  <2>4. HasFrame(read_buff_) => Response(Head(read_buff_)) \in Items
    BY <2>1 DEF Response, Items
  <2>5. write_buff_' \in Seq(Items)
    <3>1. \/ write_buff_' = write_buff_
          \/ /\ HasFrame(read_buff_)
             /\ write_buff_' = Append(write_buff_, Response(Head(read_buff_)))
      BY <1>4 DEF Process
    <3>2. write_buff_ \in Seq(Items)
      OBVIOUS
    <3> HIDE DEF TypeOK
    <3> QED BY <2>4, <3>1, <3>2, SeqTypes
  <2> QED BY <1>4, <2>3, <2>5 DEF Process, client
<1>5. ASSUME NEW w \in Workers, Rearm(w) PROVE TypeOK'
  BY <1>5 DEF Rearm, ModFd, conn, client
<1>6. ASSUME NEW w \in Workers, UpdateEvents(w) PROVE TypeOK'
  BY <1>6 DEF UpdateEvents, conn, client
<1>7. ASSUME NEW w \in Workers, Write(w) PROVE TypeOK'
  <2> DEFINE data == write_buff_ \o outgoing_queue_
             room == SendBuffer - Len(net)
             n == IF closed THEN 0 ELSE IF Len(data) <= room THEN Len(data) ELSE room
  <2>1. data \in Seq(Items) /\ Len(data) \in Nat /\ room \in Nat
    OBVIOUS
  <2>2. n \in Nat /\ n <= Len(data) /\ n <= room
    BY <2>1
  <2> HIDE DEF n, data
  <2>3. /\ SubSeq(data, 1, n) \in Seq(Items) /\ Len(SubSeq(data, 1, n)) = n
        /\ SubSeq(data, n + 1, Len(data)) \in Seq(Items)
    BY <2>1, <2>2, SubSeqProperties
  <2>4. /\ outgoing_queue_' = <<>> /\ write_buff_' = SubSeq(data, n + 1, Len(data))
        /\ net' = net \o SubSeq(data, 1, n)
    BY <1>7 DEF Write, n, data
  <2>5. net' \in Seq(Items) /\ Len(net') <= SendBuffer
    BY <2>2, <2>3, <2>4
  <2>6. ret' \in [Workers -> {"none", "sent", "again", "failed"}]
    BY <1>7 DEF Write
  <2>7. write_buff_' \in Seq(Items) /\ outgoing_queue_' \in Seq(Items)
    BY <2>3, <2>4
  <2>8. pc' \in [Workers -> {"idle", "read", "process", "write", "written", "mod_fd", "update"}]
    BY <1>7 DEF Write
  <2>9. UNCHANGED <<armed, events_, recv, read_buff_, closed, tasks, arm, ppc, client, pushed>>
    BY <1>7 DEF Write
  <2> QED BY <2>5, <2>6, <2>7, <2>8, <2>9 DEF client
<1>8. ASSUME NEW w \in Workers, AfterWrite(w) PROVE TypeOK'
  BY <1>8 DEF AfterWrite, client
<1>9. ASSUME NEW p \in Pushers, EnqueueMessage(p) PROVE TypeOK'
  <2>1. Push(pushed') \in Items
    BY <1>9 DEF EnqueueMessage, Push, Items
  <2> QED BY <1>9, <2>1 DEF EnqueueMessage, client
<1>10. ASSUME NEW p \in Pushers, Notify(p) PROVE TypeOK'
  BY <1>10 DEF Notify, NotifyCheck, NotifyModFd, NotifyUpdate, ModFd, conn, client
<1>11. CASE SendRequest
  BY <1>11 DEF SendRequest, conn
<1>12. CASE SendRest \/ SendHeartbeat
  <2>1. recv' \in Seq(0..MaxRequests)
    <3>1. \E e \in 0..MaxRequests : recv' = Append(recv, e)
      BY <1>12 DEF SendRest, SendHeartbeat, Heartbeat
    <3>2. recv \in Seq(0..MaxRequests)
      OBVIOUS
    <3> HIDE DEF TypeOK
    <3> QED BY <3>1, <3>2, SeqTypes
  <2>2. mid' \in BOOLEAN
    BY <1>12 DEF SendRest, SendHeartbeat, client
  <2> QED BY <1>12, <2>1, <2>2 DEF SendRest, SendHeartbeat, conn, client
<1>13. CASE Receive
  BY <1>13 DEF Receive, conn
<1>14. CASE UNCHANGED vars
  BY <1>14 DEF vars, conn, client
<1> QED
  BY <1>1, <1>2, <1>3, <1>4, <1>5, <1>6, <1>7, <1>8, <1>9, <1>10, <1>11, <1>12,
     <1>13, <1>14 DEF Next, Work

\* The registration, the buffers and the threads' locals keep their types; in
\* particular write() never overruns the socket's send buffer.
THEOREM TypeCorrect == Spec => []TypeOK
BY InitTypeOK, NextTypeOK, PTL DEF Spec

----------------------------------------------------------------------------
LEMMA NextNeverDeaf == TypeOK /\ NeverDeaf /\ [Next]_vars => NeverDeaf'
<1> SUFFICES ASSUME TypeOK, NeverDeaf, [Next]_vars PROVE NeverDeaf'
  OBVIOUS
<1>0. /\ pc \in [Workers -> {"idle", "read", "process", "write", "written", "mod_fd", "update"}]
      /\ arm \in [Workers -> {EPOLLIN, EPOLLOUT}]
      /\ tasks \in Seq({"OnRead", "OnWrite"})
  BY DEF TypeOK
<1>1. CASE Dispatch
  BY <1>0, <1>1 DEF Dispatch, NeverDeaf
<1>2. ASSUME NEW w \in Workers, TakeTask(w) PROVE NeverDeaf'
  <2>1. WillRearm(w)'
    BY <1>0, <1>2 DEF TakeTask, WillRearm
  <2> QED BY <2>1 DEF NeverDeaf
<1>3. ASSUME NEW w \in Workers, Read(w) \/ Process(w) \/ Write(w) \/ AfterWrite(w)
      PROVE  NeverDeaf'
  <2>1. closed' \/ WillRearm(w)'
    BY <1>0, <1>3 DEF Read, Process, Write, AfterWrite, WillRearm
  <2> QED BY <2>1 DEF NeverDeaf
<1>4. ASSUME NEW w \in Workers, Rearm(w) PROVE NeverDeaf'
  <2>1. closed' \/ armed' # {}
    BY <1>0, <1>4, EventMasks DEF Rearm, ModFd, conn
  <2> QED BY <2>1 DEF NeverDeaf
<1>5. ASSUME NEW w \in Workers, UpdateEvents(w) PROVE NeverDeaf'
  <2>1. \A v \in Workers : WillRearm(v) => WillRearm(v)'
    BY <1>0, <1>5 DEF UpdateEvents, WillRearm
  <2> QED BY <1>5, <2>1 DEF NeverDeaf, UpdateEvents, conn
<1>6. ASSUME NEW p \in Pushers, NotifyModFd(p) PROVE NeverDeaf'
  <2>1. closed' \/ armed' # {}
    BY <1>6, EventMasks DEF NotifyModFd, ModFd, conn
  <2> QED BY <2>1 DEF NeverDeaf
<1>7. CASE UNCHANGED <<armed, closed, tasks, pc>>
  BY <1>7 DEF NeverDeaf, WillRearm
<1>8. ASSUME NEW p \in Pushers, EnqueueMessage(p) \/ NotifyCheck(p) \/ NotifyUpdate(p)
      PROVE  UNCHANGED <<armed, closed, tasks, pc>>
  BY <1>8 DEF EnqueueMessage, NotifyCheck, NotifyUpdate, conn
<1>9. ASSUME SendRequest \/ SendRest \/ Receive \/ SendHeartbeat \/ UNCHANGED vars
      PROVE  UNCHANGED <<armed, closed, tasks, pc>>
  BY <1>9 DEF SendRequest, SendRest, Receive, SendHeartbeat, vars, conn
<1> QED
  BY <1>1, <1>2, <1>3, <1>4, <1>5, <1>6, <1>7, <1>8, <1>9 DEF Next, Work, Notify

\* The protocol of one-shot registrations: whatever the interleaving of workers
\* and pushers, an open connection whose event has fired will be armed again.
THEOREM NeverGoesDeaf == Spec => []NeverDeaf
<1>1. Init => NeverDeaf
  BY EventMasks DEF Init, NeverDeaf
<1> QED BY <1>1, TypeCorrect, NextNeverDeaf, PTL DEF Spec

----------------------------------------------------------------------------
\* Without pushes, what EPOLLONESHOT is for: one task or worker at a time has the
\* connection, and what write() could not send is waited for.
Alone ==
    /\ \A v, w \in Workers : WillRearm(v) /\ WillRearm(w) => v = w
    /\ \A w \in Workers : WillRearm(w) => armed = {} /\ tasks = <<>>

Exclusive ==
    /\ Alone
    /\ tasks # <<>> => armed = {} /\ Len(tasks) = 1
    /\ \A w \in Workers : pc[w] = "written" => write_buff_ = <<>> \/ ret[w] = "again"
    /\ ~closed
    /\ \A p \in Pushers : ppc[p] = "idle"

LEMMA PushedGrows == TypeOK /\ [Next]_vars => pushed' >= pushed
<1> SUFFICES ASSUME TypeOK, [Next]_vars PROVE pushed' >= pushed
  OBVIOUS
<1>1. pushed \in Nat
  BY ConnectionAssumption DEF TypeOK
<1>2. ASSUME NEW p \in Pushers, EnqueueMessage(p) PROVE pushed' = pushed + 1
  BY <1>2 DEF EnqueueMessage
<1>3. (\E p \in Pushers : EnqueueMessage(p)) \/ pushed' = pushed
  BY DEF Next, Dispatch, TakeTask, Work, Read, Process, Rearm, UpdateEvents, Write,
         AfterWrite, Notify, NotifyCheck, NotifyModFd, NotifyUpdate, SendRequest, SendRest,
         Receive, SendHeartbeat, vars
<1> QED BY <1>1, <1>2, <1>3

LEMMA NextExclusive ==
    ASSUME TypeOK, Exclusive, pushed' = 0, [Next]_vars
    PROVE  Exclusive'
<1>0. /\ pc \in [Workers -> {"idle", "read", "process", "write", "written", "mod_fd", "update"}]
      /\ ret \in [Workers -> {"none", "sent", "again", "failed"}]
      /\ tasks \in Seq({"OnRead", "OnWrite"})
      /\ write_buff_ \in Seq(Items) /\ outgoing_queue_ \in Seq(Items)
      /\ Len(net) <= SendBuffer /\ net \in Seq(Items)
  BY DEF TypeOK
<1> USE DEF Exclusive, Alone, WillRearm
<1>1. CASE Dispatch
  <2>1. \A w \in Workers : ~WillRearm(w)
    BY <1>1 DEF Dispatch
  <2>2. tasks = <<>> /\ Len(tasks') = 1 /\ armed' = {} /\ pc' = pc
    BY <1>0, <1>1 DEF Dispatch
  <2> QED BY <1>1, <2>1, <2>2 DEF Dispatch, conn
<1>2. ASSUME NEW w \in Workers, TakeTask(w) PROVE Exclusive'
  <2>1. \A v \in Workers : ~WillRearm(v)
    BY <1>2 DEF TakeTask
  <2>2. tasks' = <<>> /\ armed' = {}
    BY <1>0, <1>2 DEF TakeTask
  <2>3. \A v \in Workers : v # w => pc'[v] = pc[v]
    BY <1>0, <1>2 DEF TakeTask
  <2>4. pc'[w] \in {"read", "write"}
    BY <1>0, <1>2 DEF TakeTask
  <2> QED BY <1>2, <2>1, <2>2, <2>3, <2>4 DEF TakeTask, conn
\* The worker that has the connection keeps it.
<1>3. ASSUME NEW w \in Workers, WillRearm(w), UNCHANGED <<armed, tasks>>,
             \A v \in Workers : v # w => pc'[v] = pc[v]
      PROVE  /\ Alone'
             /\ (tasks # <<>> => armed = {} /\ Len(tasks) = 1)'
             /\ \A v \in Workers : pc'[v] = "written" => v = w
  BY <1>3
<1>4. ASSUME NEW w \in Workers, Read(w) \/ Process(w) PROVE Exclusive'
  <2>1. /\ WillRearm(w) /\ UNCHANGED <<armed, tasks, closed, ppc>>
        /\ \A v \in Workers : v # w => pc'[v] = pc[v]
        /\ pc'[w] # "written"
    BY <1>0, <1>4 DEF Read, Process
  <2> QED BY <1>3, <2>1
<1>5. ASSUME NEW w \in Workers, Write(w) PROVE Exclusive'
  <2> DEFINE data == write_buff_ \o outgoing_queue_
  <2>1. /\ WillRearm(w) /\ UNCHANGED <<armed, tasks, closed, ppc>>
        /\ \A v \in Workers : v # w => pc'[v] = pc[v]
    BY <1>0, <1>5 DEF Write
  <2>2. data \in Seq(Items) /\ Len(data) \in Nat
    BY <1>0
  <2>3. SubSeq(data, Len(data) + 1, Len(data)) = <<>>
    BY <2>2, SubSeqEmpty
  <2>4. write_buff_' = <<>> \/ ret'[w] = "again"
    <3>1. CASE Len(data) <= SendBuffer - Len(net)
      BY <1>5, <2>3, <3>1 DEF Write
    <3>2. CASE ~(Len(data) <= SendBuffer - Len(net))
      <4>1. data # <<>>
        BY <1>0, <3>2, ConnectionAssumption
      <4>2. SendBuffer - Len(net) # Len(data)
        BY <1>0, <2>2, <3>2, ConnectionAssumption
      <4> QED BY <1>0, <1>5, <3>2, <4>1, <4>2 DEF Write
    <3> QED BY <3>1, <3>2
  <2>5. \A v \in Workers : pc'[v] = "written" => v = w
    BY <1>3, <2>1
  <2> QED BY <1>3, <2>1, <2>4, <2>5
<1>6. ASSUME NEW w \in Workers, AfterWrite(w) PROVE Exclusive'
  <2>1. /\ WillRearm(w) /\ UNCHANGED <<armed, tasks, closed, write_buff_, ret, ppc>>
        /\ \A v \in Workers : v # w => pc'[v] = pc[v]
        /\ pc'[w] # "written"
    BY <1>0, <1>6 DEF AfterWrite
  <2> QED BY <1>3, <2>1
<1>7. ASSUME NEW w \in Workers, Rearm(w) PROVE Exclusive'
  <2>1. WillRearm(w) /\ tasks = <<>> /\ pc' = [pc EXCEPT ![w] = "update"]
    BY <1>7 DEF Rearm
  <2>2. \A v \in Workers : ~WillRearm(v)'
    BY <1>0, <2>1
  <2> QED BY <1>7, <2>1, <2>2 DEF Rearm, conn
<1>8. ASSUME NEW w \in Workers, UpdateEvents(w) PROVE Exclusive'
  BY <1>0, <1>8 DEF UpdateEvents, conn
<1>9. CASE UNCHANGED <<armed, closed, tasks, pc, write_buff_, ret, ppc>>
  BY <1>9
<1>10. ASSUME SendRequest \/ SendRest \/ Receive \/ SendHeartbeat \/ UNCHANGED vars
       PROVE  UNCHANGED <<armed, closed, tasks, pc, write_buff_, ret, ppc>>
  BY <1>10 DEF SendRequest, SendRest, Receive, SendHeartbeat, vars, conn
<1>11. \A p \in Pushers : ~EnqueueMessage(p) /\ ~Notify(p)
  <2>1. pushed \in Nat
    BY ConnectionAssumption DEF TypeOK
  <2> QED BY <2>1 DEF EnqueueMessage, Notify, NotifyCheck, NotifyModFd, NotifyUpdate
<1> QED
  BY <1>1, <1>2, <1>4, <1>5, <1>6, <1>7, <1>8, <1>9, <1>10, <1>11 DEF Next, Work

LEMMA ExclusiveUntilPush == Spec => [](pushed = 0 => Exclusive)
<1>1. Init => Exclusive
  BY DEF Init, Exclusive, Alone, WillRearm
<1>2. TypeOK /\ (pushed = 0 => Exclusive) /\ [Next]_vars => (pushed = 0 => Exclusive)'
  <2> SUFFICES ASSUME TypeOK, pushed = 0 => Exclusive, [Next]_vars, pushed' = 0
               PROVE  Exclusive'
    OBVIOUS
  <2>1. pushed \in Nat
    BY ConnectionAssumption DEF TypeOK
  <2>2. pushed = 0
    BY <2>1, PushedGrows
  <2> QED BY <2>2, NextExclusive
<1> QED BY TypeCorrect, <1>1, <1>2, PTL DEF Spec

\* Until something is pushed to a connection, two workers never handle it together.
THEOREM OneShotIsExclusive == Spec => []OneWorkerPerConnection
<1>1. (pushed = 0 => Exclusive) => OneWorkerPerConnection
  BY DEF Exclusive, Alone, OneWorkerPerConnection
<1> QED BY ExclusiveUntilPush, <1>1, PTL

\* Until something is pushed to a connection, OnWrite_ never takes its last branch.
THEOREM UnpushedConnectionIsKept == Spec => []UnpushedIsKept
<1>1. (pushed = 0 => Exclusive) => UnpushedIsKept
  BY DEF Exclusive, UnpushedIsKept
<1> QED BY ExclusiveUntilPush, <1>1, PTL

----------------------------------------------------------------------------
(* Nothing is lost.  The requests that read has taken and process has not, *)
(* and those still in the socket, are those after a number c; the          *)
(* responses on their way out are those of the requests up to c.           *)

\* The two segments of request k in f, which holds nothing else of it.
Whole(f, k) ==
    \E p \in 1..Len(f) :
        /\ p + 1 \in 1..Len(f)
        /\ \A q \in 1..Len(f) : f[q] = k <=> q \in {p, p + 1}

\* f holds the requests c + 1, ..., s in order and heartbeats between them.  Half of the
\* last one is missing if half.
Holding(f, c, s, half) ==
    /\ \A q \in 1..Len(f) : f[q] # Heartbeat => f[q] \in c + 1..s
    /\ \A i, j \in 1..Len(f) : i < j /\ f[i] # Heartbeat /\ f[j] # Heartbeat => f[i] <= f[j]
    /\ \A k \in c + 1..s : (half /\ k = s) \/ Whole(f, k)
    /\ half => c < s /\ Len(f) > 0 /\ \A q \in 1..Len(f) : f[q] = s <=> q = Len(f)

input == read_buff_ \o recv
output == received \o net \o write_buff_ \o outgoing_queue_

Expected(c, p) ==
    {Push(m) : m \in 1..p} \cup {Response(i) : i \in (0..c) \ Unparsable}

Balance(c) ==
    /\ Holding(input, c, sent, mid)
    /\ InOrder(output) /\ Range(output) \cup {Response(Heartbeat)} = Expected(c, pushed)
    /\ Range(outgoing_queue_) \subseteq {Push(m) : m \in 1..pushed}

Balanced == \E c \in 0..sent : Balance(c)

\* What Append, \o and SubSeq do, element by element.
LEMMA AppendFacts ==
    ASSUME NEW S, NEW f \in Seq(S), NEW x \in S
    PROVE  /\ Append(f, x) \in Seq(S) /\ Len(f) \in Nat /\ Len(Append(f, x)) = Len(f) + 1
           /\ \A q \in 1..Len(f) : Append(f, x)[q] = f[q]
           /\ Append(f, x)[Len(f) + 1] = x
           /\ Append(f, x) = f \o <<x>>
OBVIOUS

LEMMA JoinFacts ==
    ASSUME NEW S, NEW a \in Seq(S), NEW b \in Seq(S)
    PROVE  /\ a \o b \in Seq(S) /\ Len(a \o b) = Len(a) + Len(b)
           /\ Len(a) \in Nat /\ Len(b) \in Nat
           /\ \A i \in 1..Len(a) : (a \o b)[i] = a[i]
           /\ \A i \in 1..Len(b) : (a \o b)[Len(a) + i] = b[i]
OBVIOUS

LEMMA DropFacts ==
    ASSUME NEW S, NEW f \in Seq(S), NEW d \in 0..Len(f)
    PROVE  /\ SubSeq(f, 1 + d, Len(f)) \in Seq(S) /\ Len(f) \in Nat
           /\ Len(SubSeq(f, 1 + d, Len(f))) = Len(f) - d
           /\ \A q \in 1..Len(f) - d : SubSeq(f, 1 + d, Len(f))[q] = f[q + d]
<1>1. \A q \in 1 + d..Len(f) : f[q] \in S
  OBVIOUS
<1>2. /\ SubSeq(f, 1 + d, Len(f)) \in Seq(S)
      /\ Len(SubSeq(f, 1 + d, Len(f))) = IF 1 + d <= Len(f) THEN Len(f) - (1 + d) + 1 ELSE 0
      /\ \A q \in 1..Len(f) - (1 + d) + 1 : SubSeq(f, 1 + d, Len(f))[q] = f[(1 + d) + q - 1]
  BY <1>1, SubSeqProperties
<1>3. /\ (IF 1 + d <= Len(f) THEN Len(f) - (1 + d) + 1 ELSE 0) = Len(f) - d
      /\ Len(f) - (1 + d) + 1 = Len(f) - d
      /\ \A q \in 1..Len(f) - d : (1 + d) + q - 1 = q + d
  OBVIOUS
<1> DEFINE g == SubSeq(f, 1 + d, Len(f))
<1>4. g \in Seq(S) /\ Len(g) = Len(f) - d
  BY <1>2, <1>3
<1>5. ASSUME NEW q \in 1..Len(f) - d PROVE g[q] = f[q + d]
  <2>1. g[q] = f[(1 + d) + q - 1]
    BY <1>2, <1>3
  <2>2. (1 + d) + q - 1 = q + d
    BY <1>3
  <2> QED BY <2>1, <2>2
<1>6. Len(f) \in Nat
  OBVIOUS
<1> QED BY <1>4, <1>5, <1>6

----------------------------------------------------------------------------
(* The client sends.                                                       *)

\* A new request begins behind all the others.
LEMMA HoldRequest ==
    ASSUME NEW f \in Seq(Nat), NEW c \in Nat, NEW s \in Nat, c <= s, Holding(f, c, s, FALSE)
    PROVE  Holding(Append(f, s + 1), c, s + 1, TRUE)
<1> DEFINE g == Append(f, s + 1)
           n == Len(f)
<1>1. /\ n \in Nat /\ Len(g) = n + 1 /\ g[n + 1] = s + 1
      /\ \A q \in 1..n : g[q] = f[q] /\ f[q] \in Nat
  BY AppendFacts
<1> HIDE DEF g
<1>2. /\ \A q \in 1..n : f[q] # 0 => f[q] \in c + 1..s
      /\ \A i, j \in 1..n : i < j /\ f[i] # 0 /\ f[j] # 0 => f[i] <= f[j]
      /\ \A k \in c + 1..s : Whole(f, k)
  BY DEF Holding, Heartbeat
<1>3. \A q \in 1..n + 1 : q \in 1..n \/ q = n + 1
  BY <1>1
<1>4. \A q \in 1..n : g[q] # s + 1 /\ (g[q] # 0 => g[q] \in c + 1..s)
  BY <1>1, <1>2
<1>5. \A q \in 1..n + 1 : g[q] # 0 => g[q] \in c + 1..s + 1
  BY <1>1, <1>3, <1>4
<1>6. ASSUME NEW i \in 1..n + 1, NEW j \in 1..n + 1, i < j, g[i] # 0, g[j] # 0
      PROVE  g[i] <= g[j]
  <2>1. i \in 1..n
    BY <1>1, <1>6
  <2>2. CASE j \in 1..n
    BY <1>1, <1>2, <1>6, <2>1, <2>2
  <2>3. CASE j = n + 1
    BY <1>1, <1>4, <1>6, <2>1, <2>3
  <2> QED BY <1>3, <2>2, <2>3
<1>7. ASSUME NEW k \in c + 1..s + 1, k # s + 1 PROVE Whole(g, k)
  <2>1. k \in c + 1..s
    BY <1>7
  <2>2. PICK p \in 1..n : p + 1 \in 1..n /\ \A q \in 1..n : f[q] = k <=> q \in {p, p + 1}
    BY <1>2, <2>1 DEF Whole
  <2>3. p \in 1..Len(g) /\ p + 1 \in 1..Len(g) /\ n + 1 \notin {p, p + 1} /\ g[n + 1] # k
    BY <1>1, <1>7, <2>2
  <2>4. \A q \in 1..Len(g) : g[q] = k <=> q \in {p, p + 1}
    BY <1>1, <1>3, <2>2, <2>3
  <2> QED BY <2>3, <2>4 DEF Whole
<1>8. \A q \in 1..Len(g) : g[q] = s + 1 <=> q = Len(g)
  <2>1. \A q \in 1..n : q # n + 1
    BY <1>1
  <2> QED BY <1>1, <1>3, <1>4, <2>1
<1>9. c < s + 1 /\ Len(g) > 0
  BY <1>1
<1> QED BY <1>1, <1>5, <1>6, <1>7, <1>8, <1>9 DEF Holding, Heartbeat, g

\* The other half of the last request.
LEMMA HoldRest ==
    ASSUME NEW f \in Seq(Nat), NEW c \in Nat, NEW s \in Nat, Holding(f, c, s, TRUE)
    PROVE  Holding(Append(f, s), c, s, FALSE)
<1> DEFINE g == Append(f, s)
           n == Len(f)
<1>1. /\ n \in Nat /\ Len(g) = n + 1 /\ g[n + 1] = s /\ \A q \in 1..n : g[q] = f[q] /\ f[q] \in Nat
  BY AppendFacts
<1> HIDE DEF g
<1>2. /\ \A q \in 1..n : f[q] # 0 => f[q] \in c + 1..s
      /\ \A i, j \in 1..n : i < j /\ f[i] # 0 /\ f[j] # 0 => f[i] <= f[j]
      /\ \A k \in c + 1..s : k = s \/ Whole(f, k)
      /\ c < s /\ n > 0 /\ \A q \in 1..n : f[q] = s <=> q = n
  BY DEF Holding, Heartbeat
<1>3. \A q \in 1..n + 1 : q \in 1..n \/ q = n + 1
  BY <1>1
<1>5. \A q \in 1..n + 1 : g[q] # 0 => g[q] \in c + 1..s
  <2>1. s \in c + 1..s
    BY <1>2
  <2> QED BY <1>1, <1>2, <1>3, <2>1
<1>6. ASSUME NEW i \in 1..n + 1, NEW j \in 1..n + 1, i < j, g[i] # 0, g[j] # 0
      PROVE  g[i] <= g[j]
  <2>1. i \in 1..n
    BY <1>1, <1>6
  <2>2. CASE j \in 1..n
    BY <1>1, <1>2, <1>6, <2>1, <2>2
  <2>3. CASE j = n + 1
    <3>1. g[i] \in c + 1..s
      BY <1>5, <1>6
    <3> QED BY <1>1, <2>3, <3>1
  <2> QED BY <1>3, <2>2, <2>3
<1>7. ASSUME NEW k \in c + 1..s PROVE Whole(g, k)
  <2>1. CASE k = s
    <3>1. n \in 1..Len(g) /\ n + 1 \in 1..Len(g) /\ \A q \in 1..n : q # n + 1
      BY <1>1, <1>2
    <3>2. \A q \in 1..Len(g) : g[q] = k <=> q \in {n, n + 1}
      BY <1>1, <1>2, <1>3, <2>1, <3>1
    <3> QED BY <3>1, <3>2 DEF Whole
  <2>2. CASE k # s
    <3>1. PICK p \in 1..n : p + 1 \in 1..n /\ \A q \in 1..n : f[q] = k <=> q \in {p, p + 1}
      BY <1>2, <2>2 DEF Whole
    <3>2. p \in 1..Len(g) /\ p + 1 \in 1..Len(g) /\ n + 1 \notin {p, p + 1} /\ g[n + 1] # k
      BY <1>1, <2>2, <3>1
    <3>3. \A q \in 1..Len(g) : g[q] = k <=> q \in {p, p + 1}
      BY <1>1, <1>3, <3>1, <3>2
    <3> QED BY <3>2, <3>3 DEF Whole
  <2> QED BY <2>1, <2>2
<1> QED BY <1>1, <1>5, <1>6, <1>7 DEF Holding, Heartbeat, g

\* A heartbeat is sent between requests.
LEMMA HoldHeartbeat ==
    ASSUME NEW f \in Seq(Nat), NEW c \in Nat, NEW s \in Nat, Holding(f, c, s, FALSE)
    PROVE  Holding(Append(f, Heartbeat), c, s, FALSE)
<1> DEFINE g == Append(f, Heartbeat)
           n == Len(f)
<1>1. /\ n \in Nat /\ Len(g) = n + 1 /\ g[n + 1] = 0 /\ \A q \in 1..n : g[q] = f[q] /\ f[q] \in Nat
  BY AppendFacts DEF Heartbeat
<1> HIDE DEF g
<1>2. /\ \A q \in 1..n : f[q] # 0 => f[q] \in c + 1..s
      /\ \A i, j \in 1..n : i < j /\ f[i] # 0 /\ f[j] # 0 => f[i] <= f[j]
      /\ \A k \in c + 1..s : Whole(f, k)
  BY DEF Holding, Heartbeat
<1>3. \A q \in 1..n + 1 : q \in 1..n \/ q = n + 1
  BY <1>1
<1>5. \A q \in 1..n + 1 : g[q] # 0 => q \in 1..n /\ g[q] \in c + 1..s
  BY <1>1, <1>2, <1>3
<1>6. \A i, j \in 1..n + 1 : i < j /\ g[i] # 0 /\ g[j] # 0 => g[i] <= g[j]
  BY <1>1, <1>2, <1>5
<1>7. ASSUME NEW k \in c + 1..s PROVE Whole(g, k)
  <2>1. PICK p \in 1..n : p + 1 \in 1..n /\ \A q \in 1..n : f[q] = k <=> q \in {p, p + 1}
    BY <1>2 DEF Whole
  <2>2. p \in 1..Len(g) /\ p + 1 \in 1..Len(g) /\ n + 1 \notin {p, p + 1} /\ g[n + 1] # k
    BY <1>1, <2>1
  <2>3. \A q \in 1..Len(g) : g[q] = k <=> q \in {p, p + 1}
    BY <1>1, <1>3, <2>1, <2>2
  <2> QED BY <2>2, <2>3 DEF Whole
<1> QED BY <1>1, <1>5, <1>6, <1>7 DEF Holding, Heartbeat, g

----------------------------------------------------------------------------
(* process takes a frame.                                                  *)

\* A heartbeat at the front is consumed by itself.
LEMMA TakeHeartbeat ==
    ASSUME NEW f \in Seq(Nat), NEW c \in Nat, NEW s \in Nat, NEW half \in BOOLEAN,
           Holding(f, c, s, half), f # <<>>, f[1] = Heartbeat
    PROVE  Holding(SubSeq(f, 2, Len(f)), c, s, half)
<1> DEFINE n == Len(f)
           g == SubSeq(f, 2, n)
<1>1. n \in Nat /\ n >= 1
  OBVIOUS
<1>2. /\ Len(g) = n - 1 /\ \A q \in 1..n - 1 : g[q] = f[q + 1]
  <2>1. 1 \in 0..Len(f) /\ g = SubSeq(f, 1 + 1, Len(f)) /\ f \in Seq(Nat)
    BY <1>1
  <2> HIDE DEF g
  <2> QED BY <2>1, DropFacts
<1>3. \A q \in 1..n - 1 : q + 1 \in 1..n
  BY <1>1
<1> HIDE DEF g
<1>4. /\ \A q \in 1..n : f[q] # 0 => f[q] \in c + 1..s
      /\ \A i, j \in 1..n : i < j /\ f[i] # 0 /\ f[j] # 0 => f[i] <= f[j]
      /\ \A k \in c + 1..s : (half /\ k = s) \/ Whole(f, k)
      /\ half => c < s /\ \A q \in 1..n : f[q] = s <=> q = n
  BY DEF Holding, Heartbeat
<1>5. \A q \in 1..n - 1 : g[q] # 0 => g[q] \in c + 1..s
  BY <1>2, <1>3, <1>4
<1>6. ASSUME NEW i \in 1..n - 1, NEW j \in 1..n - 1, i < j, g[i] # 0, g[j] # 0
      PROVE  g[i] <= g[j]
  <2>1. i + 1 < j + 1
    BY <1>1, <1>6
  <2> QED BY <1>2, <1>3, <1>4, <1>6, <2>1
<1>7. ASSUME NEW k \in c + 1..s, ~(half /\ k = s) PROVE Whole(g, k)
  <2>1. PICK p \in 1..n : p + 1 \in 1..n /\ \A q \in 1..n : f[q] = k <=> q \in {p, p + 1}
    BY <1>4, <1>7 DEF Whole
  <2>2. p # 1
    <3>1. f[p] = k /\ k # 0
      BY <2>1
    <3> QED BY <3>1 DEF Heartbeat
  <2>3. /\ p - 1 \in 1..n - 1 /\ (p - 1) + 1 \in 1..n - 1
        /\ \A q \in 1..n - 1 : q \in {p - 1, (p - 1) + 1} <=> q + 1 \in {p, p + 1}
    BY <1>1, <2>1, <2>2
  <2>4. \A q \in 1..n - 1 : g[q] = k <=> q \in {p - 1, (p - 1) + 1}
    BY <1>2, <1>3, <2>1, <2>3
  <2> QED BY <1>2, <2>3, <2>4 DEF Whole
<1>8. ASSUME half PROVE n - 1 > 0 /\ \A q \in 1..n - 1 : g[q] = s <=> q = n - 1
  <2>1. c < s /\ \A q \in 1..n : f[q] = s <=> q = n
    BY <1>4, <1>8
  <2>2. n \in 1..n /\ f[n] = s /\ s # 0
    BY <1>1, <2>1
  <2>3. n - 1 > 0
    BY <1>1, <2>2 DEF Heartbeat
  <2>4. \A q \in 1..n - 1 : q + 1 = n <=> q = n - 1
    BY <1>1
  <2> QED BY <1>2, <1>3, <2>1, <2>3, <2>4
<1> QED BY <1>2, <1>4, <1>5, <1>6, <1>7, <1>8 DEF Holding, Heartbeat, g

\* A frame that is complete is request c + 1, and its two segments.
LEMMA TakeRequest ==
    ASSUME NEW f \in Seq(Nat), NEW c \in Nat, NEW s \in Nat, NEW half \in BOOLEAN,
           Holding(f, c, s, half), Len(f) >= 2, f[1] # Heartbeat
    PROVE  /\ f[1] = c + 1 /\ c + 1 <= s
           /\ Holding(SubSeq(f, 3, Len(f)), c + 1, s, half)
<1> DEFINE n == Len(f)
           g == SubSeq(f, 3, n)
<1>1. n \in Nat /\ n >= 2 /\ 1 \in 1..n /\ \A q \in 1..n : f[q] \in Nat
  OBVIOUS
<1>2. /\ Len(g) = n - 2 /\ \A q \in 1..n - 2 : g[q] = f[q + 2]
  <2>1. 2 \in 0..Len(f) /\ g = SubSeq(f, 1 + 2, Len(f)) /\ f \in Seq(Nat)
    BY <1>1
  <2> HIDE DEF g
  <2> QED BY <2>1, DropFacts
<1>3. \A q \in 1..n - 2 : q + 2 \in 1..n
  BY <1>1
<1> HIDE DEF g
<1>4. /\ \A q \in 1..n : f[q] # 0 => f[q] \in c + 1..s
      /\ \A i, j \in 1..n : i < j /\ f[i] # 0 /\ f[j] # 0 => f[i] <= f[j]
      /\ \A k \in c + 1..s : (half /\ k = s) \/ Whole(f, k)
      /\ half => c < s /\ \A q \in 1..n : f[q] = s <=> q = n
  BY DEF Holding, Heartbeat
<1>5. f[1] \in c + 1..s /\ c + 1 <= s /\ c + 1 \in c + 1..s
  <2>1. f[1] \in c + 1..s
    BY <1>1, <1>4 DEF Heartbeat
  <2> QED BY <2>1
<1>6. ~(half /\ f[1] = s)
  BY <1>1, <1>4
<1>7. PICK p \in 1..n : p + 1 \in 1..n /\ \A q \in 1..n : f[q] = f[1] <=> q \in {p, p + 1}
  BY <1>4, <1>5, <1>6 DEF Whole
<1>8. p = 1
  <2>1. 1 \in {p, p + 1}
    BY <1>1, <1>7
  <2> QED BY <2>1, <1>1
<1>9. f[1] = c + 1
  <2> SUFFICES ASSUME f[1] # c + 1 PROVE FALSE
    OBVIOUS
  <2>1. PICK r \in 1..n : f[r] = c + 1
    <3>1. CASE half /\ c + 1 = s
      <4>1. n \in 1..n
        BY <1>1
      <4> QED BY <1>4, <3>1, <4>1
    <3>2. CASE ~(half /\ c + 1 = s)
      BY <1>4, <1>5, <3>2 DEF Whole
    <3> QED BY <3>1, <3>2
  <2>2. 1 < r
    BY <1>1, <2>1
  <2>3. f[1] <= f[r]
    <3>1. f[1] # 0 /\ f[r] # 0
      BY <2>1 DEF Heartbeat
    <3> QED BY <1>1, <1>4, <2>2, <3>1
  <2> QED BY <1>5, <2>1, <2>3
<1>10. \A q \in 1..n - 2 : g[q] # c + 1
  <2>1. \A q \in 1..n - 2 : q + 2 \notin {1, 1 + 1}
    BY <1>1
  <2> QED BY <1>2, <1>3, <1>7, <1>8, <1>9, <2>1
<1>11. \A q \in 1..n - 2 : g[q] # 0 => g[q] \in (c + 1) + 1..s
  <2>1. \A q \in 1..n - 2 : g[q] # 0 => g[q] \in c + 1..s
    BY <1>2, <1>3, <1>4
  <2> QED BY <1>10, <2>1
<1>12. ASSUME NEW i \in 1..n - 2, NEW j \in 1..n - 2, i < j, g[i] # 0, g[j] # 0
       PROVE  g[i] <= g[j]
  <2>1. i + 2 < j + 2
    BY <1>1, <1>12
  <2> QED BY <1>2, <1>3, <1>4, <1>12, <2>1
<1>13. ASSUME NEW k \in (c + 1) + 1..s, ~(half /\ k = s) PROVE Whole(g, k)
  <2>0. k \in c + 1..s /\ k # c + 1
    OBVIOUS
  <2>1. PICK m \in 1..n : m + 1 \in 1..n /\ \A q \in 1..n : f[q] = k <=> q \in {m, m + 1}
    BY <1>4, <1>13, <2>0 DEF Whole
  <2>2. f[m] = k /\ f[1] # k /\ f[2] # k
    <3>1. 2 \in 1..n /\ 2 = 1 + 1
      BY <1>1
    <3> QED BY <1>7, <1>8, <1>9, <2>0, <2>1, <3>1
  <2>3. m > 2
    BY <1>1, <2>2
  <2>4. /\ m - 2 \in 1..n - 2 /\ (m - 2) + 1 \in 1..n - 2
        /\ \A q \in 1..n - 2 : q \in {m - 2, (m - 2) + 1} <=> q + 2 \in {m, m + 1}
    BY <1>1, <2>1, <2>3
  <2>5. \A q \in 1..n - 2 : g[q] = k <=> q \in {m - 2, (m - 2) + 1}
    BY <1>2, <1>3, <2>1, <2>4
  <2> QED BY <1>2, <2>4, <2>5 DEF Whole
<1>14. ASSUME half PROVE /\ c + 1 < s /\ n - 2 > 0
                         /\ \A q \in 1..n - 2 : g[q] = s <=> q = n - 2
  <2>1. c < s /\ \A q \in 1..n : f[q] = s <=> q = n
    BY <1>4, <1>14
  <2>2. c + 1 # s
    BY <1>6, <1>9, <1>14
  <2>3. n # 2
    <3>1. 2 \in 1..n /\ 2 = 1 + 1
      BY <1>1
    <3>2. f[2] = c + 1
      BY <1>7, <1>8, <1>9, <3>1
    <3> QED BY <2>1, <2>2, <3>1, <3>2
  <2>4. c + 1 < s /\ n - 2 > 0
    <3>1. c < s /\ c \in Nat /\ s \in Nat
      BY <2>1
    <3>2. c + 1 < s
      BY ONLY SMT, <2>2, <3>1
    <3>3. n \in Nat /\ n >= 2
      BY <1>1
    <3>4. \A k \in Nat : k >= 2 /\ k # 2 => k - 2 > 0
      OBVIOUS
    <3> QED BY <2>3, <3>2, <3>3, <3>4
  <2>5. \A q \in 1..n - 2 : q + 2 = n <=> q = n - 2
    BY <1>1
  <2> QED BY <1>2, <1>3, <2>1, <2>4, <2>5
<1> QED BY <1>2, <1>5, <1>9, <1>11, <1>12, <1>13, <1>14 DEF Holding, Heartbeat, g

----------------------------------------------------------------------------
(* What is on its way out.                                                 *)

\* The order of two sequences that are joined.
LEMMA OrderOfJoin ==
    ASSUME NEW a \in Seq(Items), NEW b \in Seq(Items)
    PROVE  InOrder(a \o b) <=>
               /\ InOrder(a) /\ InOrder(b)
               /\ \A x \in Range(a), y \in Range(b) : Precedes(x, y)
<1> DEFINE f == a \o b
           n == Len(a)
           m == Len(b)
<1>1. /\ n \in Nat /\ m \in Nat /\ Len(f) = n + m
      /\ \A i \in 1..n : f[i] = a[i]
      /\ \A i \in 1..m : f[n + i] = b[i]
      /\ DOMAIN f = 1..n + m /\ DOMAIN a = 1..n /\ DOMAIN b = 1..m
  BY JoinFacts
<1> HIDE DEF f, n, m
<1>2. /\ \A i \in 1..n : i \in 1..n + m
      /\ \A i \in 1..m : n + i \in 1..n + m
      /\ \A i \in 1..n, j \in 1..m : i < n + j
      /\ \A i, j \in 1..m : i < j <=> n + i < n + j
  BY <1>1
<1>3. \A i \in 1..n + m : i \in 1..n \/ \E k \in 1..m : i = n + k
  <2>1. \A i \in 1..n + m : i \in 1..n \/ (i - n \in 1..m /\ i = n + (i - n))
    BY <1>1
  <2> QED BY <2>1
<1>4. ASSUME InOrder(f) PROVE InOrder(a)
  BY <1>1, <1>2, <1>4 DEF InOrder
<1>5. ASSUME InOrder(f) PROVE InOrder(b)
  BY <1>1, <1>2, <1>5 DEF InOrder
<1>6. ASSUME InOrder(f), NEW x \in Range(a), NEW y \in Range(b) PROVE Precedes(x, y)
  <2>1. PICK i \in 1..n : x = a[i]
    BY <1>1 DEF Range
  <2>2. PICK j \in 1..m : y = b[j]
    BY <1>1 DEF Range
  <2> QED BY <1>1, <1>2, <1>6, <2>1, <2>2 DEF InOrder
<1>7. ASSUME InOrder(a), InOrder(b), \A x \in Range(a), y \in Range(b) : Precedes(x, y),
             NEW i \in 1..n + m, NEW j \in 1..n + m, i < j
      PROVE  Precedes(f[i], f[j])
  <2>1. CASE i \in 1..n /\ j \in 1..n
    BY <1>1, <1>7, <2>1 DEF InOrder
  <2>2. ASSUME i \in 1..n, NEW l \in 1..m, j = n + l PROVE Precedes(f[i], f[j])
    BY <1>1, <1>7, <2>2 DEF Range
  <2>3. ASSUME NEW k \in 1..m, i = n + k, NEW l \in 1..m, j = n + l PROVE Precedes(f[i], f[j])
    BY <1>1, <1>2, <1>7, <2>3 DEF InOrder
  <2>4. ASSUME NEW k \in 1..m, i = n + k PROVE j \notin 1..n
    BY <1>1, <1>7, <2>4
  <2> QED BY <1>3, <2>1, <2>2, <2>3, <2>4
<1> QED BY <1>1, <1>4, <1>5, <1>6, <1>7 DEF InOrder, f

\* What two joined sequences contain, and one item.
LEMMA RangeOfJoin ==
    ASSUME NEW a \in Seq(Items), NEW b \in Seq(Items)
    PROVE  Range(a \o b) = Range(a) \cup Range(b)
<1> DEFINE f == a \o b
           n == Len(a)
           m == Len(b)
<1>1. /\ n \in Nat /\ m \in Nat
      /\ \A i \in 1..n : f[i] = a[i]
      /\ \A i \in 1..m : f[n + i] = b[i]
      /\ DOMAIN f = 1..n + m /\ DOMAIN a = 1..n /\ DOMAIN b = 1..m
  BY JoinFacts
<1> HIDE DEF f, n, m
<1>2. /\ \A i \in 1..n : i \in 1..n + m
      /\ \A i \in 1..m : n + i \in 1..n + m
  BY <1>1
<1>3. \A i \in 1..n + m : i \in 1..n \/ \E k \in 1..m : i = n + k
  <2>1. \A i \in 1..n + m : i \in 1..n \/ (i - n \in 1..m /\ i = n + (i - n))
    BY <1>1
  <2> QED BY <2>1
<1>4. Range(f) \subseteq Range(a) \cup Range(b)
  <2> SUFFICES ASSUME NEW i \in 1..n + m PROVE f[i] \in Range(a) \cup Range(b)
    BY <1>1 DEF Range
  <2>1. CASE i \in 1..n
    BY <1>1, <2>1 DEF Range
  <2>2. ASSUME NEW k \in 1..m, i = n + k PROVE f[i] \in Range(b)
    BY <1>1, <2>2 DEF Range
  <2> QED BY <1>3, <2>1, <2>2
<1>5. Range(a) \subseteq Range(f) /\ Range(b) \subseteq Range(f)
  BY <1>1, <1>2 DEF Range
<1> QED BY <1>4, <1>5 DEF f

LEMMA OneItem ==
    ASSUME NEW e \in Items
    PROVE  <<e>> \in Seq(Items) /\ Range(<<e>>) = {e} /\ InOrder(<<e>>)
<1>1. <<e>> \in Seq(Items) /\ DOMAIN <<e>> = 1..1 /\ <<e>>[1] = e
  OBVIOUS
<1>2. \A i \in 1..1 : i = 1
  OBVIOUS
<1>3. Range(<<e>>) = {e}
  BY <1>1, <1>2 DEF Range
<1>4. InOrder(<<e>>)
  <2>1. \A i, j \in 1..1 : ~(i < j)
    OBVIOUS
  <2> QED BY <1>1, <2>1 DEF InOrder
<1> QED BY <1>1, <1>3, <1>4

\* A response is put behind the others and before the pushes that are queued.
LEMMA InsertItem ==
    ASSUME NEW a \in Seq(Items), NEW b \in Seq(Items), NEW e \in Items, InOrder(a \o b),
           \A x \in Range(a) : Precedes(x, e), \A y \in Range(b) : Precedes(e, y)
    PROVE  /\ InOrder((a \o <<e>>) \o b)
           /\ Range((a \o <<e>>) \o b) = Range(a \o b) \cup {e}
<1>1. <<e>> \in Seq(Items) /\ Range(<<e>>) = {e} /\ InOrder(<<e>>)
  BY OneItem
<1>2. InOrder(a) /\ InOrder(b) /\ \A x \in Range(a), y \in Range(b) : Precedes(x, y)
  BY OrderOfJoin
<1>3. a \o <<e>> \in Seq(Items) /\ InOrder(a \o <<e>>) /\ Range(a \o <<e>>) = Range(a) \cup {e}
  <2>1. a \o <<e>> \in Seq(Items) /\ Range(a \o <<e>>) = Range(a) \cup {e}
    <3>1. a \o <<e>> \in Seq(Items)
      BY <1>1, JoinFacts
    <3>2. Range(a \o <<e>>) = Range(a) \cup Range(<<e>>)
      BY <1>1, RangeOfJoin
    <3> QED BY <1>1, <3>1, <3>2
  <2>2. \A x \in Range(a), y \in Range(<<e>>) : Precedes(x, y)
    BY <1>1
  <2> QED BY <1>1, <1>2, <2>1, <2>2, OrderOfJoin
<1>4. \A x \in Range(a \o <<e>>), y \in Range(b) : Precedes(x, y)
  BY <1>2, <1>3
<1>5. InOrder((a \o <<e>>) \o b)
  BY <1>2, <1>3, <1>4, OrderOfJoin
<1>6. /\ Range((a \o <<e>>) \o b) = Range(a \o <<e>>) \cup Range(b)
      /\ Range(a \o b) = Range(a) \cup Range(b)
  BY <1>3, RangeOfJoin
<1> QED BY <1>3, <1>5, <1>6

\* The client reads an item and keeps no record of it.
LEMMA DropItem ==
    ASSUME NEW a \in Seq(Items), NEW b \in Seq(Items), NEW e \in Items, InOrder(a \o (<<e>> \o b))
    PROVE  InOrder(a \o b) /\ Range(a \o (<<e>> \o b)) = Range(a \o b) \cup {e}
<1>1. <<e>> \in Seq(Items) /\ Range(<<e>>) = {e} /\ InOrder(<<e>>)
  BY OneItem
<1>2. <<e>> \o b \in Seq(Items) /\ Range(<<e>> \o b) = {e} \cup Range(b)
  BY <1>1, RangeOfJoin, JoinFacts
<1>3. /\ InOrder(a) /\ InOrder(<<e>> \o b)
      /\ \A x \in Range(a), y \in Range(<<e>> \o b) : Precedes(x, y)
  BY <1>2, OrderOfJoin
<1>4. InOrder(b)
  BY <1>1, <1>3, OrderOfJoin
<1>5. InOrder(a \o b)
  BY <1>2, <1>3, <1>4, OrderOfJoin
<1>6. /\ Range(a \o (<<e>> \o b)) = Range(a) \cup Range(<<e>> \o b)
      /\ Range(a \o b) = Range(a) \cup Range(b)
  BY <1>2, RangeOfJoin
<1> QED BY <1>2, <1>5, <1>6

\* Responses and pushes are told apart, and each by its number.
LEMMA ItemFacts ==
    /\ \A i : Response(i)[1] = "response" /\ Response(i)[2] = i
    /\ \A m : Push(m)[1] = "push" /\ Push(m)[2] = m
    /\ \A i, j : Response(i) = Response(j) => i = j
    /\ \A i, j : Push(i) = Push(j) => i = j
    /\ \A i, m : Response(i) # Push(m)
    /\ \A i \in Nat : Response(i) \in Items /\ Push(i) \in Items
    /\ Response(Heartbeat) \in Items
BY DEF Response, Push, Items, Heartbeat

\* What has a number up to c, or is a push, may go out before response c + 1.
LEMMA NewResponse ==
    ASSUME NEW c \in Nat, NEW p \in Nat, NEW x \in Expected(c, p)
    PROVE  Precedes(x, Response(c + 1)) /\ Precedes(x, Response(Heartbeat))
<1>1. CASE x \in {Push(m) : m \in 1..p}
  BY <1>1, ItemFacts DEF Precedes
<1>2. ASSUME NEW i \in 0..c, x = Response(i) PROVE Precedes(x, Response(c + 1))
  <2>1. i < c + 1
    OBVIOUS
  <2> QED BY <1>2, <2>1, ItemFacts DEF Precedes
<1>3. Precedes(x, Response(Heartbeat))
  BY DEF Precedes
<1> QED BY <1>1, <1>2, <1>3 DEF Expected

\* Anything that is on its way goes out before the next push.
LEMMA NewPush ==
    ASSUME NEW c \in Nat, NEW p \in Nat, NEW x \in Expected(c, p)
    PROVE  Precedes(x, Push(p + 1))
<1>1. ASSUME NEW m \in 1..p, x = Push(m) PROVE Precedes(x, Push(p + 1))
  <2>1. m < p + 1
    OBVIOUS
  <2> QED BY <1>1, <2>1, ItemFacts DEF Precedes
<1>2. ASSUME NEW i \in 0..c, x = Response(i) PROVE Precedes(x, Push(p + 1))
  BY <1>2, ItemFacts DEF Precedes
<1> QED BY <1>1, <1>2 DEF Expected

\* What one more request, and one more push, adds.
LEMMA NextExpected ==
    ASSUME NEW c \in Nat, NEW p \in Nat
    PROVE  /\ c + 1 \notin Unparsable => Expected(c + 1, p) = Expected(c, p) \cup {Response(c + 1)}
           /\ c + 1 \in Unparsable => Expected(c + 1, p) = Expected(c, p)
           /\ Expected(c, p + 1) = Expected(c, p) \cup {Push(p + 1)}
           /\ Response(Heartbeat) \in Expected(c, p)
<1>1. 0..c + 1 = (0..c) \cup {c + 1} /\ 1..p + 1 = (1..p) \cup {p + 1} /\ c + 1 \notin 0..c
  OBVIOUS
<1>2. 0 \in 0..c /\ 0 \notin Unparsable
  BY ConnectionAssumption
<1>3. c + 1 \notin Unparsable => (0..c + 1) \ Unparsable = ((0..c) \ Unparsable) \cup {c + 1}
  BY <1>1
<1>4. c + 1 \in Unparsable => (0..c + 1) \ Unparsable = (0..c) \ Unparsable
  BY <1>1
<1>5. c + 1 \notin Unparsable => Expected(c + 1, p) = Expected(c, p) \cup {Response(c + 1)}
  BY <1>3 DEF Expected
<1>6. c + 1 \in Unparsable => Expected(c + 1, p) = Expected(c, p)
  BY <1>4 DEF Expected
<1>7. Expected(c, p + 1) = Expected(c, p) \cup {Push(p + 1)}
  BY <1>1 DEF Expected
<1>8. Response(Heartbeat) \in Expected(c, p)
  BY <1>2 DEF Expected, Heartbeat
<1> QED BY <1>5, <1>6, <1>7, <1>8

\* The joins of the steps.
LEMMA Joins ==
    ASSUME NEW S, NEW a \in Seq(S), NEW b \in Seq(S), NEW d \in Seq(S)
    PROVE  /\ (a \o b) \o d = a \o (b \o d) /\ a \o b \in Seq(S) /\ b \o d \in Seq(S)
           /\ a \o <<>> = a
           /\ \A e \in S : a \o Append(b, e) = Append(a \o b, e) /\ Append(a, e) = a \o <<e>>
           /\ b # <<>> => /\ Head(b) \in S /\ Tail(b) \in Seq(S)
                          /\ b = <<Head(b)>> \o Tail(b)
                          /\ Append(a, Head(b)) \o Tail(b) = a \o b
<1>1. (a \o b) \o d = a \o (b \o d) /\ a \o b \in Seq(S) /\ b \o d \in Seq(S)
  BY ConcatAssociative
<1>2. a \o <<>> = a
  BY ConcatEmptySeq
<1>3. \A e \in S : a \o Append(b, e) = Append(a \o b, e) /\ Append(a, e) = a \o <<e>>
  OBVIOUS
<1>4. ASSUME b # <<>>
      PROVE  /\ Head(b) \in S /\ Tail(b) \in Seq(S)
             /\ b = <<Head(b)>> \o Tail(b)
             /\ Append(a, Head(b)) \o Tail(b) = a \o b
  BY <1>4
<1> QED BY <1>1, <1>2, <1>3, <1>4

LEMMA Assoc ==
    \A a, b, d \in Seq(Items) : (a \o b) \o d = a \o (b \o d)
BY Joins

\* A sequence over a set is one over any larger set.
LEMMA Wider ==
    ASSUME NEW S, NEW T, S \subseteq T, NEW s \in Seq(S)
    PROVE  s \in Seq(T)
<1>1. Len(s) \in Nat /\ DOMAIN s = 1..Len(s) /\ \A i \in 1..Len(s) : s[i] \in S
  OBVIOUS
<1>2. s = [i \in 1..Len(s) |-> s[i]]
  OBVIOUS
<1>3. [i \in 1..Len(s) |-> s[i]] \in Seq(T)
  BY <1>1
<1> QED BY <1>2, <1>3

\* A frame taken from read_buff_ is taken from the whole input.
LEMMA DropOfJoin ==
    ASSUME NEW S, NEW a \in Seq(S), NEW b \in Seq(S), NEW d \in 0..Len(a)
    PROVE  SubSeq(a, 1 + d, Len(a)) \o b = SubSeq(a \o b, 1 + d, Len(a \o b))
<1> DEFINE l == SubSeq(a, 1 + d, Len(a))
           f == a \o b
           r == SubSeq(f, 1 + d, Len(f))
<1>1. /\ f \in Seq(S) /\ Len(f) = Len(a) + Len(b) /\ Len(a) \in Nat /\ Len(b) \in Nat
      /\ \A i \in 1..Len(a) : f[i] = a[i]
      /\ \A i \in 1..Len(b) : f[Len(a) + i] = b[i]
  OBVIOUS
<1>2. d \in 0..Len(f)
  BY <1>1
<1> HIDE DEF f
<1>3. /\ l \in Seq(S) /\ Len(l) = Len(a) - d /\ \A i \in 1..Len(a) - d : l[i] = a[i + d]
  BY DropFacts
<1>4. /\ r \in Seq(S) /\ Len(r) = Len(f) - d /\ \A i \in 1..Len(f) - d : r[i] = f[i + d]
  BY <1>1, <1>2, DropFacts
<1> HIDE DEF l, r
<1>5. /\ l \o b \in Seq(S) /\ Len(l \o b) = Len(l) + Len(b)
      /\ \A i \in 1..Len(l) : (l \o b)[i] = l[i]
      /\ \A i \in 1..Len(b) : (l \o b)[Len(l) + i] = b[i]
  <2>1. l \in Seq(S)
    BY <1>3
  <2> QED BY <2>1
<1>6. Len(l \o b) = Len(r)
  BY <1>1, <1>3, <1>4, <1>5
<1>7. ASSUME NEW i \in 1..Len(r) PROVE (l \o b)[i] = r[i]
  <2>1. CASE i \in 1..Len(l)
    <3>1. i \in 1..Len(a) - d /\ i + d \in 1..Len(a)
      BY <1>1, <1>3, <2>1
    <3> QED BY <1>1, <1>3, <1>4, <1>5, <2>1, <3>1
  <2>2. CASE i \notin 1..Len(l)
    <3>1. PICK k \in 1..Len(b) : i = Len(l) + k
      <4>1. i - Len(l) \in 1..Len(b) /\ i = Len(l) + (i - Len(l))
        BY <1>1, <1>3, <1>4, <2>2
      <4> QED BY <4>1
    <3>2. i + d = Len(a) + k /\ i \in 1..Len(f) - d
      BY <1>1, <1>3, <1>4, <3>1
    <3> QED BY <1>1, <1>4, <1>5, <3>1, <3>2
  <2> QED BY <2>1, <2>2
<1> QED BY <1>4, <1>5, <1>6, <1>7, SeqEqual DEF l, r, f

----------------------------------------------------------------------------
(* The steps.                                                              *)

\* The buffers as sequences.
LEMMA BufferTypes ==
    ASSUME TypeOK
    PROVE  /\ received \in Seq(Items) /\ net \in Seq(Items)
           /\ write_buff_ \in Seq(Items) /\ outgoing_queue_ \in Seq(Items)
           /\ read_buff_ \in Seq(Nat) /\ recv \in Seq(Nat) /\ input \in Seq(Nat)
           /\ output \in Seq(Items)
           /\ sent \in Nat /\ pushed \in Nat /\ mid \in BOOLEAN
<1>1. 0..MaxRequests \subseteq Nat
  OBVIOUS
<1>2. read_buff_ \in Seq(Nat) /\ recv \in Seq(Nat)
  <2>1. \A s \in Seq(0..MaxRequests) : s \in Seq(Nat)
    BY <1>1, Wider
  <2> QED BY <2>1 DEF TypeOK
<1>3. /\ received \in Seq(Items) /\ net \in Seq(Items)
      /\ write_buff_ \in Seq(Items) /\ outgoing_queue_ \in Seq(Items)
  BY DEF TypeOK
<1>4. input \in Seq(Nat) /\ output \in Seq(Items)
  BY <1>2, <1>3, JoinFacts DEF input, output
<1>5. sent \in Nat /\ pushed \in Nat /\ mid \in BOOLEAN
  BY ConnectionAssumption DEF TypeOK
<1> QED BY <1>2, <1>3, <1>4, <1>5

\* A step that moves bytes along and adds none.
LEMMA SameBalance ==
    ASSUME Balanced, input' = input, output' = output, UNCHANGED <<sent, mid, pushed>>,
           Range(outgoing_queue_)' \subseteq Range(outgoing_queue_)
    PROVE  Balanced'
<1>1. PICK c \in 0..sent : Balance(c)
  BY DEF Balanced
<1>2. Balance(c)'
  BY <1>1 DEF Balance
<1> QED BY <1>1, <1>2 DEF Balanced

\* The client sends half a request, the other half, or a heartbeat.
LEMMA SendBalance ==
    ASSUME TypeOK, Balanced, SendRequest \/ SendRest \/ SendHeartbeat
    PROVE  Balanced'
<1>0. /\ read_buff_' = read_buff_ /\ output' = output /\ pushed' = pushed
      /\ outgoing_queue_' = outgoing_queue_
  BY DEF SendRequest, SendRest, SendHeartbeat, conn, client, output
<1>1. /\ read_buff_ \in Seq(Nat) /\ recv \in Seq(Nat) /\ input \in Seq(Nat) /\ sent \in Nat
  BY BufferTypes
<1>2. PICK c \in 0..sent : Balance(c)
  BY DEF Balanced
<1>3. c \in Nat /\ c <= sent /\ Holding(input, c, sent, mid)
  BY <1>1, <1>2 DEF Balance
<1>4. \A x \in Nat : recv' = Append(recv, x) => input' = Append(input, x)
  BY <1>0, <1>1, Joins DEF input
<1>5. ASSUME Holding(input, c, sent, mid)', c \in 0..sent' PROVE Balanced'
  <2>1. Balance(c)'
    BY <1>0, <1>2, <1>5 DEF Balance
  <2> QED BY <1>5, <2>1 DEF Balanced
<1>6. CASE SendRequest
  <2>1. ~mid /\ mid' = TRUE /\ sent' = sent + 1 /\ recv' = Append(recv, sent + 1)
    BY <1>6 DEF SendRequest
  <2>2. mid = FALSE
    BY <2>1, BufferTypes
  <2>3. input' = Append(input, sent + 1) /\ c \in 0..sent'
    BY <1>1, <1>3, <1>4, <2>1
  <2>4. Holding(Append(input, sent + 1), c, sent + 1, TRUE)
    BY <1>1, <1>3, <2>2, HoldRequest
  <2> QED BY <1>5, <2>1, <2>3, <2>4
<1>7. CASE SendRest
  <2>1. mid /\ mid' = FALSE /\ sent' = sent /\ recv' = Append(recv, sent)
    BY <1>7 DEF SendRest
  <2>2. mid = TRUE
    BY <2>1, BufferTypes
  <2>3. input' = Append(input, sent)
    BY <1>1, <1>4, <2>1
  <2>4. Holding(Append(input, sent), c, sent, FALSE)
    BY <1>1, <1>3, <2>2, HoldRest
  <2> QED BY <1>2, <1>5, <2>1, <2>3, <2>4
<1>8. CASE SendHeartbeat
  <2>1. ~mid /\ mid' = mid /\ sent' = sent /\ recv' = Append(recv, Heartbeat)
    BY <1>8 DEF SendHeartbeat, client
  <2>2. mid = FALSE
    BY <2>1, BufferTypes
  <2>3. input' = Append(input, Heartbeat)
    BY <1>1, <1>4, <2>1 DEF Heartbeat
  <2>4. Holding(Append(input, Heartbeat), c, sent, FALSE)
    BY <1>1, <1>3, <2>2, HoldHeartbeat
  <2> QED BY <1>2, <1>5, <2>1, <2>2, <2>3, <2>4
<1> QED BY <1>6, <1>7, <1>8

\* enqueue_message puts the next push behind everything else.
LEMMA EnqueueBalance ==
    ASSUME TypeOK, Balanced, NEW p \in Pushers, EnqueueMessage(p)
    PROVE  Balanced'
<1>0. /\ pushed' = pushed + 1 /\ outgoing_queue_' = Append(outgoing_queue_, Push(pushed + 1))
      /\ UNCHANGED <<recv, net, read_buff_, write_buff_, sent, mid, received>>
  BY DEF EnqueueMessage, client
<1>1. /\ received \in Seq(Items) /\ net \in Seq(Items)
      /\ write_buff_ \in Seq(Items) /\ outgoing_queue_ \in Seq(Items)
      /\ output \in Seq(Items) /\ pushed \in Nat /\ sent \in Nat
  BY BufferTypes
<1>2. PICK c \in 0..sent : Balance(c)
  BY DEF Balanced
<1> DEFINE e == Push(pushed + 1)
<1>3. e \in Items /\ c \in Nat
  BY <1>1, <1>2, ItemFacts
<1> HIDE DEF e
<1>4. output' = output \o <<e>> /\ outgoing_queue_' = outgoing_queue_ \o <<e>>
  <2>1. received \o net \o write_buff_ \in Seq(Items)
    BY <1>1, JoinFacts
  <2>2. outgoing_queue_' = Append(outgoing_queue_, e)
    BY <1>0 DEF e
  <2>3. output' = (received \o net \o write_buff_) \o Append(outgoing_queue_, e)
    BY <1>0, <2>2 DEF output
  <2>4. output' = Append(output, e)
    BY <1>1, <1>3, <2>1, <2>3, Joins DEF output
  <2>5. output \in Seq(Items) /\ outgoing_queue_ \in Seq(Items) /\ e \in Items
    BY <1>1, <1>3
  <2>6. Append(output, e) = output \o <<e>> /\ Append(outgoing_queue_, e) = outgoing_queue_ \o <<e>>
    BY <2>5
  <2> QED BY <2>2, <2>4, <2>6
<1>5. <<e>> \in Seq(Items) /\ Range(<<e>>) = {e} /\ InOrder(<<e>>)
  BY <1>3, OneItem
<1>6. /\ Holding(input, c, sent, mid) /\ InOrder(output)
      /\ Range(output) \cup {Response(Heartbeat)} = Expected(c, pushed)
      /\ Range(outgoing_queue_) \subseteq {Push(m) : m \in 1..pushed}
  BY <1>2 DEF Balance
<1>7. \A x \in Range(output) : Precedes(x, e)
  <2>1. \A x \in Range(output) : x \in Expected(c, pushed)
    BY <1>6
  <2> QED BY <1>1, <1>3, <2>1, NewPush DEF e
<1>8. InOrder(output') /\ Range(output') = Range(output) \cup {e}
  <2>0. \A x \in Range(output), y \in Range(<<e>>) : Precedes(x, y)
    BY <1>5, <1>7
  <2>1. InOrder(output \o <<e>>)
    BY <1>1, <1>5, <1>6, <2>0, OrderOfJoin
  <2>2. Range(output \o <<e>>) = Range(output) \cup Range(<<e>>)
    BY <1>1, <1>5, RangeOfJoin
  <2> QED BY <1>4, <1>5, <2>1, <2>2
<1>9. Range(output') \cup {Response(Heartbeat)} = Expected(c, pushed + 1)
  BY <1>1, <1>3, <1>6, <1>8, NextExpected DEF e
<1>10. Range(outgoing_queue_') \subseteq {Push(m) : m \in 1..pushed + 1}
  <2>1. Range(outgoing_queue_') = Range(outgoing_queue_) \cup {e}
    <3>1. Range(outgoing_queue_ \o <<e>>) = Range(outgoing_queue_) \cup Range(<<e>>)
      BY <1>1, <1>5, RangeOfJoin
    <3> QED BY <1>4, <1>5, <3>1
  <2>2. 1..pushed + 1 = (1..pushed) \cup {pushed + 1}
    BY <1>1
  <2> QED BY <1>6, <2>1, <2>2 DEF e
<1>11. Holding(input, c, sent, mid)'
  BY <1>0, <1>6 DEF input
<1>12. Balance(c)'
  BY <1>0, <1>8, <1>9, <1>10, <1>11 DEF Balance
<1> QED BY <1>0, <1>2, <1>12 DEF Balanced

\* The client takes what is first, and keeps it unless it answers a heartbeat.
LEMMA ReceiveBalance ==
    ASSUME TypeOK, Balanced, Receive
    PROVE  Balanced'
<1>0. /\ net # <<>> /\ net' = Tail(net)
      /\ received' = IF Head(net) = Response(Heartbeat) THEN received
                     ELSE Append(received, Head(net))
      /\ UNCHANGED <<recv, read_buff_, write_buff_, outgoing_queue_, sent, mid, pushed>>
  BY DEF Receive, conn
<1>1. /\ received \in Seq(Items) /\ net \in Seq(Items)
      /\ write_buff_ \in Seq(Items) /\ outgoing_queue_ \in Seq(Items)
      /\ output \in Seq(Items) /\ pushed \in Nat /\ sent \in Nat
  BY BufferTypes
<1>2. /\ Head(net) \in Items /\ Tail(net) \in Seq(Items)
      /\ net = <<Head(net)>> \o Tail(net)
      /\ Append(received, Head(net)) \o Tail(net) = received \o net
  BY <1>0, <1>1, Joins
<1>3. CASE Head(net) # Response(Heartbeat)
  <2>1. output' = output
    BY <1>0, <1>2, <1>3 DEF output
  <2> QED BY <1>0, <2>1, SameBalance DEF input
<1>4. CASE Head(net) = Response(Heartbeat)
  <2> DEFINE e == Head(net)
             b == (Tail(net) \o write_buff_) \o outgoing_queue_
  <2>1. PICK c \in 0..sent : Balance(c)
    BY DEF Balanced
  <2>2. b \in Seq(Items) /\ e \in Items /\ Tail(net) \o write_buff_ \in Seq(Items)
    BY <1>1, <1>2, JoinFacts
  <2>3. output' = received \o b
    <3>1. output' = ((received \o Tail(net)) \o write_buff_) \o outgoing_queue_
      BY <1>0, <1>4 DEF output
    <3>2. (received \o Tail(net)) \o write_buff_ = received \o (Tail(net) \o write_buff_)
      BY <1>1, <1>2, Assoc
    <3>3. (received \o (Tail(net) \o write_buff_)) \o outgoing_queue_ = received \o b
      <4>1. /\ received \in Seq(Items) /\ Tail(net) \o write_buff_ \in Seq(Items)
            /\ outgoing_queue_ \in Seq(Items)
        BY <1>1, <2>2
      <4> QED BY <4>1, Assoc
    <3> QED BY <3>1, <3>2, <3>3
  <2>4. output = received \o (<<e>> \o b)
    <3>1. <<e>> \in Seq(Items)
      BY <2>2
    <3>2. <<e>> \o (Tail(net) \o write_buff_) = net \o write_buff_
      BY <1>1, <1>2, <3>1, Joins
    <3>3. <<e>> \o b = (net \o write_buff_) \o outgoing_queue_
      BY <1>1, <2>2, <3>1, <3>2, Joins
    <3>4. net \o write_buff_ \in Seq(Items)
      BY <1>1, JoinFacts
    <3>5. output = (received \o (net \o write_buff_)) \o outgoing_queue_
      BY <1>1, Joins DEF output
    <3>6. (received \o (net \o write_buff_)) \o outgoing_queue_
              = received \o ((net \o write_buff_) \o outgoing_queue_)
      <4>1. /\ received \in Seq(Items) /\ net \o write_buff_ \in Seq(Items)
            /\ outgoing_queue_ \in Seq(Items)
        BY <1>1, <3>4
      <4> QED BY <4>1, Assoc
    <3> QED BY <3>3, <3>5, <3>6
  <2> HIDE DEF b
  <2>5. /\ InOrder(output) /\ Range(output) \cup {Response(Heartbeat)} = Expected(c, pushed)
        /\ Holding(input, c, sent, mid)
        /\ Range(outgoing_queue_) \subseteq {Push(m) : m \in 1..pushed}
    BY <2>1 DEF Balance
  <2>6. InOrder(output') /\ Range(output) = Range(output') \cup {e}
    BY <1>1, <2>2, <2>3, <2>4, <2>5, DropItem
  <2>7. Balance(c)'
    BY <1>0, <1>4, <2>5, <2>6 DEF Balance, input
  <2> QED BY <1>0, <2>1, <2>7 DEF Balanced
<1> QED BY <1>3, <1>4

\* write flushes the queue behind write_buff_ and moves a prefix to the socket.
LEMMA WriteBalance ==
    ASSUME TypeOK, Balanced, NEW w \in Workers, Write(w)
    PROVE  Balanced'
<1> DEFINE data == write_buff_ \o outgoing_queue_
           room == SendBuffer - Len(net)
           n == IF closed THEN 0 ELSE IF Len(data) <= room THEN Len(data) ELSE room
           a == SubSeq(data, 1, n)
           b == SubSeq(data, n + 1, Len(data))
<1>0. /\ outgoing_queue_' = <<>> /\ write_buff_' = b /\ net' = net \o a
      /\ UNCHANGED <<recv, read_buff_, received, sent, mid, pushed>>
  BY DEF Write, client
<1>1. /\ received \in Seq(Items) /\ net \in Seq(Items)
      /\ write_buff_ \in Seq(Items) /\ outgoing_queue_ \in Seq(Items)
  BY BufferTypes
<1>2. data \in Seq(Items) /\ Len(data) \in Nat
  BY <1>1, JoinFacts
<1>3. room \in Nat
  <2>1. Len(net) \in Nat /\ Len(net) <= SendBuffer /\ SendBuffer \in Nat
    BY <1>1, ConnectionAssumption DEF TypeOK
  <2> QED BY <2>1
<1> HIDE DEF data, room
<1>4. n \in 0..Len(data)
  BY <1>2, <1>3
<1> HIDE DEF n
<1>5. a \in Seq(Items) /\ b \in Seq(Items) /\ a \o b = data
  <2>1. a \in Seq(Items) /\ Len(a) = n /\ \A i \in 1..n : a[i] = data[i]
    <3>1. n \in Nat /\ n <= Len(data) /\ \A i \in 1..n : i \in 1..Len(data) /\ data[i] \in Items
      BY <1>2, <1>4
    <3> QED BY <1>2, <3>1
  <2>2. b \in Seq(Items) /\ Len(b) = Len(data) - n /\ \A i \in 1..Len(data) - n : b[i] = data[i + n]
    <3>1. n + 1 = 1 + n
      BY <1>4
    <3> QED BY <1>2, <1>4, <3>1, DropFacts
  <2> HIDE DEF a, b
  <2>3. /\ a \o b \in Seq(Items) /\ Len(a \o b) = Len(a) + Len(b)
        /\ \A i \in 1..Len(a) : (a \o b)[i] = a[i]
        /\ \A i \in 1..Len(b) : (a \o b)[Len(a) + i] = b[i]
    <3>1. a \in Seq(Items) /\ b \in Seq(Items)
      BY <2>1, <2>2
    <3> QED BY <3>1
  <2>4. Len(a \o b) = Len(data)
    BY <1>2, <1>4, <2>1, <2>2, <2>3
  <2>5. ASSUME NEW i \in 1..Len(data) PROVE (a \o b)[i] = data[i]
    <3>1. CASE i \in 1..n
      BY <2>1, <2>3, <3>1
    <3>2. CASE i \notin 1..n
      <4>1. i - n \in 1..Len(data) - n /\ i = n + (i - n) /\ i = (i - n) + n
        BY <1>2, <1>4, <3>2
      <4> QED BY <2>1, <2>2, <2>3, <4>1
    <3> QED BY <3>1, <3>2
  <2> QED BY <1>2, <2>1, <2>2, <2>3, <2>4, <2>5, SeqEqual
<1> HIDE DEF a, b
<1>6. output' = output
  <2>1. output = (received \o net) \o data
    BY <1>1, Joins DEF output, data
  <2>2. (received \o (net \o a)) \o b = ((received \o net) \o a) \o b
    BY <1>1, <1>5, Assoc
  <2>3. ((received \o net) \o a) \o b = (received \o net) \o (a \o b)
    <3>1. received \o net \in Seq(Items)
      BY <1>1, JoinFacts
    <3> QED BY <1>5, <3>1, Assoc
  <2>4. (received \o (net \o a)) \o b \in Seq(Items)
    <3>1. net \o a \in Seq(Items)
      BY <1>1, <1>5, JoinFacts
    <3>2. received \o (net \o a) \in Seq(Items)
      BY <1>1, <3>1, JoinFacts
    <3> QED BY <1>5, <3>2, JoinFacts
  <2>5. ((received \o (net \o a)) \o b) \o <<>> = (received \o (net \o a)) \o b
    BY <2>4, ConcatEmptySeq
  <2>6. output' = ((received \o (net \o a)) \o b) \o <<>>
    BY <1>0 DEF output
  <2> QED BY <1>5, <2>1, <2>2, <2>3, <2>5, <2>6
<1>7. Range(outgoing_queue_)' = {}
  <2>1. DOMAIN <<>> = {}
    OBVIOUS
  <2> QED BY <1>0, <2>1 DEF Range
<1>8. input' = input
  BY <1>0 DEF input
<1> QED BY <1>0, <1>6, <1>7, <1>8, SameBalance

\* process takes one whole frame, request c + 1 or a heartbeat, and answers it
\* before the pushes that are queued, or drops it if it does not parse.
LEMMA ProcessBalance ==
    ASSUME TypeOK, Balanced, NEW w \in Workers, Process(w)
    PROVE  Balanced'
<1>0. UNCHANGED <<recv, net, outgoing_queue_, received, sent, mid, pushed>>
  BY DEF Process, client
<1>1. /\ received \in Seq(Items) /\ net \in Seq(Items)
      /\ write_buff_ \in Seq(Items) /\ outgoing_queue_ \in Seq(Items)
      /\ read_buff_ \in Seq(Nat) /\ recv \in Seq(Nat) /\ input \in Seq(Nat)
      /\ sent \in Nat /\ pushed \in Nat /\ mid \in BOOLEAN
  BY BufferTypes
<1>2. CASE ~HasFrame(read_buff_)
  <2>1. UNCHANGED <<read_buff_, write_buff_>>
    BY <1>2 DEF Process
  <2> QED BY <1>0, <2>1, SameBalance DEF input, output
<1>3. CASE HasFrame(read_buff_)
  <2> DEFINE k == FrameLen(read_buff_)
             h == Head(read_buff_)
             a == (received \o net) \o write_buff_
  <2>1. PICK c \in 0..sent : Balance(c)
    BY DEF Balanced
  <2>2. /\ c \in Nat /\ c <= sent /\ Holding(input, c, sent, mid)
        /\ InOrder(output) /\ Range(output) \cup {Response(Heartbeat)} = Expected(c, pushed)
        /\ Range(outgoing_queue_) \subseteq {Push(m) : m \in 1..pushed}
    BY <1>1, <2>1 DEF Balance
  <2>3. /\ read_buff_' = SubSeq(read_buff_, 1 + k, Len(read_buff_))
        /\ write_buff_' = IF h \in Unparsable THEN write_buff_ ELSE Append(write_buff_, Response(h))
    BY <1>3 DEF Process
  <2>4. /\ read_buff_ # <<>> /\ Len(read_buff_) >= k
        /\ k = IF h = Heartbeat THEN 1 ELSE 2
    BY <1>3 DEF HasFrame, FrameLen
  <2> HIDE DEF k
  <2>5. k \in 0..Len(read_buff_)
    BY <1>1, <2>4
  <2>6. input' = SubSeq(input, 1 + k, Len(input))
    BY <1>0, <1>1, <2>3, <2>5, DropOfJoin DEF input
  <2>7. input # <<>> /\ input[1] = h /\ Len(input) >= k
    <3>1. /\ Len(input) = Len(read_buff_) + Len(recv)
          /\ Len(read_buff_) \in Nat /\ Len(recv) \in Nat
          /\ \A i \in 1..Len(read_buff_) : input[i] = read_buff_[i]
      BY <1>1, JoinFacts DEF input
    <3>2. Len(read_buff_) >= 1 /\ h = read_buff_[1]
      BY <1>1, <2>4
    <3>3. 1 \in 1..Len(read_buff_) /\ Len(input) >= 1 /\ Len(input) >= k
      BY <2>4, <2>5, <3>1, <3>2
    <3>4. input # <<>>
      BY <1>1, <3>3
    <3> QED BY <3>1, <3>2, <3>3, <3>4
  <2>8. h \in Nat
    BY <1>1, <2>4
  <2>9. a \in Seq(Items) /\ output = a \o outgoing_queue_
    <3>1. received \o net \in Seq(Items)
      BY <1>1, JoinFacts
    <3> QED BY <1>1, <3>1, JoinFacts DEF output
  <2> HIDE DEF h
  \* The answer to h is put between the two.
  <2>10. ASSUME h \notin Unparsable PROVE output' = (a \o <<Response(h)>>) \o outgoing_queue_
    <3>1. write_buff_' = Append(write_buff_, Response(h)) /\ Response(h) \in Items
      BY <2>3, <2>8, <2>10, ItemFacts
    <3>2. Append(write_buff_, Response(h)) = write_buff_ \o <<Response(h)>>
      <4>1. write_buff_ \in Seq(Items) /\ Response(h) \in Items
        BY <1>1, <3>1
      <4> QED BY <4>1
    <3>3. <<Response(h)>> \in Seq(Items) /\ received \o net \in Seq(Items)
      BY <1>1, <3>1, JoinFacts, OneItem
    <3>4. (received \o net) \o (write_buff_ \o <<Response(h)>>) = a \o <<Response(h)>>
      BY <1>1, <3>3, Assoc
    <3> QED BY <1>0, <3>1, <3>2, <3>4 DEF output
  <2>11. ASSUME h \in Unparsable PROVE output' = output
    BY <1>0, <2>3, <2>11 DEF output
  <2> HIDE DEF a
  <2>12. ASSUME h \notin Unparsable, \A x \in Expected(c, pushed) : Precedes(x, Response(h))
         PROVE  InOrder(output') /\ Range(output') = Range(output) \cup {Response(h)}
    <3>1. Response(h) \in Items
      BY <2>8, ItemFacts
    <3>2. \A x \in Range(a) : Precedes(x, Response(h))
      <4>1. Range(a) \subseteq Range(output)
        BY <1>1, <2>9, RangeOfJoin
      <4> QED BY <2>2, <2>12, <4>1
    <3>3. \A y \in Range(outgoing_queue_) : Precedes(Response(h), y)
      BY <2>2, ItemFacts DEF Precedes
    <3>4. InOrder(a \o outgoing_queue_)
      BY <2>2, <2>9
    <3>5. /\ InOrder((a \o <<Response(h)>>) \o outgoing_queue_)
          /\ Range((a \o <<Response(h)>>) \o outgoing_queue_)
                = Range(a \o outgoing_queue_) \cup {Response(h)}
      BY <1>1, <2>9, <3>1, <3>2, <3>3, <3>4, InsertItem
    <3> QED BY <2>9, <2>10, <2>12, <3>5
  <2>13. ASSUME NEW d \in 0..sent, Holding(input', d, sent, mid), InOrder(output'),
                Range(output') \cup {Response(Heartbeat)} = Expected(d, pushed)
         PROVE  Balanced'
    <3>1. Balance(d)'
      BY <1>0, <2>2, <2>13 DEF Balance
    <3> QED BY <1>0, <3>1 DEF Balanced
  <2>14. CASE h = Heartbeat
    <3>1. Holding(input', c, sent, mid)
      <4>1. input' = SubSeq(input, 2, Len(input))
        BY <2>4, <2>6, <2>14
      <4>2. input[1] = Heartbeat
        BY <2>7, <2>14
      <4> QED BY <1>1, <2>2, <2>7, <4>1, <4>2, TakeHeartbeat
    <3>2. h \notin Unparsable
      BY <2>14, ConnectionAssumption DEF Heartbeat
    <3>3. \A x \in Expected(c, pushed) : Precedes(x, Response(h))
      BY <1>1, <2>2, <2>14, NewResponse
    <3>4. InOrder(output') /\ Range(output') = Range(output) \cup {Response(Heartbeat)}
      BY <2>12, <2>14, <3>2, <3>3
    <3> QED BY <2>2, <2>13, <3>1, <3>4
  <2>15. CASE h # Heartbeat
    <3>1. h = c + 1 /\ c + 1 <= sent /\ Holding(input', c + 1, sent, mid)
      <4>1. input' = SubSeq(input, 3, Len(input)) /\ Len(input) >= 2
        BY <2>4, <2>6, <2>7, <2>15
      <4>2. input[1] # Heartbeat
        BY <2>7, <2>15
      <4>3. /\ input[1] = c + 1 /\ c + 1 <= sent
            /\ Holding(SubSeq(input, 3, Len(input)), c + 1, sent, mid)
        BY <1>1, <2>2, <4>1, <4>2, TakeRequest
      <4> QED BY <2>7, <4>1, <4>3
    <3>2. c + 1 \in 0..sent
      BY <1>1, <2>2, <3>1
    <3>3. CASE h \in Unparsable
      <4>1. Expected(c + 1, pushed) = Expected(c, pushed)
        BY <1>1, <2>2, <3>1, <3>3, NextExpected
      <4> QED BY <2>2, <2>11, <2>13, <3>1, <3>2, <3>3, <4>1
    <3>4. CASE h \notin Unparsable
      <4>1. Expected(c + 1, pushed) = Expected(c, pushed) \cup {Response(c + 1)}
        BY <1>1, <2>2, <3>1, <3>4, NextExpected
      <4>2. \A x \in Expected(c, pushed) : Precedes(x, Response(h))
        BY <1>1, <2>2, <3>1, NewResponse
      <4>3. InOrder(output') /\ Range(output') = Range(output) \cup {Response(c + 1)}
        BY <2>12, <3>1, <3>4, <4>2
      <4>4. Range(output') \cup {Response(Heartbeat)} = Expected(c + 1, pushed)
        BY <2>2, <4>1, <4>3
      <4> QED BY <2>13, <3>1, <3>2, <4>3, <4>4
    <3> QED BY <3>3, <3>4
  <2> QED BY <2>14, <2>15
<1> QED BY <1>2, <1>3

LEMMA InitBalanced == Init => Balanced
<1> SUFFICES ASSUME Init PROVE Balanced
  OBVIOUS
<1>1. input = <<>> /\ output = <<>> /\ outgoing_queue_ = <<>>
  <2>1. /\ read_buff_ = <<>> /\ recv = <<>> /\ received = <<>> /\ net = <<>>
        /\ write_buff_ = <<>> /\ outgoing_queue_ = <<>>
    BY DEF Init
  <2>2. <<>> \o <<>> = <<>>
    OBVIOUS
  <2> QED BY <2>1, <2>2 DEF input, output
<1>2. sent = 0 /\ mid = FALSE /\ pushed = 0
  BY DEF Init
<1>3. Len(<<>>) = 0 /\ DOMAIN <<>> = {} /\ 1..0 = {} /\ 0 + 1..0 = {} /\ 0 \in 0..0 /\ 0..0 = {0}
  OBVIOUS
<1>4. Holding(<<>>, 0, 0, FALSE)
  BY <1>3 DEF Holding
<1>5. InOrder(<<>>) /\ Range(<<>>) = {}
  BY <1>3 DEF InOrder, Range
<1>6. Expected(0, 0) = {Response(Heartbeat)}
  <2>1. (0..0) \ Unparsable = {0}
    BY <1>3, ConnectionAssumption
  <2>2. {Push(m) : m \in 1..0} = {}
    BY <1>3
  <2>3. {Response(i) : i \in {0}} = {Response(0)}
    OBVIOUS
  <2> QED BY <2>1, <2>2, <2>3 DEF Expected, Heartbeat
<1>7. Balance(0)
  BY <1>1, <1>2, <1>4, <1>5, <1>6 DEF Balance
<1> QED BY <1>2, <1>3, <1>7 DEF Balanced

\* Every step keeps the balance.
LEMMA NextBalanced == TypeOK /\ Balanced /\ [Next]_vars => Balanced'
<1> SUFFICES ASSUME TypeOK, Balanced, [Next]_vars PROVE Balanced'
  OBVIOUS
<1>1. ASSUME UNCHANGED <<recv, net, read_buff_, write_buff_, outgoing_queue_, client, pushed>>
      PROVE  Balanced'
  BY <1>1, SameBalance DEF client, input, output
<1>2. ASSUME NEW w \in Workers, Read(w) PROVE Balanced'
  <2>1. UNCHANGED <<net, write_buff_, outgoing_queue_, client, pushed>>
    BY <1>2 DEF Read
  <2>2. input' = input
    <3>1. CASE read_buff_' = read_buff_ \o recv /\ recv' = <<>>
      <4>1. (read_buff_ \o recv) \o <<>> = read_buff_ \o recv
        BY BufferTypes, ConcatEmptySeq DEF input
      <4> QED BY <3>1, <4>1 DEF input
    <3>2. CASE UNCHANGED <<recv, read_buff_>>
      BY <3>2 DEF input
    <3> QED BY <1>2, <3>1, <3>2 DEF Read
  <2> QED BY <2>1, <2>2, SameBalance DEF client, output
<1>3. ASSUME NEW w \in Workers, Work(w) PROVE Balanced'
  <2>1. CASE Rearm(w) \/ UpdateEvents(w)
    BY <1>1, <2>1 DEF Rearm, UpdateEvents, conn
  <2>2. CASE AfterWrite(w)
    BY <1>1, <2>2 DEF AfterWrite
  <2>3. CASE Process(w)
    BY <2>3, ProcessBalance
  <2>4. CASE Write(w)
    BY <2>4, WriteBalance
  <2> QED BY <1>2, <1>3, <2>1, <2>2, <2>3, <2>4 DEF Work
<1>4. ASSUME Dispatch \/ \E w \in Workers : TakeTask(w) PROVE Balanced'
  BY <1>1, <1>4 DEF Dispatch, TakeTask, conn
<1>5. ASSUME NEW p \in Pushers, EnqueueMessage(p) \/ Notify(p) PROVE Balanced'
  BY <1>1, <1>5, EnqueueBalance DEF Notify, NotifyCheck, NotifyModFd, NotifyUpdate, conn
<1>6. ASSUME SendRequest \/ SendRest \/ Receive \/ SendHeartbeat PROVE Balanced'
  BY <1>6, SendBalance, ReceiveBalance
<1>7. CASE UNCHANGED vars
  BY <1>1, <1>7 DEF vars, conn
<1> QED BY <1>3, <1>4, <1>5, <1>6, <1>7 DEF Next

\* The balance says of each number whether it is answered or pushed.
LEMMA BalancedIsConserved == TypeOK /\ Balanced => Conserved
<1> SUFFICES ASSUME TypeOK, Balanced PROVE Conserved
  OBVIOUS
<1> DEFINE answered == { i \in 1..MaxRequests : Response(i) \in Range(output) }
<1>1. PICK c \in 0..sent : Balance(c)
  BY DEF Balanced
<1>2. InOrder(output) /\ Range(output) \cup {Response(Heartbeat)} = Expected(c, pushed)
  BY <1>1 DEF Balance
<1>3. pushed \in 0..MaxPushes /\ sent \in 0..MaxRequests /\ MaxRequests \in Nat /\ MaxPushes \in Nat
  BY ConnectionAssumption DEF TypeOK
<1>4. 0 \notin 1..MaxRequests /\ 1..pushed \subseteq 1..MaxPushes
  BY <1>3
<1>5. \A m \in 1..MaxPushes : Push(m) \in Range(output) <=> m \in 1..pushed
  BY <1>2, ItemFacts DEF Expected
<1>6. \A i \in 1..MaxRequests : Response(i) \in Range(output) <=> i \in (0..c) \ Unparsable
  BY <1>2, <1>4, ItemFacts DEF Expected, Heartbeat
<1>7. \A i \in 1..MaxRequests : i \in 0..c => i \in 1..sent
  BY <1>3
<1>8. \A n \in 1..MaxRequests : \A k \in 1..n : n \in 0..c => k \in 0..c /\ k \in 1..MaxRequests
  BY <1>3
<1>9. { m \in 1..MaxPushes : Push(m) \in Range(output) } = 1..pushed
  BY <1>4, <1>5
<1>10. answered \subseteq (1..sent) \ Unparsable
  BY <1>6, <1>7
<1>11. \A n \in answered : (1..n) \ Unparsable \subseteq answered
  BY <1>6, <1>8
<1> QED BY <1>2, <1>9, <1>10, <1>11 DEF Conserved, output

\* Nothing that the server is to send is lost, duplicated or reordered (process,
\* enqueue_message, flush_pending_to_buffer and write of TcpConnection): from the queue
\* and the write buffer to the client, pushes are all there and in order, and the
\* responses are those of the requests so far, in order, except of frames that do not
\* parse.  For any number of workers and pushers, also when several are on the
\* connection at once.
THEOREM NothingIsLost == Spec => []Conserved
<1>1. Init /\ [][Next]_vars /\ []TypeOK => []Balanced
  BY InitBalanced, NextBalanced, PTL
<1> QED BY <1>1, BalancedIsConserved, TypeCorrect, PTL DEF Spec

=============================================================================
