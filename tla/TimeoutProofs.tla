---------------------------- MODULE TimeoutProofs ----------------------------
(***************************************************************************)
(* Proofs about the two components that keep time: the requests of the     *)
(* client (NetworkManager) and the timers of the server's connections      *)
(* (HeapTimer), for any commands, connections, timeouts and clocks.        *)
(*                                                                         *)
(* NetworkManager.  Connect never assigns to a joinable thread while no    *)
(* connection was lost, and without heartbeats and timeouts the envelope   *)
(* that ends a wait answers the request that waits.  Neither is inductive. *)
(* The first needs that the flags and the threads agree (Joined).  The     *)
(* second needs that the only envelope on its way, or in the response      *)
(* slot, that is no push is the request that waits, that there is one at   *)
(* most, and none once the wait is over (OneOnItsWay).                     *)
(*                                                                         *)
(* HeapTimer.  The heap is ordered after every operation, and the wait     *)
(* that GetNextTick returns ends when the first timer expires.  A round of *)
(* SiftUp or SiftDown leaves the heap in order but for one node, whose     *)
(* children come after its parent (OrderedAbove, OrderedBelow); the rounds *)
(* of a loop are a function of their number, and what holds of each        *)
(* follows by taking the least that breaks it (LeastNatural, Induction).   *)
(***************************************************************************)
EXTENDS NetworkManager, HeapTimer, WellFoundedInduction, TLAPS

\* A leaf is tried with Zenon first: most need no arithmetic.
USE ZenonT(5), SMTT(30)

----------------------------------------------------------------------------
(* NetworkManager.                                                         *)

\* While no connection was lost: without a connection there is no thread to join, with
\* one there is a link, and Disconnect has told the threads to stop.
Joined ==
    losses = 0 =>
        /\ ui # "crashed" /\ link # "lost"
        /\ ui = "joining" => ~running_
        /\ ui \in {"idle", "waiting"} /\ connected_ => link = "up"
        /\ ui \in {"idle", "waiting"} /\ ~connected_ => listener = "none" /\ heartbeat = "none"

\* s holds nothing but pushes.
Pushes(s) == \A i \in 1 .. Len(s) : s[i] = Push

\* s holds pushes and, once at most, e.
PushesAnd(s, e) ==
    /\ \A i \in 1 .. Len(s) : s[i] \in {Push, e}
    /\ \A i, j \in 1 .. Len(s) : s[i] = e /\ s[j] = e => i = j

\* Where the request that waits may be: on the way to the server, on the way back, or
\* in the slot, and nothing else is in these places.
OneOnItsWay ==
    beats = 0 /\ timeouts = 0 =>
        /\ ui \in {"idle", "joining"} => toServer = <<>> /\ Pushes(toClient)
        /\ ui = "waiting" =>
              \/ ~has_response_ /\ toServer = <<request>> /\ Pushes(toClient)
              \/ ~has_response_ /\ toServer = <<>> /\ PushesAnd(toClient, request)
              \/ has_response_ /\ response = request /\ toServer = <<>> /\ Pushes(toClient)

\* The inductive invariant.
IInv == TypeOK /\ Joined /\ OneOnItsWay

----------------------------------------------------------------------------
LEMMA Beats == Beat \in Envelope /\ Push \in Envelope /\ Beat # Push
BY NetworkManagerAssumption DEF Beat, Push, Envelope

LEMMA InitIInv == Init => IInv
<1> SUFFICES ASSUME Init PROVE IInv
  OBVIOUS
<1>1. <<>> \in Seq(Envelope) /\ <<>> \in Seq(Envelope \ {Push}) /\ Len(<<>>) = 0
  OBVIOUS
<1>2. TypeOK
  <2>1. connected_ \in BOOLEAN /\ running_ \in BOOLEAN /\ has_response_ \in BOOLEAN /\ loggedIn \in BOOLEAN
    BY DEF Init
  <2>2. MaxRequests \in Nat
    BY NetworkManagerAssumption
  <2> QED BY <1>1, <2>1, <2>2, Beats DEF Init, TypeOK
<1>3. Joined /\ OneOnItsWay
  BY <1>1 DEF Init, Joined, OneOnItsWay, Pushes
<1> QED BY <1>2, <1>3 DEF IInv

\* What appending to and taking from the wires does to them.
LEMMA WireFacts ==
    ASSUME NEW s \in Seq(Envelope), NEW e \in Envelope
    PROVE  /\ Append(s, e) \in Seq(Envelope)
           /\ s # <<>> => Head(s) \in Envelope /\ Tail(s) \in Seq(Envelope)
           /\ Pushes(s) => Pushes(Append(s, Push))
           /\ Pushes(s) /\ e # Push => PushesAnd(Append(s, e), e)
           /\ Pushes(s) /\ s # <<>> => Pushes(Tail(s)) /\ Head(s) = Push
           /\ PushesAnd(s, e) /\ e # Push => PushesAnd(Append(s, Push), e)
           /\ PushesAnd(s, e) /\ s # <<>> /\ Head(s) = Push => PushesAnd(Tail(s), e)
           /\ PushesAnd(s, e) /\ s # <<>> /\ Head(s) # Push => Head(s) = e /\ Pushes(Tail(s))
<1>1. /\ Append(s, e) \in Seq(Envelope)
      /\ s # <<>> => Head(s) \in Envelope /\ Tail(s) \in Seq(Envelope)
  OBVIOUS
<1>2. ASSUME NEW x \in Envelope
      PROVE  /\ Len(Append(s, x)) = Len(s) + 1 /\ Len(s) \in Nat
             /\ Append(s, x)[Len(s) + 1] = x
             /\ \A i \in 1 .. Len(s) : Append(s, x)[i] = s[i]
  OBVIOUS
<1>3. ASSUME s # <<>>
      PROVE  /\ Len(Tail(s)) = Len(s) - 1 /\ Len(s) \in Nat /\ Len(s) >= 1 /\ Head(s) = s[1]
             /\ \A i \in 1 .. Len(Tail(s)) : Tail(s)[i] = s[i + 1]
  BY <1>3
<1>4. Pushes(s) => Pushes(Append(s, Push))
  BY <1>2, Beats DEF Pushes
<1>5. Pushes(s) /\ e # Push => PushesAnd(Append(s, e), e)
  BY <1>2 DEF Pushes, PushesAnd
<1>6. Pushes(s) /\ s # <<>> => Pushes(Tail(s)) /\ Head(s) = Push
  BY <1>3 DEF Pushes
<1>7. PushesAnd(s, e) /\ e # Push => PushesAnd(Append(s, Push), e)
  BY <1>2, Beats DEF PushesAnd
<1>8. PushesAnd(s, e) /\ s # <<>> /\ Head(s) = Push => PushesAnd(Tail(s), e)
  BY <1>3 DEF PushesAnd
<1>9. PushesAnd(s, e) /\ s # <<>> /\ Head(s) # Push => Head(s) = e /\ Pushes(Tail(s))
  BY <1>3 DEF PushesAnd, Pushes
<1> QED BY <1>1, <1>4, <1>5, <1>6, <1>7, <1>8, <1>9

----------------------------------------------------------------------------
(* Each conjunct of the invariant, step by step.                           *)

LEMMA NextTypeOK == TypeOK /\ [Next]_vars => TypeOK'
<1> SUFFICES ASSUME TypeOK, [Next]_vars PROVE TypeOK'
  OBVIOUS
<1> USE NetworkManagerAssumption DEF TypeOK, flags, slot, wires, threads, counts
<1>0. /\ <<>> \in Seq(Envelope) /\ <<>> \in Seq(Envelope \ {Push})
      /\ \A s \in Seq(Envelope \ {Push}) : \A e \in Envelope \ {Push} :
             /\ Append(s, e) \in Seq(Envelope \ {Push})
             /\ s # <<>> => Head(s) \in Envelope \ {Push} /\ Tail(s) \in Seq(Envelope \ {Push})
  OBVIOUS
<1>1. CASE Connect
  BY <1>0, <1>1 DEF Connect
<1>2. CASE TakeResponse \/ TimeOut \/ Logout \/ Join
  <2>1. loggedIn' \in BOOLEAN /\ connected_' \in BOOLEAN /\ running_' \in BOOLEAN
    BY <1>2 DEF TakeResponse, TimeOut, Logout, Join
  <2>2. has_response_' \in BOOLEAN
    BY <1>2 DEF TakeResponse, TimeOut, Logout, Join
  <2>3. CASE TakeResponse \/ TimeOut
    <3>1. /\ UNCHANGED <<response, request, link, toServer, toClient, listener, heartbeat>>
          /\ UNCHANGED <<requests, beats, losses>> /\ timeouts' \in Nat /\ ui' = "idle"
      <4>1. CASE TakeResponse
        BY <4>1 DEF TakeResponse
      <4>2. CASE TimeOut
        BY <4>2 DEF TimeOut
      <4> QED BY <2>3, <4>1, <4>2
    <3> QED BY <2>1, <2>2, <3>1
  <2>4. CASE Logout \/ Join
    BY <1>0, <2>1, <2>2, <2>4 DEF Logout, Join
  <2> QED BY <1>2, <2>3, <2>4
<1>3. ASSUME NEW cmd \in Cmds, SendRequest(cmd) PROVE TypeOK'
  <2>1. request' \in Envelope \ {Push} /\ requests' \in 0 .. MaxRequests
    BY <1>3 DEF SendRequest, Envelope, Push
  <2> QED BY <1>0, <1>3, <2>1 DEF SendRequest, ClearResponse
<1>4. CASE Receive
  <2>1. Head(toClient) \in Envelope /\ Tail(toClient) \in Seq(Envelope)
    BY <1>4, WireFacts, Beats DEF Receive
  <2>2. has_response_' \in BOOLEAN /\ response' \in Envelope \ {Push}
    BY <1>4, <2>1 DEF Receive
  <2> QED BY <1>4, <2>1, <2>2 DEF Receive
<1>5. CASE ReceiveEnd \/ HeartbeatEnd \/ ConnectionLost
  <2>1. connected_' \in BOOLEAN /\ running_' \in BOOLEAN
    BY <1>5 DEF ReceiveEnd, HeartbeatEnd, ConnectionLost
  <2>2. has_response_' \in BOOLEAN /\ loggedIn' \in BOOLEAN
    BY <1>5 DEF ReceiveEnd, HeartbeatEnd, ConnectionLost
  <2>3. /\ UNCHANGED <<response, request, toServer, toClient, ui, requests, beats, timeouts>>
        /\ losses' \in Nat /\ link' \in {"none", "up", "lost"}
        /\ listener' \in {"none", "running", "ended"} /\ heartbeat' \in {"none", "running", "ended"}
    BY <1>5 DEF ReceiveEnd, HeartbeatEnd, ConnectionLost
  <2> QED BY <2>1, <2>2, <2>3
<1>6. CASE SendHeartbeat
  BY <1>0, <1>6, Beats DEF SendHeartbeat
<1>7. CASE ServerAnswers
  BY <1>0, <1>7, WireFacts, Beats DEF ServerAnswers
<1>8. CASE ServerPushes
  BY <1>8, WireFacts, Beats DEF ServerPushes
<1>9. CASE UNCHANGED vars
  BY <1>9 DEF vars
<1> QED BY <1>1, <1>2, <1>3, <1>4, <1>5, <1>6, <1>7, <1>8, <1>9 DEF Next

LEMMA NextJoined == TypeOK /\ Joined /\ [Next]_vars => Joined'
<1> SUFFICES ASSUME TypeOK, Joined, [Next]_vars PROVE Joined'
  OBVIOUS
<1> USE DEF TypeOK, Joined, flags, wires, threads, counts
<1>1. CASE Connect
  BY <1>1 DEF Connect
<1>2. CASE TakeResponse \/ TimeOut \/ Logout \/ Join
  BY <1>2 DEF TakeResponse, TimeOut, Logout, Join
<1>3. ASSUME NEW cmd \in Cmds, SendRequest(cmd) PROVE Joined'
  BY <1>3 DEF SendRequest
<1>4. CASE Receive \/ SendHeartbeat \/ ServerAnswers \/ ServerPushes
  BY <1>4 DEF Receive, SendHeartbeat, ServerAnswers, ServerPushes
<1>5. CASE ReceiveEnd \/ HeartbeatEnd \/ ConnectionLost
  BY <1>5 DEF ReceiveEnd, HeartbeatEnd, ConnectionLost
<1>6. CASE UNCHANGED vars
  BY <1>6 DEF vars
<1> QED BY <1>1, <1>2, <1>3, <1>4, <1>5, <1>6 DEF Next

LEMMA NextOneOnItsWay == IInv /\ [Next]_vars => OneOnItsWay'
<1> SUFFICES ASSUME IInv, [Next]_vars, beats' = 0, timeouts' = 0
             PROVE  /\ ui' \in {"idle", "joining"} => toServer' = <<>> /\ Pushes(toClient')
                    /\ ui' = "waiting" =>
                         \/ ~has_response_' /\ toServer' = <<request'>> /\ Pushes(toClient')
                         \/ ~has_response_' /\ toServer' = <<>> /\ PushesAnd(toClient', request')
                         \/ /\ has_response_' /\ response' = request'
                            /\ toServer' = <<>> /\ Pushes(toClient')
  BY DEF OneOnItsWay
<1> USE DEF IInv, flags, slot, wires, threads, counts
<1>0. /\ TypeOK /\ OneOnItsWay /\ toClient \in Seq(Envelope) /\ request \in Envelope
      /\ request # Push
  BY DEF TypeOK
<1>1. CASE Connect
  <2>1. Pushes(<<>>)
    BY DEF Pushes
  <2> QED BY <1>0, <1>1, <2>1 DEF Connect, OneOnItsWay, TypeOK
<1>2. CASE TimeOut
  BY <1>0, <1>2 DEF TimeOut, TypeOK
<1>3. CASE TakeResponse \/ Logout \/ Join
  <2>1. Pushes(<<>>)
    BY DEF Pushes
  <2> QED BY <1>0, <1>3, <2>1 DEF TakeResponse, Logout, Join, OneOnItsWay
<1>4. ASSUME NEW cmd \in Cmds, SendRequest(cmd)
      PROVE  ui' \in {"idle", "waiting"} /\ ~has_response_' /\ Pushes(toClient')
             /\ toServer' = IF ui' = "waiting" THEN <<request'>> ELSE <<>>
  <2>1. \A r : Append(<<>>, r) = <<r>>
    OBVIOUS
  <2> QED BY <1>0, <1>4, <2>1 DEF SendRequest, ClearResponse, OneOnItsWay
<1>5. CASE Receive
  BY <1>0, <1>5, WireFacts DEF Receive, OneOnItsWay
<1>6. CASE ServerAnswers
  <2>1. \A r : Head(<<r>>) = r /\ Tail(<<r>>) = <<>> /\ <<r>> # <<>>
    OBVIOUS
  <2> QED BY <1>0, <1>6, <2>1, WireFacts DEF ServerAnswers, OneOnItsWay
<1>7. CASE ServerPushes
  BY <1>0, <1>7, WireFacts DEF ServerPushes, OneOnItsWay
<1>8. CASE SendHeartbeat
  BY <1>0, <1>8 DEF SendHeartbeat, TypeOK
<1>9. CASE ReceiveEnd \/ HeartbeatEnd \/ ConnectionLost \/ UNCHANGED vars
  BY <1>0, <1>9 DEF ReceiveEnd, HeartbeatEnd, ConnectionLost, vars, OneOnItsWay
<1> QED BY <1>1, <1>2, <1>3, <1>4, <1>5, <1>6, <1>7, <1>8, <1>9 DEF Next

----------------------------------------------------------------------------
\* The inductive invariant holds in every reachable state.
THEOREM IInvInvariant == Spec => []IInv
<1>1. IInv /\ [Next]_vars => IInv'
  BY NextTypeOK, NextJoined, NextOneOnItsWay DEF IInv
<1> QED BY InitIInv, <1>1, PTL DEF Spec

\* The variables of the client keep their types: no push is ever in the response slot.
THEOREM TypeCorrect == Spec => []TypeOK
<1>1. IInv => TypeOK
  BY DEF IInv
<1> QED BY <1>1, IInvInvariant, PTL

\* Connect never assigns to a joinable std::thread while no connection was lost.
THEOREM ReconnectingIsSafe == Spec => []ReconnectIsSafe
<1>1. IInv => ReconnectIsSafe
  BY DEF IInv, Joined, ReconnectIsSafe
<1> QED BY <1>1, IInvInvariant, PTL

\* SendRequestAndWait returns the response to its own request, as long as no heartbeat
\* was sent and no wait has timed out.
THEOREM ResponsesAreOwn == Spec => ResponseIsOwn
<1> DEFINE Own == beats = 0 /\ timeouts' = 0 /\ ui = "waiting" /\ ui' = "idle"
                      => result' = [ok |-> TRUE, n |-> request.n]
<1>1. ASSUME IInv, [Next]_vars PROVE [Own]_vars
  <2> SUFFICES ASSUME beats = 0, timeouts' = 0, ui = "waiting", ui' = "idle"
               PROVE  result' = [ok |-> TRUE, n |-> request.n]
    OBVIOUS
  <2>1. TakeResponse
    BY <1>1 DEF Next, Connect, TimeOut, Logout, Join, SendRequest, Receive, ReceiveEnd,
                SendHeartbeat, HeartbeatEnd, ServerAnswers, ServerPushes, ConnectionLost,
                vars, IInv, TypeOK
  <2>2. timeouts = 0 /\ has_response_
    BY <2>1 DEF TakeResponse, counts
  <2>3. response = request
    BY <1>1, <2>2 DEF IInv, OneOnItsWay
  <2> QED BY <2>1, <2>3 DEF TakeResponse, Expected
<1> QED BY <1>1, IInvInvariant, PTL DEF Spec, ResponseIsOwn

----------------------------------------------------------------------------
(* The order of a heap, of which e has the times.                          *)

\* Node j of the first n has its parent before it.
InOrder(e, j) == e[j \div 2] <= e[j]

Ordered(e, n) == \A j \in 2 .. n : InOrder(e, j)

\* The children of i come after the parent of i.
Bypass(e, i, n) == \A j \in 2 .. n : j \div 2 = i /\ i > 1 => e[i \div 2] <= e[j]

\* In order, but for node i and its children; for its children; for itself.
OrderedAround(e, i, n) ==
    /\ \A j \in 2 .. n : j # i /\ j \div 2 # i => InOrder(e, j)
    /\ Bypass(e, i, n)

OrderedAbove(e, i, n) ==
    /\ \A j \in 2 .. n : j \div 2 # i => InOrder(e, j)
    /\ Bypass(e, i, n)

OrderedBelow(e, i, n) ==
    /\ \A j \in 2 .. n : j # i => InOrder(e, j)
    /\ Bypass(e, i, n)

\* f is e with the times of i and j swapped.
Swapped(e, f, i, j, n) ==
    /\ f[i] = e[j] /\ f[j] = e[i]
    /\ \A k \in 1 .. n : k \notin {i, j} => f[k] = e[k]

LEMMA Halves ==
    ASSUME NEW j \in Nat, j >= 2
    PROVE  /\ j \div 2 \in 1 .. j - 1
           /\ j \in {2 * (j \div 2), 2 * (j \div 2) + 1}
OBVIOUS

\* One round of SiftUp_.
LEMMA UpOrder ==
    ASSUME NEW n \in Nat, NEW e \in [1 .. n -> Nat], NEW f \in [1 .. n -> Nat],
           NEW i \in 2 .. n, OrderedBelow(e, i, n),
           e[i \div 2] > e[i], Swapped(e, f, i, i \div 2, n)
    PROVE  OrderedBelow(f, i \div 2, n)
<1> DEFINE p == i \div 2
<1>1. p \in 1 .. n /\ p < i /\ p # i
  BY Halves
<1>2. f[i] = e[p] /\ f[p] = e[i] /\ \A k \in 1 .. n : k # i /\ k # p => f[k] = e[k]
  BY DEF Swapped
<1>3. e[p] > e[i]
  OBVIOUS
<1>4. \A j \in 2 .. n : j # i => e[j \div 2] <= e[j]
  BY DEF OrderedBelow, InOrder
<1>5. \A j \in 2 .. n : j \div 2 = i => e[p] <= e[j]
  BY <1>1 DEF OrderedBelow, Bypass
<1>6. \A j \in 2 .. n : j \div 2 \in 1 .. n /\ j \div 2 < j
  BY Halves
<1>7. p > 1 => p \in 2 .. n /\ p \div 2 \in 1 .. n /\ p \div 2 < p
  BY <1>1, <1>6
<1> HIDE DEF p
<1>8. ASSUME NEW j \in 2 .. n, j # p
      PROVE  f[j \div 2] <= f[j]
  <2>1. CASE j = i
    BY <1>1, <1>2, <1>3, <2>1 DEF p
  <2>2. CASE j # i /\ j \div 2 = p
    <3>1. f[j \div 2] = e[i] /\ f[j] = e[j] /\ e[p] <= e[j] /\ j \in 1 .. n
      BY <1>2, <1>4, <1>8, <2>2
    <3>2. e[i] \in Nat /\ e[p] \in Nat /\ e[j] \in Nat
      BY <1>1, <3>1
    <3> QED BY <1>3, <3>1, <3>2
  <2>3. CASE j \div 2 = i
    BY <1>1, <1>2, <1>5, <1>6, <1>8, <2>3
  <2>4. CASE j # i /\ j \div 2 # p /\ j \div 2 # i
    BY <1>1, <1>2, <1>4, <1>6, <1>8, <2>4
  <2> QED BY <2>1, <2>2, <2>3, <2>4
<1>9. ASSUME NEW j \in 2 .. n, j \div 2 = p, p > 1
      PROVE  f[p \div 2] <= f[j]
  <2>1. f[p \div 2] = e[p \div 2] /\ e[p \div 2] <= e[p]
    <3>1. p \in 2 .. n /\ p # i /\ p \div 2 \in 1 .. n /\ p \div 2 # i /\ p \div 2 # p
      BY <1>1, <1>7, <1>9
    <3> QED BY <1>2, <1>4, <3>1
  <2>2. e[p] <= f[j]
    <3>1. CASE j = i
      BY <1>1, <1>2, <3>1
    <3>2. CASE j # i
      <4>1. e[p] <= e[j] /\ j \in 1 .. n /\ j # p
        BY <1>4, <1>6, <1>9, <3>2
      <4> QED BY <1>2, <3>2, <4>1
    <3> QED BY <3>1, <3>2
  <2>3. j \in 1 .. n
    OBVIOUS
  <2> QED BY <1>1, <1>7, <1>9, <2>1, <2>2, <2>3
<1> QED BY <1>8, <1>9 DEF OrderedBelow, InOrder, Bypass, p

\* The loop of SiftUp_ ends in order.
LEMMA UpStops ==
    ASSUME NEW n \in Nat, NEW e \in [1 .. n -> Nat], NEW i \in 1 .. n,
           OrderedBelow(e, i, n), ~(i > 1 /\ e[i \div 2] > e[i])
    PROVE  Ordered(e, n)
<1> SUFFICES ASSUME NEW j \in 2 .. n PROVE e[j \div 2] <= e[j]
  BY DEF Ordered, InOrder
<1>1. CASE j # i
  BY <1>1 DEF OrderedBelow, InOrder
<1>2. CASE j = i
  BY <1>2, Halves
<1> QED BY <1>1, <1>2

\* One round of SiftDown_.
LEMMA DownOrder ==
    ASSUME NEW n \in Nat, NEW e \in [1 .. n -> Nat], NEW f \in [1 .. n -> Nat],
           NEW i \in 1 .. n, NEW c \in {2 * i, 2 * i + 1}, c <= n, e[c] <= e[i],
           \A j \in 2 .. n : j \div 2 = i => e[c] <= e[j],
           OrderedAround(e, i, n), Swapped(e, f, i, c, n)
    PROVE  OrderedAbove(f, c, n)
<1>1. c \in 2 .. n /\ c > i /\ c # i /\ c \div 2 = i /\ c \in 1 .. n
  OBVIOUS
<1>2. f[i] = e[c] /\ f[c] = e[i] /\ \A k \in 1 .. n : k # i /\ k # c => f[k] = e[k]
  BY DEF Swapped
<1>3. \A j \in 2 .. n : j # i /\ j \div 2 # i => e[j \div 2] <= e[j]
  BY DEF OrderedAround, InOrder
<1>4. i > 1 => e[i \div 2] <= e[c]
  BY <1>1 DEF OrderedAround, Bypass
<1>5. \A j \in 2 .. n : j \div 2 \in 1 .. n /\ j \div 2 < j
  BY Halves
<1>6. ASSUME NEW j \in 2 .. n, j \div 2 # c
      PROVE  f[j \div 2] <= f[j]
  <2>1. CASE j = i
    BY <1>1, <1>2, <1>4, <1>5, <2>1
  <2>2. CASE j = c
    BY <1>1, <1>2, <2>2
  <2>3. CASE j # c /\ j \div 2 = i
    BY <1>1, <1>2, <1>5, <2>3
  <2>4. CASE j # i /\ j # c /\ j \div 2 # i
    BY <1>2, <1>3, <1>5, <1>6, <2>4
  <2> QED BY <2>1, <2>2, <2>3, <2>4
<1>7. ASSUME NEW j \in 2 .. n, j \div 2 = c
      PROVE  f[c \div 2] <= f[j]
  <2>1. j # c /\ j # i /\ j \div 2 # i
    BY <1>1, <1>5, <1>7
  <2>2. f[c \div 2] = e[c]
    BY ONLY <1>1, <1>2, Zenon
  <2>3. j \in 1 .. n
    OBVIOUS
  <2>4. f[j] = e[j]
    BY ONLY <1>2, <2>1, <2>3, Zenon
  <2>5. e[j \div 2] <= e[j]
    BY <1>3, <2>1
  <2> QED BY ONLY <1>7, <2>2, <2>4, <2>5, Zenon
<1> QED BY <1>6, <1>7 DEF OrderedAbove, InOrder, Bypass

\* The loop of SiftDown_ ends with nothing out of order below the node.
LEMMA DownStops ==
    ASSUME NEW n \in Nat, NEW e \in [1 .. n -> Nat], NEW i \in 1 .. n,
           OrderedAround(e, i, n), \A j \in 2 .. n : j \div 2 = i => e[i] <= e[j]
    PROVE  OrderedBelow(e, i, n)
BY DEF OrderedAround, OrderedBelow, InOrder

\* ... and nothing at all if it was in order above the node.
LEMMA DownStopsOrdered ==
    ASSUME NEW n \in Nat, NEW e \in [1 .. n -> Nat], NEW i \in 1 .. n,
           OrderedAbove(e, i, n), \A j \in 2 .. n : j \div 2 = i => e[i] <= e[j]
    PROVE  Ordered(e, n)
BY DEF OrderedAbove, Ordered, InOrder

LEMMA AboveIsAround ==
    ASSUME NEW n, NEW e, NEW i, OrderedAbove(e, i, n)
    PROVE  OrderedAround(e, i, n)
BY DEF OrderedAbove, OrderedAround

----------------------------------------------------------------------------
(* Loops as functions of the number of rounds.                             *)

\* Every non-empty set of natural numbers has a least element.
LEMMA LeastNatural ==
    ASSUME NEW T \in SUBSET Nat, T # {}
    PROVE  \E x \in T : \A y \in T : x <= y
<1> DEFINE R == OpToRel(<, Nat)
<1>1. PICK x \in T : \A y \in T : ~(<<y, x>> \in R)
  <2> HIDE DEF R
  <2>1. IsWellFoundedOn(R, Nat)
    BY NatLessThanWellFounded DEF R
  <2> QED BY <2>1, WFMin
<1>2. ASSUME NEW y \in T PROVE x <= y
  <2>1. x \in Nat /\ y \in Nat
    OBVIOUS
  <2>2. ~(y < x)
    BY <1>1, <2>1 DEF OpToRel
  <2> QED BY <2>1, <2>2
<1> QED BY <1>1, <1>2

\* What holds of 0, and of k if it holds of k - 1, holds up to n.
LEMMA Induction ==
    ASSUME NEW n \in Nat, NEW S, 0 \in S, \A k \in 1 .. n : k - 1 \in S => k \in S
    PROVE  \A k \in 0 .. n : k \in S
<1> DEFINE Bad == {k \in 0 .. n : k \notin S}
<1> SUFFICES ASSUME Bad # {} PROVE FALSE
  OBVIOUS
<1>1. Bad \in SUBSET Nat
  OBVIOUS
<1>2. PICK k \in Bad : \A m \in Bad : k <= m
  <2> HIDE DEF Bad
  <2> QED BY <1>1, LeastNatural
<1>3. k \in 0 .. n /\ k \notin S
  OBVIOUS
<1>4. k # 0
  BY <1>3
<1>5. k \in 1 .. n /\ k - 1 \in 0 .. n /\ ~(k <= k - 1)
  BY <1>3, <1>4
<1>6. k - 1 \in S
  BY <1>2, <1>5
<1> QED BY <1>3, <1>5, <1>6

\* f[k] is what k rounds F make of x.
Rounds(F, x, n, f) == f[0] = x /\ \A k \in 1 .. n : f[k] = F[f[k - 1]]

LEMMA RoundsExist ==
    ASSUME NEW S, NEW F \in [S -> S], NEW x \in S, NEW n \in Nat
    PROVE  \E f \in [0 .. n -> S] : Rounds(F, x, n, f)
<1> DEFINE T == {k \in 0 .. n : \E f \in [0 .. k -> S] : Rounds(F, x, k, f)}
<1>1. 0 \in T
  <2> DEFINE f == [i \in 0 .. 0 |-> x]
  <2>1. f[0] = x /\ 0 \in 0 .. n /\ f \in [0 .. 0 -> S] /\ 1 .. 0 = {}
    OBVIOUS
  <2>2. Rounds(F, x, 0, f)
    BY <2>1 DEF Rounds
  <2> QED BY <2>1, <2>2
<1>2. ASSUME NEW k \in 1 .. n, k - 1 \in T PROVE k \in T
  <2>1. PICK g \in [0 .. k - 1 -> S] : Rounds(F, x, k - 1, g)
    BY <1>2
  <2> DEFINE f == [i \in 0 .. k |-> IF i = k THEN F[g[k - 1]] ELSE g[i]]
  <2>2. /\ k \in 0 .. k /\ k # 0 /\ 0 \in 0 .. k /\ k - 1 \in 0 .. k /\ k - 1 \in 0 .. k - 1 /\ k - 1 # k
        /\ \A i \in 0 .. k : i # k => i \in 0 .. k - 1
        /\ \A i \in 1 .. k : i # k => i \in 1 .. k - 1 /\ i \in 0 .. k /\ i - 1 \in 0 .. k /\ i - 1 # k
    OBVIOUS
  <2>3. f \in [0 .. k -> S]
    BY <2>2, Zenon
  <2>4. f[k] = F[f[k - 1]] /\ f[0] = x
    BY <2>1, <2>2, Zenon DEF Rounds
  <2>5. ASSUME NEW i \in 1 .. k, i # k PROVE f[i] = F[f[i - 1]]
    BY <2>1, <2>2, <2>5, Zenon DEF Rounds
  <2> HIDE DEF f
  <2>6. Rounds(F, x, k, f)
    BY <2>4, <2>5, Zenon DEF Rounds
  <2>7. k \in 0 .. n
    OBVIOUS
  <2> QED BY <2>3, <2>6, <2>7
<1>3. \A k \in 1 .. n : k - 1 \in T => k \in T
  BY <1>2
<1>4. \A k \in 0 .. n : k \in T
  <2> HIDE DEF T
  <2> QED BY <1>1, <1>3, Induction
<1>5. n \in 0 .. n
  OBVIOUS
<1> QED BY <1>4, <1>5

\* A loop whose rounds keep within S, and lower a measure unless they change nothing,
\* has stopped after as many rounds as its measure was.
Loop(S, F, m, n, f) ==
    /\ F \in [S -> S] /\ m \in [S -> Nat] /\ n \in Nat
    /\ \A s \in S : F[s] = s \/ m[F[s]] < m[s]
    /\ f[0] \in S /\ m[f[0]] <= n
    /\ \A k \in 1 .. n : f[k - 1] \in S => f[k] = F[f[k - 1]]

LEMMA LoopStops ==
    ASSUME NEW S, NEW F, NEW m, NEW n, NEW f, Loop(S, F, m, n, f)
    PROVE  f[n] \in S /\ F[f[n]] = f[n]
<1>0. /\ F \in [S -> S] /\ m \in [S -> Nat] /\ n \in Nat
      /\ \A s \in S : F[s] = s \/ m[F[s]] < m[s]
      /\ f[0] \in S /\ m[f[0]] <= n
      /\ \A k \in 1 .. n : f[k - 1] \in S => f[k] = F[f[k - 1]]
  BY DEF Loop
<1> DEFINE T == {k \in 0 .. n : f[k] \in S /\ (F[f[k]] = f[k] \/ m[f[k]] <= n - k)}
<1>1. 0 \in T
  BY <1>0
<1>2. ASSUME NEW k \in 1 .. n, k - 1 \in T PROVE k \in T
  <2> DEFINE s == f[k - 1]
  <2>1. s \in S /\ f[k] = F[s] /\ (F[s] = s \/ m[s] <= n - (k - 1))
    BY <1>0, <1>2
  <2> HIDE DEF s
  <2>2. CASE F[s] = s
    BY <2>1, <2>2
  <2>3. CASE F[s] # s
    <3>1. F[s] \in S /\ m[s] \in Nat /\ m[F[s]] \in Nat /\ m[F[s]] < m[s] /\ m[s] <= n - (k - 1)
      BY <1>0, <2>1, <2>3
    <3>2. m[F[s]] <= n - k
      BY <1>0, <3>1
    <3> QED BY <2>1, <3>1, <3>2
  <2> QED BY <2>2, <2>3
<1>3. \A k \in 1 .. n : k - 1 \in T => k \in T
  BY <1>2
<1>4. \A k \in 0 .. n : k \in T
  <2> HIDE DEF T
  <2> QED BY <1>0, <1>1, <1>3, Induction
<1>5. n \in T
  BY <1>0, <1>4
<1>6. CASE m[f[n]] <= n - n
  <2>1. f[n] \in S /\ m[f[n]] = 0 /\ F[f[n]] \in S /\ m[F[f[n]]] \in Nat
    BY <1>0, <1>5, <1>6
  <2> QED BY <1>0, <2>1
<1> QED BY <1>5, <1>6

----------------------------------------------------------------------------
(* The timer.                                                              *)

Nodes == [id : Ids, expires : Nat]
Timers == [heap : Seq(Nodes), ref : [Ids -> Nat]]

\* The times of the first n nodes.
Times(h, n) == [k \in 1 .. n |-> h.heap[k].expires]

\* No node expires after b.
Bounded(h, b) == \A k \in 1 .. Len(h.heap) : h.heap[k].expires <= b

\* g has nodes of h only, at as many positions.
Rearranged(h, g) ==
    /\ g \in Timers
    /\ Len(g.heap) = Len(h.heap)
    /\ \A b \in Nat : Bounded(h, b) => Bounded(g, b)

LEMMA TimesType ==
    ASSUME NEW h \in Timers, NEW n \in 0 .. Len(h.heap)
    PROVE  Times(h, n) \in [1 .. n -> Nat]
<1>1. h.heap \in Seq(Nodes)
  BY DEF Timers
<1>2. \A k \in 1 .. n : h.heap[k] \in Nodes
  BY <1>1
<1> QED BY <1>2 DEF Times, Nodes

\* Two nodes that change places.
LEMMA SwapHeap ==
    ASSUME NEW H \in Seq(Nodes), NEW i \in 1 .. Len(H), NEW j \in 1 .. Len(H), i # j,
           NEW G, G = [H EXCEPT ![i] = H[j], ![j] = H[i]]
    PROVE  /\ G \in Seq(Nodes) /\ Len(G) = Len(H)
           /\ G[i] = H[j] /\ G[j] = H[i]
           /\ \A k \in 1 .. Len(H) : k # i /\ k # j => G[k] = H[k]
OBVIOUS

LEMMA Swaps ==
    ASSUME NEW h \in Timers, NEW n \in 0 .. Len(h.heap),
           NEW i \in 1 .. Len(h.heap), NEW j \in 1 .. Len(h.heap), i # j
    PROVE  /\ Rearranged(h, SwapNode(h, i, j))
           /\ i <= n /\ j <= n => Swapped(Times(h, n), Times(SwapNode(h, i, j), n), i, j, n)
<1> DEFINE H == h.heap
           G == [H EXCEPT ![i] = H[j], ![j] = H[i]]
           r == [h.ref EXCEPT ![H[j].id] = i, ![H[i].id] = j]
<1>1. H \in Seq(Nodes) /\ h.ref \in [Ids -> Nat]
  BY DEF Timers
<1>2. /\ G \in Seq(Nodes) /\ Len(G) = Len(H) /\ G[i] = H[j] /\ G[j] = H[i]
      /\ \A k \in 1 .. Len(H) : k # i /\ k # j => G[k] = H[k]
  BY <1>1, SwapHeap
<1>3. r \in [Ids -> Nat]
  <2>1. i \in Nat /\ j \in Nat
    BY <1>1
  <2> HIDE DEF H
  <2> QED BY <1>1, <2>1, Zenon
<1>4. SwapNode(h, i, j).heap = G /\ SwapNode(h, i, j) \in Timers
  BY <1>2, <1>3 DEF SwapNode, Timers
<1> HIDE DEF G, r
<1>5. ASSUME NEW b \in Nat, Bounded(h, b), NEW k \in 1 .. Len(H)
      PROVE  G[k].expires <= b
  <2>1. \E q \in 1 .. Len(H) : G[k] = H[q]
    BY <1>2
  <2> QED BY <1>5, <2>1 DEF Bounded
<1>6. Rearranged(h, SwapNode(h, i, j))
  BY <1>2, <1>4, <1>5 DEF Rearranged, Bounded
<1>7. ASSUME i <= n, j <= n
      PROVE  Swapped(Times(h, n), Times(SwapNode(h, i, j), n), i, j, n)
  <2>1. i \in 1 .. n /\ j \in 1 .. n /\ \A k \in 1 .. n : k \in 1 .. Len(H)
    BY <1>1, <1>7
  <2> QED BY <1>2, <1>4, <2>1 DEF Swapped, Times
<1> QED BY <1>6, <1>7

LEMMA RearrangedTransitive ==
    ASSUME NEW h, NEW g, NEW l, Rearranged(h, g), Rearranged(g, l)
    PROVE  Rearranged(h, l)
BY DEF Rearranged

\* Where SiftUp_ may be.
UpStates(h, n) ==
    {s \in [timer : Timers, at : 1 .. n] :
        /\ Rearranged(h, s.timer)
        /\ OrderedBelow(Times(s.timer, n), s.at, n)}

LEMMA UpRounds ==
    ASSUME NEW h \in Timers, NEW n \in 0 .. Len(h.heap), NEW s \in UpStates(h, n)
    PROVE  /\ UpRound(s) \in UpStates(h, n)
           /\ UpRound(s) = s \/ UpRound(s).at < s.at
           /\ UpRound(s) = s => Ordered(Times(s.timer, n), n)
<1> DEFINE g == s.timer
           i == s.at
           p == i \div 2
           e == Times(g, n)
<1>1. /\ s = [timer |-> g, at |-> i] /\ g \in Timers /\ i \in 1 .. n
      /\ Rearranged(h, g) /\ OrderedBelow(e, i, n) /\ Len(g.heap) = Len(h.heap)
  BY DEF UpStates, Rearranged
<1>2. e \in [1 .. n -> Nat]
  BY <1>1, TimesType
<1>3. i > 1 => p \in 1 .. n /\ p < i
  BY <1>1, Halves
<1>4. \A k \in 1 .. n : e[k] = g.heap[k].expires
  BY DEF Times
<1> HIDE DEF g, i
<1>5. CASE i > 1 /\ e[p] > e[i]
  <2> DEFINE G == SwapNode(g, i, p)
  <2>1. p \in 1 .. n /\ p < i /\ p \in 1 .. Len(g.heap) /\ i \in 1 .. Len(g.heap) /\ i # p
        /\ i \in 2 .. n /\ n \in 0 .. Len(g.heap) /\ n \in Nat
    BY <1>1, <1>3, <1>5
  <2>2. UpRound(s) = [timer |-> G, at |-> p]
    BY <1>1, <1>4, <1>5, <2>1 DEF UpRound, g, i
  <2>3. Rearranged(g, G) /\ Swapped(e, Times(G, n), i, p, n)
    BY <1>1, <2>1, Swaps
  <2>4. Rearranged(h, G) /\ G \in Timers /\ Len(G.heap) = Len(g.heap)
    BY <1>1, <2>3, RearrangedTransitive DEF Rearranged
  <2> HIDE DEF G
  <2>5. Times(G, n) \in [1 .. n -> Nat]
    BY <2>1, <2>4, TimesType
  <2> HIDE DEF e
  <2>6. OrderedBelow(Times(G, n), p, n)
    BY <1>1, <1>2, <1>5, <2>1, <2>3, <2>5, UpOrder
  <2>7. UpRound(s).at = p /\ UpRound(s).timer = G
    BY <2>2
  <2>8. UpRound(s) \in UpStates(h, n)
    BY <2>1, <2>2, <2>4, <2>6 DEF UpStates
  <2>9. p # i /\ UpRound(s) # s
    BY <2>1, <2>7 DEF i
  <2> QED BY <2>1, <2>7, <2>8, <2>9 DEF i
<1>6. CASE ~(i > 1 /\ e[p] > e[i])
  <2>1. UpRound(s) = s
    BY <1>1, <1>3, <1>4, <1>6 DEF UpRound, g, i
  <2>2. Ordered(e, n)
    <3> HIDE DEF e
    <3> QED BY <1>1, <1>2, <1>6, UpStops
  <2> QED BY <2>1, <2>2 DEF g
<1> QED BY <1>5, <1>6

\* The function that SiftUp defines by recursion.
IsUp(h, i, f) ==
    f = [k \in 0 .. i |-> IF k = 0 THEN [timer |-> h, at |-> i] ELSE UpRound(f[k - 1])]

\* SiftUp_ from node i restores the order above it.
LEMMA SiftsUp ==
    ASSUME NEW h \in Timers, NEW n \in 0 .. Len(h.heap), NEW i \in 1 .. n,
           OrderedBelow(Times(h, n), i, n)
    PROVE  Rearranged(h, SiftUp(h, i)) /\ Ordered(Times(SiftUp(h, i), n), n)
<1> DEFINE S == UpStates(h, n)
           F == [s \in S |-> UpRound(s)]
           m == [s \in S |-> s.at]
           x == [timer |-> h, at |-> i]
           f == CHOOSE g : IsUp(h, i, g)
<1>1. x \in S
  BY DEF UpStates, Rearranged
<1>2. \A s \in S : UpRound(s) \in S /\ (UpRound(s) = s \/ UpRound(s).at < s.at)
                   /\ (UpRound(s) = s => Ordered(Times(s.timer, n), n))
                   /\ s.at \in Nat /\ Rearranged(h, s.timer)
  <2> SUFFICES ASSUME NEW s \in S
               PROVE  UpRound(s) \in S /\ (UpRound(s) = s \/ UpRound(s).at < s.at)
                      /\ (UpRound(s) = s => Ordered(Times(s.timer, n), n))
                      /\ s.at \in Nat /\ Rearranged(h, s.timer)
    OBVIOUS
  <2>1. s.at \in Nat /\ Rearranged(h, s.timer)
    BY DEF UpStates
  <2> HIDE DEF S
  <2> QED BY <2>1, UpRounds DEF S
<1>3. /\ i \in Nat /\ x.at = i /\ 0 \in 0 .. i /\ i \in 0 .. i
      /\ \A k \in 1 .. i : k \in 0 .. i /\ k # 0 /\ k - 1 \in 0 .. i
      /\ \A k \in 0 .. i : k # 0 => k \in 1 .. i
  OBVIOUS
<1> HIDE DEF S, x
<1>4. F \in [S -> S] /\ m \in [S -> Nat]
  BY <1>2
<1>5. \E g : IsUp(h, i, g)
  <2>1. PICK g \in [0 .. i -> S] : Rounds(F, x, i, g)
    <3> HIDE DEF F
    <3> QED BY <1>1, <1>3, <1>4, RoundsExist
  <2>2. ASSUME NEW k \in 0 .. i
        PROVE  g[k] = IF k = 0 THEN x ELSE UpRound(g[k - 1])
    <3>1. k # 0 => g[k - 1] \in S /\ g[k] = F[g[k - 1]]
      BY <1>3, <2>1 DEF Rounds
    <3> QED BY <2>1, <3>1 DEF Rounds
  <2>3. g = [k \in 0 .. i |-> g[k]]
    OBVIOUS
  <2>4. IsUp(h, i, g)
    BY <2>2, <2>3, Zenon DEF IsUp, x
  <2> QED BY <2>4
<1>6. IsUp(h, i, f)
  BY <1>5, Zenon
<1>7. SiftUp(h, i) = f[i].timer
  BY DEF SiftUp, IsUp
<1> HIDE DEF f
<1>8. f[0] = x /\ \A k \in 1 .. i : f[k] = UpRound(f[k - 1])
  BY <1>3, <1>6, Zenon DEF IsUp, x
<1>9. /\ \A s \in S : F[s] = UpRound(s) /\ m[s] = s.at
      /\ \A s \in S : F[s] = s \/ m[F[s]] < m[s]
      /\ f[0] \in S /\ m[f[0]] <= i
  BY <1>1, <1>2, <1>3, <1>8
<1>10. \A k \in 1 .. i : f[k - 1] \in S => f[k] = F[f[k - 1]]
  BY <1>8, <1>9
<1>11. f[i] \in S /\ F[f[i]] = f[i]
  <2> HIDE DEF F, m
  <2>1. Loop(S, F, m, i, f)
    BY <1>3, <1>4, <1>9, <1>10 DEF Loop
  <2> QED BY <2>1, LoopStops
<1> QED BY <1>2, <1>7, <1>9, <1>11

\* The child that SiftDown_ compares with.
LEMMA SmallerChildIs ==
    ASSUME NEW h \in Timers, NEW n \in 0 .. Len(h.heap), NEW i \in 1 .. n, 2 * i <= n,
           NEW c, c = SmallerChild(h, i, n)
    PROVE  /\ c \in {2 * i, 2 * i + 1} /\ c <= n
           /\ \A j \in 2 .. n : j \div 2 = i => Times(h, n)[c] <= Times(h, n)[j]
<1> DEFINE e == Times(h, n)
<1>1. e \in [1 .. n -> Nat]
  BY TimesType
<1>2. \A k \in 1 .. n : e[k] = h.heap[k].expires
  BY DEF Times
<1> HIDE DEF e
<1>3. c = IF 2 * i + 1 <= n /\ e[2 * i + 1] < e[2 * i] THEN 2 * i + 1 ELSE 2 * i
  <2>1. 2 * i \in 1 .. n /\ (2 * i + 1 <= n => 2 * i + 1 \in 1 .. n)
    OBVIOUS
  <2> QED BY <1>2, <2>1 DEF SmallerChild
<1>4. c \in {2 * i, 2 * i + 1} /\ c <= n
  BY <1>3
<1>5. ASSUME NEW j \in 2 .. n, j \div 2 = i PROVE e[c] <= e[j]
  <2>1. j \in {2 * i, 2 * i + 1} /\ n \in Nat
    BY <1>5, Halves
  <2>2. e[2 * i] \in Nat /\ (2 * i + 1 <= n => e[2 * i + 1] \in Nat)
    BY <1>1
  <2> QED BY <1>3, <2>1, <2>2
<1> QED BY <1>4, <1>5 DEF e

\* Where SiftDown_ may be.
DownStates(h, i, n) ==
    {s \in [timer : Timers, at : 1 .. n] :
        /\ Rearranged(h, s.timer)
        /\ \/ s.at = i /\ s.timer = h
           \/ s.at > i /\ OrderedAbove(Times(s.timer, n), s.at, n)}

\* Nothing is out of order below the node where SiftDown_ stops.
Settled(s, n) ==
    \A j \in 2 .. n : j \div 2 = s.at => Times(s.timer, n)[s.at] <= Times(s.timer, n)[j]

\* One more round of SiftDown_.
DownGoesOn(h, i, n, s, r) ==
    /\ r \in DownStates(h, i, n)
    /\ r = s \/ (r.at > s.at)
    /\ r = s => Settled(s, n)

LEMMA DownRounds ==
    ASSUME NEW h \in Timers, NEW n \in 0 .. Len(h.heap), NEW i \in 1 .. n,
           OrderedAround(Times(h, n), i, n), NEW s \in DownStates(h, i, n)
    PROVE  DownGoesOn(h, i, n, s, DownRound(s, n))
<1> DEFINE g == s.timer
           q == s.at
           c == SmallerChild(g, q, n)
           e == Times(g, n)
<1>1. /\ s = [timer |-> g, at |-> q] /\ g \in Timers /\ q \in 1 .. n /\ q >= i
      /\ Rearranged(h, g) /\ OrderedAround(e, q, n) /\ Len(g.heap) = Len(h.heap)
  BY AboveIsAround DEF DownStates, Rearranged
<1>2. e \in [1 .. n -> Nat] /\ n \in 0 .. Len(g.heap) /\ n \in Nat
  BY <1>1, TimesType
<1>3. \A k \in 1 .. n : e[k] = g.heap[k].expires
  BY DEF Times
<1>4. 2 * q <= n => /\ c \in {2 * q, 2 * q + 1} /\ c <= n
                    /\ \A j \in 2 .. n : j \div 2 = q => e[c] <= e[j]
  <2> HIDE DEF g, q
  <2> QED BY <1>1, <1>2, SmallerChildIs
<1>5. 2 * q <= n => c \in 1 .. n /\ c > q /\ c # q
  BY <1>1, <1>2, <1>4
<1> HIDE DEF g, q, c, e
<1>6. CASE 2 * q <= n /\ ~(e[q] < e[c])
  <2> DEFINE G == SwapNode(g, q, c)
  <2>1. c \in 1 .. Len(g.heap) /\ q \in 1 .. Len(g.heap) /\ c \in 1 .. n /\ c > q /\ c # q /\ q <= n /\ c <= n
    BY <1>1, <1>2, <1>5, <1>6
  <2>2. DownRound(s, n) = [timer |-> G, at |-> c]
    BY <1>1, <1>3, <1>6, <2>1 DEF DownRound, g, q, c
  <2>3. Rearranged(g, G) /\ Swapped(e, Times(G, n), q, c, n)
    BY <1>1, <1>2, <2>1, Swaps DEF e
  <2>4. Rearranged(h, G) /\ G \in Timers /\ Len(G.heap) = Len(g.heap)
    BY <1>1, <2>3, RearrangedTransitive DEF Rearranged
  <2> HIDE DEF G
  <2>5. Times(G, n) \in [1 .. n -> Nat]
    BY <1>2, <2>4, TimesType
  <2>6. e[c] <= e[q]
    BY <1>1, <1>2, <1>6, <2>1
  <2>7. OrderedAbove(Times(G, n), c, n)
    BY <1>1, <1>2, <1>4, <1>6, <2>1, <2>3, <2>5, <2>6, DownOrder
  <2>8. DownRound(s, n).at = c /\ DownRound(s, n).timer = G
    BY <2>2
  <2>9. c > i
    BY <1>1, <1>2, <2>1
  <2>10. DownRound(s, n) \in DownStates(h, i, n)
    BY <2>1, <2>2, <2>4, <2>7, <2>9 DEF DownStates
  <2>11. DownRound(s, n) # s
    BY <2>1, <2>8 DEF q
  <2> QED BY <2>1, <2>8, <2>10, <2>11 DEF q, DownGoesOn
<1>7. CASE ~(2 * q <= n /\ ~(e[q] < e[c]))
  <2>1. DownRound(s, n) = s
    BY <1>1, <1>3, <1>5, <1>7 DEF DownRound, g, q, c
  <2>2. ASSUME NEW j \in 2 .. n, j \div 2 = q PROVE e[q] <= e[j]
    <3>1. 2 * q <= n
      BY <1>1, <1>2, <2>2
    <3>2. e[q] < e[c] /\ e[c] <= e[j]
      BY <1>4, <1>7, <2>2, <3>1
    <3>3. e[q] \in Nat /\ e[c] \in Nat /\ e[j] \in Nat
      BY <1>1, <1>2, <1>5, <3>1
    <3> QED BY <3>2, <3>3
  <2>3. Settled(s, n)
    BY <2>2 DEF Settled, g, q, e
  <2> QED BY <2>1, <2>3 DEF DownGoesOn
<1> QED BY <1>6, <1>7

IsDown(h, i, n, f) ==
    f = [k \in 0 .. n |-> IF k = 0 THEN [timer |-> h, at |-> i] ELSE DownRound(f[k - 1], n)]

\* SiftDown_ from node i stops at a node below which all is in order.
LEMMA SiftsDown ==
    ASSUME NEW h \in Timers, NEW n \in 0 .. Len(h.heap), NEW i \in 1 .. n,
           OrderedAround(Times(h, n), i, n)
    PROVE  SiftDown(h, i, n) \in DownStates(h, i, n) /\ Settled(SiftDown(h, i, n), n)
<1> DEFINE S == DownStates(h, i, n)
           F == [s \in S |-> DownRound(s, n)]
           m == [s \in S |-> n - s.at]
           x == [timer |-> h, at |-> i]
           f == CHOOSE g : IsDown(h, i, n, g)
<1>1. x \in S
  BY DEF DownStates, Rearranged
<1>2. \A s \in S : s.at \in 1 .. n
  BY DEF DownStates
<1>3. \A s \in S : DownGoesOn(h, i, n, s, DownRound(s, n))
  <2> SUFFICES ASSUME NEW s \in S PROVE DownGoesOn(h, i, n, s, DownRound(s, n))
    OBVIOUS
  <2> HIDE DEF S
  <2> QED BY DownRounds DEF S
<1>4. \A s \in S : DownRound(s, n) \in S /\ (DownRound(s, n) = s \/ DownRound(s, n).at > s.at)
                   /\ (DownRound(s, n) = s => Settled(s, n))
  BY <1>3 DEF DownGoesOn
<1>5. /\ n \in Nat /\ x.at = i /\ 0 \in 0 .. n /\ n \in 0 .. n /\ n - i <= n
      /\ \A k \in 1 .. n : k \in 0 .. n /\ k # 0 /\ k - 1 \in 0 .. n
      /\ \A k \in 0 .. n : k # 0 => k \in 1 .. n
  OBVIOUS
<1> HIDE DEF S, x
<1>6. F \in [S -> S] /\ m \in [S -> Nat]
  BY <1>2, <1>4, <1>5
<1>7. \E g : IsDown(h, i, n, g)
  <2>1. PICK g \in [0 .. n -> S] : Rounds(F, x, n, g)
    <3> HIDE DEF F
    <3> QED BY <1>1, <1>5, <1>6, RoundsExist
  <2>2. ASSUME NEW k \in 0 .. n
        PROVE  g[k] = IF k = 0 THEN x ELSE DownRound(g[k - 1], n)
    <3>1. k # 0 => g[k - 1] \in S /\ g[k] = F[g[k - 1]]
      BY <1>5, <2>1 DEF Rounds
    <3> QED BY <2>1, <3>1 DEF Rounds
  <2>3. g = [k \in 0 .. n |-> g[k]]
    OBVIOUS
  <2>4. IsDown(h, i, n, g)
    BY <2>2, <2>3, Zenon DEF IsDown, x
  <2> QED BY <2>4
<1>8. IsDown(h, i, n, f)
  BY <1>7, Zenon
<1>9. SiftDown(h, i, n) = f[n]
  BY DEF SiftDown, IsDown
<1> HIDE DEF f
<1>10. f[0] = x /\ \A k \in 1 .. n : f[k] = DownRound(f[k - 1], n)
  BY <1>5, <1>8, Zenon DEF IsDown, x
<1>11. \A s \in S : F[s] = DownRound(s, n) /\ m[s] = n - s.at
  OBVIOUS
<1>12. ASSUME NEW s \in S PROVE F[s] = s \/ m[F[s]] < m[s]
  BY <1>2, <1>4, <1>5, <1>11
<1>13. f[0] \in S /\ m[f[0]] <= n
  BY <1>1, <1>5, <1>10, <1>11
<1>14. \A k \in 1 .. n : f[k - 1] \in S => f[k] = F[f[k - 1]]
  BY <1>10, <1>11
<1>15. f[n] \in S /\ F[f[n]] = f[n]
  <2> HIDE DEF F, m
  <2>1. Loop(S, F, m, n, f)
    BY <1>5, <1>6, <1>12, <1>13, <1>14 DEF Loop
  <2> QED BY <2>1, LoopStops
<1> QED BY <1>4, <1>9, <1>11, <1>15 DEF S

\* SiftDown_, and SiftUp_ if nothing moved, restore the order around node i.
LEMMA Sifts ==
    ASSUME NEW h \in Timers, NEW n \in 0 .. Len(h.heap), NEW i \in 1 .. n,
           OrderedAround(Times(h, n), i, n)
    PROVE  Rearranged(h, Sift(h, i, n)) /\ Ordered(Times(Sift(h, i, n), n), n)
<1> DEFINE d == SiftDown(h, i, n)
<1>1. d \in DownStates(h, i, n) /\ Settled(d, n)
  BY SiftsDown
<1> HIDE DEF d
<1>2. d.timer \in Timers /\ d.at \in 1 .. n /\ Rearranged(h, d.timer) /\ n \in 0 .. Len(d.timer.heap)
  BY <1>1 DEF DownStates, Rearranged
<1>3. Times(d.timer, n) \in [1 .. n -> Nat] /\ n \in Nat
  BY <1>2, TimesType
<1>4. CASE d.at > i
  <2>1. Sift(h, i, n) = d.timer
    BY <1>4 DEF Sift, d
  <2>2. OrderedAbove(Times(d.timer, n), d.at, n)
    BY <1>1, <1>4 DEF DownStates
  <2> QED BY <1>1, <1>2, <1>3, <2>1, <2>2, DownStopsOrdered DEF Settled
<1>5. CASE ~(d.at > i)
  <2>1. Sift(h, i, n) = SiftUp(h, i)
    BY <1>5 DEF Sift, d
  <2>2. d.at = i /\ d.timer = h
    BY <1>1, <1>5 DEF DownStates
  <2>3. OrderedBelow(Times(h, n), i, n)
    BY <1>1, <1>3, <2>2, DownStops DEF Settled
  <2> QED BY <2>1, <2>3, SiftsUp
<1> QED BY <1>4, <1>5

\* SiftDown_ alone does if node i is in order with its parent.
LEMMA SiftsDownOrdered ==
    ASSUME NEW h \in Timers, NEW n \in 0 .. Len(h.heap), NEW i \in 1 .. n,
           OrderedAbove(Times(h, n), i, n)
    PROVE  /\ Rearranged(h, SiftDown(h, i, n).timer)
           /\ Ordered(Times(SiftDown(h, i, n).timer, n), n)
<1> DEFINE d == SiftDown(h, i, n)
<1>1. d \in DownStates(h, i, n) /\ Settled(d, n)
  BY AboveIsAround, SiftsDown
<1> HIDE DEF d
<1>2. d.timer \in Timers /\ d.at \in 1 .. n /\ Rearranged(h, d.timer) /\ n \in 0 .. Len(d.timer.heap)
  BY <1>1 DEF DownStates, Rearranged
<1>3. Times(d.timer, n) \in [1 .. n -> Nat] /\ n \in Nat
  BY <1>2, TimesType
<1>4. OrderedAbove(Times(d.timer, n), d.at, n)
  BY <1>1 DEF DownStates
<1> QED BY <1>1, <1>2, <1>3, <1>4, DownStopsOrdered DEF Settled, d

----------------------------------------------------------------------------
(* Add, Adjust and Del_ keep a heap in order.                              *)

Good(h, b) ==
    /\ h \in Timers
    /\ Ordered(Times(h, Len(h.heap)), Len(h.heap))
    /\ Bounded(h, b)

\* A new time for the node at position r.
Reset(h, r, b) == [h EXCEPT !.heap[r].expires = b]

LEMMA ResetNode ==
    ASSUME NEW h \in Timers, NEW r \in 1 .. Len(h.heap), NEW b \in Nat, Bounded(h, b),
           NEW g, g = Reset(h, r, b)
    PROVE  /\ g \in Timers /\ Bounded(g, b) /\ Len(g.heap) = Len(h.heap)
           /\ \A k \in 1 .. Len(h.heap) :
                 Times(g, Len(h.heap))[k] = IF k = r THEN b ELSE Times(h, Len(h.heap))[k]
<1> DEFINE H == h.heap
           v == [H[r] EXCEPT !.expires = b]
           G == [H EXCEPT ![r] = v]
<1>1. H \in Seq(Nodes) /\ h.ref \in [Ids -> Nat] /\ H[r] \in Nodes
  BY DEF Timers
<1>2. v \in Nodes /\ v.expires = b
  BY <1>1 DEF Nodes
<1>3. g = [heap |-> G, ref |-> h.ref]
  BY DEF Timers, Reset
<1> HIDE DEF v
<1>4. G \in Seq(Nodes) /\ Len(G) = Len(H) /\ G[r] = v /\ \A k \in 1 .. Len(H) : k # r => G[k] = H[k]
  BY <1>1, <1>2
<1> HIDE DEF G
<1>5. g \in Timers /\ g.heap = G
  BY <1>1, <1>3, <1>4 DEF Timers
<1>6. Bounded(g, b)
  <2> SUFFICES ASSUME NEW k \in 1 .. Len(H) PROVE G[k].expires <= b
    BY <1>4, <1>5 DEF Bounded
  <2>1. CASE k = r
    BY <1>2, <1>4, <2>1
  <2>2. CASE k # r
    BY <1>4, <2>2 DEF Bounded
  <2> QED BY <2>1, <2>2
<1>7. ASSUME NEW k \in 1 .. Len(H)
      PROVE  Times(g, Len(H))[k] = IF k = r THEN b ELSE Times(h, Len(H))[k]
  <2>1. Times(g, Len(H))[k] = G[k].expires /\ Times(h, Len(H))[k] = H[k].expires
    BY <1>5 DEF Times
  <2> QED BY <1>2, <1>4, <2>1
<1> QED BY <1>4, <1>5, <1>6, <1>7

\* The latest time anywhere in a heap in order leaves all in order but the node's
\* children.
LEMMA ResetOrder ==
    ASSUME NEW n \in Nat, NEW e \in [1 .. n -> Nat], NEW f \in [1 .. n -> Nat],
           NEW r \in 1 .. n, NEW b \in Nat, Ordered(e, n), \A k \in 1 .. n : e[k] <= b,
           \A k \in 1 .. n : f[k] = IF k = r THEN b ELSE e[k]
    PROVE  OrderedAbove(f, r, n)
<1>1. \A j \in 2 .. n : j \div 2 \in 1 .. n /\ j \div 2 < j /\ j \in 1 .. n /\ e[j \div 2] <= e[j]
  BY Halves DEF Ordered, InOrder
<1>2. ASSUME NEW j \in 2 .. n, j \div 2 # r PROVE f[j \div 2] <= f[j]
  <2>1. f[j \div 2] = e[j \div 2]
    BY <1>1, <1>2
  <2> QED BY <1>1, <2>1
<1>3. ASSUME NEW j \in 2 .. n, j \div 2 = r, r > 1 PROVE f[r \div 2] <= f[j]
  <2>1. r \in 2 .. n /\ r \div 2 # r /\ j # r
    BY <1>1, <1>3
  <2>2. e[r \div 2] <= e[r] /\ e[r] <= e[j] /\ r \div 2 \in 1 .. n
    BY <1>1, <1>3, <2>1
  <2>3. f[r \div 2] = e[r \div 2] /\ f[j] = e[j]
    BY <1>1, <2>1, <2>2
  <2>4. e[r \div 2] \in Nat /\ e[r] \in Nat /\ e[j] \in Nat
    BY <1>1, <2>2
  <2> QED BY <2>2, <2>3, <2>4
<1> QED BY <1>2, <1>3 DEF OrderedAbove, InOrder, Bypass

LEMMA ResetAbove ==
    ASSUME NEW b \in Nat, NEW h, Good(h, b), NEW r \in 1 .. Len(h.heap),
           NEW g, g = Reset(h, r, b)
    PROVE  /\ g \in Timers /\ Bounded(g, b) /\ Len(g.heap) = Len(h.heap)
           /\ OrderedAbove(Times(g, Len(g.heap)), r, Len(g.heap))
<1> DEFINE n == Len(h.heap)
           e == Times(h, n)
           f == Times(g, n)
<1>1. h \in Timers /\ Bounded(h, b) /\ Ordered(e, n) /\ n \in Nat
  BY DEF Good, Timers
<1>2. /\ g \in Timers /\ Bounded(g, b) /\ Len(g.heap) = n
      /\ \A k \in 1 .. n : f[k] = IF k = r THEN b ELSE e[k]
  BY <1>1, ResetNode
<1>3. e \in [1 .. n -> Nat] /\ f \in [1 .. n -> Nat]
  <2>1. n \in 0 .. Len(h.heap) /\ n \in 0 .. Len(g.heap)
    BY <1>1, <1>2
  <2> QED BY <1>1, <1>2, <2>1, TimesType
<1>4. \A k \in 1 .. n : e[k] <= b
  BY <1>1 DEF Bounded, Times
<1> HIDE DEF e, f
<1>5. OrderedAbove(f, r, n)
  BY <1>1, <1>2, <1>3, <1>4, ResetOrder
<1> QED BY <1>2, <1>5 DEF f

LEMMA GoodAgain ==
    ASSUME NEW h, NEW g, NEW b \in Nat, Bounded(h, b), Rearranged(h, g),
           Ordered(Times(g, Len(h.heap)), Len(h.heap))
    PROVE  Good(g, b)
BY DEF Rearranged, Good

LEMMA AdjustIsGood ==
    ASSUME NEW b \in Nat, NEW h, Good(h, b), NEW id \in Ids, h.ref[id] \in 1 .. Len(h.heap)
    PROVE  Good(Adjust(h, id, b), b)
<1> DEFINE r == h.ref[id]
           g == Reset(h, r, b)
           n == Len(g.heap)
<1>1. g \in Timers /\ Bounded(g, b) /\ n = Len(h.heap) /\ OrderedAbove(Times(g, n), r, n)
  BY ResetAbove
<1>2. Adjust(h, id, b) = SiftDown(g, r, n).timer
  BY <1>1 DEF Adjust, Reset
<1>3. n \in 0 .. Len(g.heap) /\ r \in 1 .. n
  BY <1>1 DEF Timers
<1> HIDE DEF g
<1>4. Rearranged(g, Adjust(h, id, b)) /\ Ordered(Times(Adjust(h, id, b), n), n)
  BY <1>1, <1>2, <1>3, SiftsDownOrdered
<1> QED BY <1>1, <1>4, GoodAgain

LEMMA AddIsGood ==
    ASSUME NEW b \in Nat, NEW h, Good(h, b), NEW id \in Ids, h.ref[id] <= Len(h.heap)
    PROVE  Good(Add(h, id, b), b)
<1>0. h.heap \in Seq(Nodes) /\ h.ref \in [Ids -> Nat] /\ h \in Timers
  BY DEF Good, Timers
<1>1. CASE h.ref[id] # 0
  <2> DEFINE r == h.ref[id]
             g == Reset(h, r, b)
             n == Len(g.heap)
  <2>1. r \in 1 .. Len(h.heap)
    BY <1>0, <1>1
  <2>2. g \in Timers /\ Bounded(g, b) /\ n = Len(h.heap) /\ OrderedAbove(Times(g, n), r, n)
    BY <2>1, ResetAbove
  <2>3. Add(h, id, b) = Sift(g, r, n)
    BY <1>1, <2>2 DEF Add, Reset
  <2>4. n \in 0 .. Len(g.heap) /\ r \in 1 .. n
    BY <2>1, <2>2 DEF Timers
  <2> HIDE DEF g, r
  <2>5. Rearranged(g, Add(h, id, b)) /\ Ordered(Times(Add(h, id, b), n), n)
    BY <2>2, <2>3, <2>4, AboveIsAround, Sifts
  <2> QED BY <2>2, <2>5, GoodAgain
<1>2. CASE h.ref[id] = 0
  <2> DEFINE H == h.heap
             v == [id |-> id, expires |-> b]
             n == Len(H) + 1
             g == [heap |-> Append(H, v), ref |-> [h.ref EXCEPT ![id] = n]]
  <2>1. v \in Nodes /\ v.expires = b
    BY DEF Nodes
  <2>2. n \in Nat \ {0} /\ g.ref \in [Ids -> Nat]
    BY <1>0
  <2>3. Add(h, id, b) = SiftUp(g, n)
    BY <1>2 DEF Add
  <2> HIDE DEF v
  <2>4. /\ g.heap \in Seq(Nodes) /\ Len(g.heap) = n /\ g.heap[n] = v
        /\ \A k \in 1 .. n - 1 : g.heap[k] = H[k]
    BY <1>0, <2>1
  <2>5. g \in Timers
    BY <2>2, <2>4 DEF Timers
  <2>6. Bounded(g, b)
    <3> SUFFICES ASSUME NEW k \in 1 .. n PROVE g.heap[k].expires <= b
      BY <2>4 DEF Bounded
    <3>1. CASE k = n
      BY <2>1, <2>4, <3>1
    <3>2. CASE k # n
      <4>1. k \in 1 .. n - 1 /\ k \in 1 .. Len(H)
        BY <2>2, <3>2
      <4> QED BY <2>4, <4>1 DEF Good, Bounded
    <3> QED BY <3>1, <3>2
  <2>7. \A j \in 2 .. n : j # n => InOrder(Times(g, n), j)
    <3> SUFFICES ASSUME NEW j \in 2 .. n, j # n PROVE InOrder(Times(g, n), j)
      OBVIOUS
    <3>1. j \in 2 .. Len(H) /\ j \in 1 .. Len(H) /\ j \in 1 .. n /\ j \in 1 .. n - 1
      BY <2>2
    <3>2. j \div 2 \in 1 .. Len(H) /\ j \div 2 \in 1 .. n /\ j \div 2 \in 1 .. n - 1
      BY <2>2, <3>1, Halves
    <3>3. Times(g, n)[j] = Times(h, Len(H))[j] /\ Times(g, n)[j \div 2] = Times(h, Len(H))[j \div 2]
      BY <2>4, <3>1, <3>2 DEF Times
    <3>4. InOrder(Times(h, Len(H)), j)
      BY <3>1 DEF Good, Ordered
    <3> QED BY <3>3, <3>4 DEF InOrder
  <2>8. \A j \in 2 .. n : j \div 2 # n
    BY <2>2, Halves
  <2>9. OrderedBelow(Times(g, n), n, n)
    BY <2>7, <2>8 DEF OrderedBelow, Bypass
  <2>10. n \in 0 .. Len(g.heap) /\ n \in 1 .. n
    BY <2>2, <2>4
  <2> HIDE DEF g
  <2>11. Rearranged(g, SiftUp(g, n)) /\ Ordered(Times(SiftUp(g, n), n), n)
    BY <2>5, <2>9, <2>10, SiftsUp
  <2> QED BY <2>3, <2>4, <2>6, <2>11, GoodAgain
<1> QED BY <1>1, <1>2

\* Pop: the last node takes the root's place.
LEMMA DelIsGood ==
    ASSUME NEW b \in Nat, NEW h, Good(h, b), h.heap # <<>>
    PROVE  Good(Del(h, 1), b)
<1> DEFINE H == h.heap
           n == Len(H)
           moved == IF 1 < n THEN Sift(SwapNode(h, 1, n), 1, n - 1) ELSE h
           g == Del(h, 1)
<1>1. H \in Seq(Nodes) /\ h.ref \in [Ids -> Nat] /\ h \in Timers /\ n \in Nat \ {0} /\ n = Len(H)
  BY DEF Good, Timers
<1>2. Ordered(Times(h, n), n) /\ Bounded(h, b)
  BY DEF Good
<1>3. g = [heap |-> SubSeq(moved.heap, 1, n - 1), ref |-> [moved.ref EXCEPT ![moved.heap[1].id] = 0]]
  BY DEF Del
<1> HIDE DEF n, g
<1>11. n \in Nat /\ n # 0
  BY <1>1
<1>4. Rearranged(h, moved) /\ Ordered(Times(moved, n - 1), n - 1)
  <2>1. CASE 1 < n
    <3> DEFINE s == SwapNode(h, 1, n)
               k == n - 1
    <3>1. 1 \in 1 .. n /\ n \in 1 .. n /\ 1 # n /\ n \in 0 .. n /\ k \in Nat /\ k + 1 = n
      BY ONLY <1>11, <2>1
    <3>2. Rearranged(h, s) /\ Swapped(Times(h, n), Times(s, n), 1, n, n)
      <4>1. n \in 0 .. Len(h.heap) /\ 1 \in 1 .. Len(h.heap) /\ n \in 1 .. Len(h.heap)
            /\ 1 <= n /\ n <= n
        BY <1>1, <1>11, <3>1
      <4> QED BY <1>1, <3>1, <4>1, Swaps
    <3>3. s \in Timers /\ Len(s.heap) = n
      BY <1>1, <3>2 DEF Rearranged
    <3> HIDE DEF s
    <3>4. ASSUME NEW j \in 2 .. k, j \div 2 # 1 PROVE InOrder(Times(s, k), j)
      <4>1. j \in 2 .. n /\ j \in 1 .. n /\ j # 1 /\ j # n /\ j \in 1 .. k
        BY <3>1
      <4>2. j \div 2 \in 1 .. k /\ j \div 2 # 1 /\ j \div 2 # n /\ j \div 2 \in 1 .. n
        BY <3>1, <3>4, Halves
      <4>3. /\ Times(s, n)[j] = Times(h, n)[j]
            /\ Times(s, n)[j \div 2] = Times(h, n)[j \div 2]
        BY <3>2, <4>1, <4>2 DEF Swapped
      <4>4. Times(s, k)[j] = Times(s, n)[j] /\ Times(s, k)[j \div 2] = Times(s, n)[j \div 2]
        BY <4>1, <4>2 DEF Times
      <4>5. InOrder(Times(h, n), j)
        BY <1>2, <4>1 DEF Ordered
      <4> QED BY <4>3, <4>4, <4>5 DEF InOrder
    <3>5. OrderedAround(Times(s, k), 1, k)
      BY <3>4 DEF OrderedAround, Bypass
    <3>6. k \in 0 .. Len(s.heap) /\ 1 \in 1 .. k
      BY <2>1, <3>1, <3>3
    <3>7. Rearranged(s, Sift(s, 1, k)) /\ Ordered(Times(Sift(s, 1, k), k), k)
      BY <3>3, <3>5, <3>6, Sifts
    <3>8. moved = Sift(s, 1, k)
      BY <2>1 DEF s
    <3> QED BY <3>2, <3>7, <3>8, RearrangedTransitive
  <2>2. CASE ~(1 < n)
    <3>1. n - 1 = 0 /\ moved = h
      BY <1>11, <2>2
    <3>2. Ordered(Times(moved, n - 1), n - 1)
      BY <3>1 DEF Ordered
    <3> QED BY <1>1, <3>1, <3>2 DEF Rearranged
  <2> QED BY <2>1, <2>2
<1> HIDE DEF moved
<1>5. moved \in Timers /\ moved.heap \in Seq(Nodes) /\ moved.ref \in [Ids -> Nat] /\ Len(moved.heap) = n
      /\ Bounded(moved, b)
  BY <1>1, <1>4, <1>2 DEF Rearranged, Timers
<1>6. g.ref \in [Ids -> Nat]
  BY <1>3, <1>5
<1>7. g.heap \in Seq(Nodes) /\ Len(g.heap) = n - 1 /\ \A k \in 1 .. n - 1 : g.heap[k] = moved.heap[k]
  BY <1>1, <1>3, <1>5
<1>8. g \in Timers
  BY <1>3, <1>6, <1>7 DEF Timers
<1>9. Bounded(g, b)
  BY <1>1, <1>5, <1>7 DEF Bounded
<1>10. Times(g, n - 1) = Times(moved, n - 1)
  BY <1>7 DEF Times
<1> QED BY <1>4, <1>7, <1>8, <1>9, <1>10 DEF Good, g

----------------------------------------------------------------------------
(* The invariant.                                                          *)

TimerTypeOK ==
    /\ t \in Timers
    /\ now \in Nat /\ ticked \in Nat /\ until \in Nat \cup {Forever}

\* The first node's time, once Tick has left its loop and once the wait is computed.
FirstIsAhead ==
    /\ phase \in {"computed", "waiting"} /\ t.heap # <<>> => t.heap[1].expires > ticked
    /\ phase = "waiting" /\ t.heap # <<>> =>
          \/ until # Forever /\ until <= t.heap[1].expires
          \/ until = Forever /\ t.heap[1].expires < now

TimerIInv ==
    /\ TimerTypeOK
    /\ HeapOrdered
    /\ Bounded(t, now + Timeout)
    /\ FirstIsAhead

LEMMA GoodIs ==
    ASSUME NEW h \in Timers, NEW b
    PROVE  Good(h, b) <=>
              /\ \A i \in 2 .. Len(h.heap) : h.heap[i \div 2].expires <= h.heap[i].expires
              /\ Bounded(h, b)
<1> DEFINE n == Len(h.heap)
<1>1. n \in Nat
  BY DEF Timers
<1>2. ASSUME NEW j \in 2 .. n
      PROVE  InOrder(Times(h, n), j) <=> h.heap[j \div 2].expires <= h.heap[j].expires
  <2>1. j \in 1 .. n /\ j \div 2 \in 1 .. n
    BY <1>1, Halves
  <2> QED BY <2>1 DEF InOrder, Times
<1> QED BY <1>2 DEF Good, Ordered

\* The root has the earliest time.
LEMMA RootIsFirst ==
    ASSUME NEW n \in Nat, NEW e \in [1 .. n -> Nat], Ordered(e, n)
    PROVE  \A k \in 1 .. n : e[1] <= e[k]
<1> DEFINE Bad == {k \in 1 .. n : ~(e[1] <= e[k])}
<1> SUFFICES ASSUME Bad # {} PROVE FALSE
  OBVIOUS
<1>1. Bad \in SUBSET Nat
  OBVIOUS
<1>2. PICK k \in Bad : \A m \in Bad : k <= m
  <2> HIDE DEF Bad
  <2> QED BY <1>1, LeastNatural
<1>3. k \in 1 .. n /\ ~(e[1] <= e[k]) /\ e[1] \in Nat /\ e[k] \in Nat
  OBVIOUS
<1>4. k # 1
  BY <1>3
<1>5. k \in 2 .. n
  BY <1>3, <1>4
<1>6. k \div 2 \in 1 .. n /\ ~(k <= k \div 2)
  BY <1>5, Halves
<1>7. e[1] <= e[k \div 2] /\ e[k \div 2] \in Nat
  BY <1>2, <1>6
<1>8. e[k \div 2] <= e[k]
  BY <1>5 DEF Ordered, InOrder
<1> QED BY <1>3, <1>7, <1>8

LEMMA TimerInitIInv == TimerInit => TimerIInv
<1> SUFFICES ASSUME TimerInit PROVE TimerIInv
  OBVIOUS
<1>1. /\ t = [heap |-> <<>>, ref |-> [id \in Ids |-> 0]] /\ now = 0 /\ ticked = 0
      /\ until = Forever /\ phase = "tick"
  BY DEF TimerInit
<1>2. t.heap = <<>> /\ Len(t.heap) = 0 /\ t \in Timers
  BY <1>1 DEF Timers
<1>3. TimerTypeOK
  BY <1>1, <1>2 DEF TimerTypeOK
<1>4. HeapOrdered /\ Bounded(t, now + Timeout)
  BY <1>2 DEF HeapOrdered, Bounded
<1>5. FirstIsAhead
  BY <1>1 DEF FirstIsAhead
<1> QED BY <1>3, <1>4, <1>5 DEF TimerIInv

\* A step that leaves a heap in order, and is in Tick, keeps the invariant.
LEMMA BackInTick ==
    ASSUME TimerIInv, Good(t', now + Timeout), phase' = "tick",
           UNCHANGED <<now, until, ticked>>
    PROVE  TimerIInv'
<1>1. TimerTypeOK'
  BY DEF TimerIInv, TimerTypeOK, Good
<1>2. HeapOrdered' /\ Bounded(t, now + Timeout)'
  BY <1>1, GoodIs DEF TimerTypeOK, HeapOrdered
<1>3. FirstIsAhead'
  BY DEF FirstIsAhead
<1> QED BY <1>1, <1>2, <1>3 DEF TimerIInv

LEMMA NodeTimes ==
    ASSUME NEW h \in Timers
    PROVE  /\ \A k \in 1 .. Len(h.heap) : h.heap[k].expires \in Nat
           /\ h.heap # <<>> => h.heap[1].expires \in Nat
<1>1. h.heap \in Seq(Nodes)
  BY DEF Timers
<1>2. \A k \in 1 .. Len(h.heap) : h.heap[k] \in Nodes
  BY <1>1
<1>3. h.heap # <<>> => 1 \in 1 .. Len(h.heap)
  BY <1>1
<1> QED BY <1>2, <1>3 DEF Nodes

LEMMA TimerStep == TimerIInv /\ [TimerNext]_timer_vars => TimerIInv'
<1> SUFFICES ASSUME TimerIInv, [TimerNext]_timer_vars PROVE TimerIInv'
  OBVIOUS
<1> DEFINE b == now + Timeout
<1>1. /\ t \in Timers /\ now \in Nat /\ ticked \in Nat /\ until \in Nat \cup {Forever}
      /\ b \in Nat /\ now <= b
  BY HeapTimerAssumption DEF TimerIInv, TimerTypeOK
<1>2. Good(t, b)
  BY <1>1, GoodIs DEF TimerIInv, HeapOrdered
<1> HIDE DEF b
<1>3. CASE TickPop
  <2>1. Good(t', b) /\ phase' = "tick" /\ UNCHANGED <<now, until, ticked>>
    BY <1>1, <1>2, <1>3, DelIsGood DEF TickPop
  <2> QED BY <2>1, BackInTick DEF b
<1>4. CASE TickDone
  <2>1. t' = t /\ now' = now /\ until' = until /\ ticked' = now /\ phase' = "computed"
        /\ ~(t.heap # <<>> /\ t.heap[1].expires <= now)
    BY <1>4 DEF TickDone
  <2>2. t.heap # <<>> => t.heap[1].expires \in Nat
    BY <1>1, NodeTimes
  <2>3. FirstIsAhead'
    BY <1>1, <2>1, <2>2 DEF FirstIsAhead
  <2>4. TimerTypeOK' /\ HeapOrdered' /\ Bounded(t, now + Timeout)'
    BY <1>1, <2>1 DEF TimerIInv, TimerTypeOK, HeapOrdered, Bounded
  <2> QED BY <2>3, <2>4 DEF TimerIInv
<1>5. CASE NextTick
  <2>1. t' = t /\ now' = now /\ ticked' = ticked /\ phase' = "waiting" /\ phase = "computed"
        /\ until' = IF t.heap = <<>> \/ t.heap[1].expires < now THEN Forever ELSE t.heap[1].expires
    BY <1>5 DEF NextTick
  <2>2. t.heap # <<>> => t.heap[1].expires \in Nat
    BY <1>1, NodeTimes
  <2>3. FirstIsAhead'
    BY <1>1, <2>1, <2>2 DEF TimerIInv, FirstIsAhead, Forever
  <2>4. until' \in Nat \cup {Forever}
    BY <2>1, <2>2
  <2>5. TimerTypeOK' /\ HeapOrdered' /\ Bounded(t, now + Timeout)'
    BY <1>1, <2>1, <2>4 DEF TimerIInv, TimerTypeOK, HeapOrdered, Bounded
  <2> QED BY <2>3, <2>5 DEF TimerIInv
<1>6. CASE WaitEnds
  <2>1. Good(t', b) /\ phase' = "tick" /\ UNCHANGED <<now, until, ticked>>
    BY <1>2, <1>6 DEF WaitEnds
  <2> QED BY <2>1, BackInTick DEF b
<1>7. CASE TimePasses
  <2>1. now' = now + 1 /\ t' = t /\ phase' = phase /\ until' = until /\ ticked' = ticked
    BY <1>7 DEF TimePasses
  <2>2. \A k \in 1 .. Len(t.heap) : t.heap[k].expires \in Nat
    BY <1>1, NodeTimes
  <2>3. Bounded(t, now + Timeout)'
    BY <1>1, <2>1, <2>2, HeapTimerAssumption DEF TimerIInv, Bounded
  <2>4. t.heap # <<>> => t.heap[1].expires \in Nat
    BY <1>1, NodeTimes
  <2>5. FirstIsAhead'
    BY <1>1, <2>1, <2>4 DEF TimerIInv, FirstIsAhead
  <2>6. TimerTypeOK' /\ HeapOrdered'
    BY <1>1, <2>1 DEF TimerIInv, TimerTypeOK, HeapOrdered
  <2> QED BY <2>3, <2>5, <2>6 DEF TimerIInv
<1>8. ASSUME NEW id \in Ids, Accept(id) PROVE TimerIInv'
  <2>1. phase' = "tick" /\ UNCHANGED <<now, until, ticked>>
    BY <1>8 DEF Accept
  <2>2. Good(t', b)
    <3>1. CASE t' = t
      BY <1>2, <3>1
    <3>2. CASE t.ref[id] <= Len(t.heap) /\ t' = Add(t, id, b)
      BY <1>1, <1>2, <3>2, AddIsGood
    <3> QED BY <1>8, <3>1, <3>2 DEF Accept, b
  <2> QED BY <2>1, <2>2, BackInTick DEF b
<1>9. ASSUME NEW id \in Ids, Extend(id) PROVE TimerIInv'
  <2>1. phase' = "tick" /\ UNCHANGED <<now, until, ticked>>
    BY <1>9 DEF Extend
  <2>2. Good(t', b)
    <3>1. CASE t' = t
      BY <1>2, <3>1
    <3>2. CASE t.ref[id] \in 1 .. Len(t.heap) /\ t' = Adjust(t, id, b)
      BY <1>1, <1>2, <3>2, AdjustIsGood
    <3> QED BY <1>9, <3>1, <3>2 DEF Extend, b
  <2> QED BY <2>1, <2>2, BackInTick DEF b
<1>10. ASSUME NEW id \in Ids, Disconnect(id) PROVE TimerIInv'
  <2>1. Good(t', b) /\ phase' = "tick" /\ UNCHANGED <<now, until, ticked>>
    BY <1>2, <1>10 DEF Disconnect
  <2> QED BY <2>1, BackInTick DEF b
<1>11. CASE UNCHANGED timer_vars
  BY <1>11 DEF timer_vars, TimerIInv, TimerTypeOK, HeapOrdered, Bounded, FirstIsAhead
<1> QED BY <1>3, <1>4, <1>5, <1>6, <1>7, <1>8, <1>9, <1>10, <1>11 DEF TimerNext

\* heap_ stays a heap: whatever the descriptors, the timeout and the order of Add,
\* Adjust and Pop, and whichever node ref_ leads them to, no node expires before its
\* parent.
THEOREM TimerHeapOrdered == TimerSpec => []HeapOrdered
<1>1. TimerIInv => HeapOrdered
  BY DEF TimerIInv
<1> QED BY <1>1, TimerInitIInv, TimerStep, PTL DEF TimerSpec

LEMMA WaitFollows == TimerIInv => WaitEndsInTime
<1> SUFFICES ASSUME TimerIInv, phase = "waiting", NEW i \in 1 .. Len(t.heap)
             PROVE  /\ t.heap[i].expires > ticked
                    /\ \/ until # Forever /\ until <= t.heap[i].expires
                       \/ until = Forever /\ \E j \in 1 .. Len(t.heap) : t.heap[j].expires < now
  BY DEF WaitEndsInTime
<1> DEFINE n == Len(t.heap)
           e == Times(t, n)
<1>1. t \in Timers /\ n \in Nat /\ n \in 0 .. Len(t.heap) /\ now \in Nat /\ ticked \in Nat /\ until \in Nat \cup {Forever}
  BY DEF TimerIInv, TimerTypeOK, Timers
<1>2. e \in [1 .. n -> Nat]
  BY <1>1, TimesType
<1>3. Ordered(e, n)
  <2>1. Good(t, now + Timeout)
    BY <1>1, GoodIs DEF TimerIInv, HeapOrdered
  <2> QED BY <2>1 DEF Good
<1>4. 1 \in 1 .. n /\ i \in 1 .. n /\ t.heap # <<>>
  BY <1>1 DEF Timers
<1>5. e[1] = t.heap[1].expires /\ e[i] = t.heap[i].expires
  BY <1>4 DEF Times
<1> HIDE DEF e, n
<1>6. e[1] <= e[i] /\ e[1] \in Nat /\ e[i] \in Nat
  BY <1>1, <1>2, <1>3, <1>4, RootIsFirst
<1>7. /\ e[1] > ticked
      /\ (until # Forever /\ until <= e[1]) \/ (until = Forever /\ e[1] < now)
  BY <1>4, <1>5 DEF TimerIInv, FirstIsAhead
<1> QED BY <1>1, <1>4, <1>5, <1>6, <1>7 DEF n

\* The event loop sleeps past a deadline only if the clock passed the first one between
\* Tick's last look at it and the second reading in GetNextTick: whatever timers there
\* are, the root of heap_ is the earliest of them.
THEOREM TimerWaitEndsInTime == TimerSpec => []WaitEndsInTime
BY TimerInitIInv, TimerStep, WaitFollows, PTL DEF TimerSpec
==============================================================================
