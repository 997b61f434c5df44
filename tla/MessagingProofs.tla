--------------------------- MODULE MessagingProofs ---------------------------
(***************************************************************************)
(* Proofs about the way of a private message: the queue it waits in        *)
(* (MPSCQueue), for any set of producers and of nodes, and its life from   *)
(* the acknowledgement to a later login of its receiver (Messaging), for   *)
(* any users, batch size, limits and failures of the database.             *)
(*                                                                         *)
(* MPSCQueue.  The history variable linked lays the list out as a          *)
(* sequence, so that every pointer of the algorithm is a position in it:   *)
(* the consumer's at Len(delivered) + 1, a deleted node before that, a     *)
(* producer's old_tail not after tail_.  Only the last node has a null     *)
(* link, so a successful CAS on next always links at the end.  The queue   *)
(* implements FifoQueue: the CAS that links a node is where an enqueue     *)
(* takes effect, and a step maps to a step or leaves it alone.             *)
(*                                                                         *)
(* Messaging.  No property is inductive.  Messages with an id other than 0 *)
(* are told apart by it, so inserting a batch again, or a part of one that *)
(* timed out, replaces only rows without an id (Tables).  A message is     *)
(* accounted for from Enqueue on, before it is acknowledged (Accounts);    *)
(* the writer gives a batch up only after kMaxRetries failures of a        *)
(* session that serves, or once the server has left its loop (Serving).    *)
(* What a client shows depends on the answers on their way to it: one at   *)
(* most, behind pushes, and a sync among them shows what was stored before *)
(* the login (Wires).                                                      *)
(***************************************************************************)
EXTENDS MPSCQueue, Messaging, FiniteSetTheorems, SequenceTheorems, WellFoundedInduction, TLAPS

\* A leaf is tried with Zenon first: most need no arithmetic.
USE ZenonT(5), SMTT(30)

----------------------------------------------------------------------------
(* MPSCQueue.                                                              *)

N == Len(linked)

\* The list: consecutive nodes are linked, and no other node has a link.
Chain ==
    /\ N >= 1
    /\ \A i, j \in 1..N : linked[i] = linked[j] => i = j
    /\ \A i \in 1..N : linked[i] \in allocated
    /\ \A i \in 1..(N - 1) : next[linked[i]] = linked[i + 1]
    /\ \A n \in Nodes : (\A i \in 1..(N - 1) : n # linked[i]) => next[n] = Null

\* The consumer's end of the list.
Front ==
    /\ Len(delivered) < N
    /\ \A i \in 1..Len(delivered) : delivered[i] = linked[i + 1]
    /\ head_ = linked[Len(delivered) + 1]
    /\ cpc = "take" => /\ Len(delivered) + 2 <= N
                       /\ chead = head_
                       /\ cnext = linked[Len(delivered) + 2]
    /\ cpc = "delete" => /\ Len(delivered) >= 1
                         /\ chead = linked[Len(delivered)]
    /\ \A n \in freed : \E i \in 1..Len(delivered) : n = linked[i]

Inserting(p) == pc[p] \in {"load_tail", "load_next", "recheck", "cas_next", "help"}

\* The nodes of calls in progress are not in the list, and each is private.
Private ==
    \A p \in Producers :
        /\ Inserting(p) => /\ new_node[p] \in allocated
                           /\ \A i \in 1..N : new_node[p] # linked[i]
        /\ \A q \in Producers :
            p # q /\ Inserting(p) /\ Inserting(q) => new_node[p] # new_node[q]

\* old_tail[p] is the i-th node, not after tail_, and what p believes follows it does.
PointsAt(p, i) ==
    /\ old_tail[p] = linked[i]
    /\ \A j \in 1..N : tail_ = linked[j] => i <= j
    /\ pc[p] = "cas_tail" => i < N /\ new_node[p] = linked[i + 1]
    /\ pc[p] = "help" => next_seen[p] # Null
    /\ pc[p] \in {"recheck", "help"} /\ next_seen[p] # Null =>
        i < N /\ next_seen[p] = linked[i + 1]

\* The producers' end: where tail_ and the locals of enqueue point.
Back ==
    /\ \E i \in 1..N : tail_ = linked[i] /\ i >= N - 1
    /\ Private
    /\ \A p \in Producers : \E i \in 1..N : PointsAt(p, i)

IInv == TypeOK /\ Chain /\ Front /\ Back

----------------------------------------------------------------------------
LEMMA InitIInv == Init => IInv
<1> SUFFICES ASSUME Init PROVE IInv
  OBVIOUS
<1> USE QueueAssumption DEF Init, N
<1>1. Len(linked) = 1 /\ linked[1] = Dummy /\ Len(delivered) = 0
  OBVIOUS
<1>2. TypeOK
  BY DEF TypeOK
<1>3. Chain
  BY <1>1 DEF Chain
<1>4. Front
  BY <1>1 DEF Front
<1>5. Back
  BY <1>1 DEF Back, Private, PointsAt, Inserting
<1> QED BY <1>2, <1>3, <1>4, <1>5 DEF IInv

LEMMA NextTypeOK ==
    ASSUME IInv, [Next]_vars
    PROVE  TypeOK'
<1> USE QueueAssumption DEF TypeOK, Goto, producerVars, consumerVars
<1>0. TypeOK /\ N \in Nat /\ Len(delivered) \in Nat
  BY DEF IInv, N
<1>1. ASSUME NEW p \in Producers, Enqueue(p) PROVE TypeOK'
  <2>1. CASE Allocate(p)
    BY <1>0, <2>1 DEF Allocate
  <2>2. CASE LoadTail(p)
    BY <1>0, <2>2 DEF LoadTail
  <2>3. CASE LoadNext(p)
    BY <1>0, <2>3 DEF LoadNext
  <2>4. CASE Recheck(p)
    BY <1>0, <2>4 DEF Recheck
  <2>5. CASE CasNext(p)
    BY <1>0, <2>5 DEF CasNext
  <2>6. CASE CasNextFails(p)
    BY <1>0, <2>6 DEF CasNextFails
  <2>7. CASE CasTail(p)
    BY <1>0, <2>7 DEF CasTail
  <2>8. CASE HelpTail(p)
    <3>1. next_seen[p] # Null
      BY <2>8 DEF HelpTail, IInv, Back, PointsAt
    <3> QED BY <1>0, <2>8, <3>1 DEF HelpTail
  <2>9. CASE DereferencesFreed(p)
    BY <1>0, <2>9 DEF DereferencesFreed
  <2> QED BY <1>1, <2>1, <2>2, <2>3, <2>4, <2>5, <2>6, <2>7, <2>8, <2>9 DEF Enqueue
<1>2. CASE DequeueLoad
  BY <1>0, <1>2 DEF DequeueLoad
<1>3. CASE DequeueTake
  <2>1. cnext \in Nodes
    BY <1>0, <1>3 DEF DequeueTake, IInv, Front, N
  <2> QED BY <1>0, <1>3, <2>1 DEF DequeueTake
<1>4. CASE DequeueDelete
  BY <1>0, <1>4 DEF DequeueDelete
<1>5. CASE UNCHANGED vars
  BY <1>0, <1>5 DEF vars
<1> QED BY <1>1, <1>2, <1>3, <1>4, <1>5 DEF Next, Dequeue

\* A CAS on next succeeds only at the last node, and then tail_ is there too.
LEMMA LinkAtEnd ==
    ASSUME IInv, NEW p \in Producers, CasNext(p)
    PROVE  old_tail[p] = linked[N] /\ tail_ = linked[N]
<1>0. TypeOK /\ N \in Nat /\ N >= 1
  BY DEF IInv, N, TypeOK, Chain
<1>1. PICK i \in 1..N : /\ old_tail[p] = linked[i]
                        /\ \A j \in 1..N : tail_ = linked[j] => i <= j
  BY DEF IInv, Back, PointsAt
<1>2. PICK k \in 1..N : tail_ = linked[k]
  BY DEF IInv, Back
<1>3. i = N
  <2> SUFFICES ASSUME i < N PROVE FALSE
    BY <1>0
  <2>1. i \in 1..(N - 1) /\ i + 1 \in 1..N
    BY <1>0
  <2>2. next[old_tail[p]] = linked[i + 1] /\ linked[i + 1] \in Nodes
    BY <1>0, <1>1, <2>1 DEF IInv, Chain, N, TypeOK
  <2> QED BY <2>2, QueueAssumption DEF CasNext
<1> QED BY <1>0, <1>1, <1>2, <1>3

LEMMA NextChain ==
    ASSUME IInv, [Next]_vars
    PROVE  Chain'
<1>0. TypeOK /\ Chain /\ N \in Nat /\ linked \in Seq(Nodes)
  BY DEF IInv, N, TypeOK
<1>1. ASSUME NEW p \in Producers, CasNext(p) PROVE Chain'
  <2>1. old_tail[p] = linked[N] /\ N >= 1
    BY <1>1, LinkAtEnd DEF IInv, Chain
  <2>2. new_node[p] \in allocated /\ new_node[p] \in Nodes
        /\ \A i \in 1..N : new_node[p] # linked[i]
    BY <1>1 DEF CasNext, IInv, Back, Private, Inserting, TypeOK
  <2>3. /\ linked' = Append(linked, new_node[p])
        /\ next' = [next EXCEPT ![linked[N]] = new_node[p]]
        /\ allocated' = allocated
    BY <1>1, <2>1 DEF CasNext
  <2>4. /\ N' = N + 1
        /\ \A i \in 1..N : linked'[i] = linked[i]
        /\ linked'[N + 1] = new_node[p]
    BY <1>0, <2>2, <2>3 DEF N
  <2>5. \A i, j \in 1..(N + 1) : linked'[i] = linked'[j] => i = j
    BY <1>0, <2>2, <2>4 DEF Chain
  <2>6. \A i \in 1..(N + 1) : linked'[i] \in allocated
    BY <1>0, <2>2, <2>4 DEF Chain
  <2>7. \A i \in 1..N : next'[linked'[i]] = linked'[i + 1]
    <3> SUFFICES ASSUME NEW i \in 1..N PROVE next'[linked'[i]] = linked'[i + 1]
      OBVIOUS
    <3>0. linked[i] \in Nodes /\ linked[N] \in Nodes /\ next \in [Nodes -> Nodes \cup {Null}]
      BY <1>0, <2>1 DEF N, TypeOK
    <3>1. CASE i = N
      BY <2>3, <2>4, <3>0, <3>1
    <3>2. CASE i < N
      <4>1. linked[i] # linked[N] /\ next[linked[i]] = linked[i + 1]
        BY <1>0, <2>1, <3>2 DEF Chain
      <4>2. i + 1 \in 1..N
        BY <1>0, <3>2
      <4>3. linked'[i] = linked[i] /\ linked'[i + 1] = linked[i + 1]
        BY <2>4, <4>2
      <4>4. next'[linked[i]] = next[linked[i]]
        BY <2>3, <3>0, <4>1
      <4> QED BY <4>1, <4>3, <4>4
    <3> QED BY <3>1, <3>2, <1>0
  <2>8. \A n \in Nodes : (\A i \in 1..N : n # linked'[i]) => next'[n] = Null
    <3> SUFFICES ASSUME NEW n \in Nodes, \A i \in 1..N : n # linked'[i]
                 PROVE  next'[n] = Null
      OBVIOUS
    <3>1. \A i \in 1..N : n # linked[i]
      BY <2>4
    <3>2. next[n] = Null
      BY <1>0, <3>1 DEF Chain
    <3> QED BY <1>0, <2>1, <2>3, <3>1, <3>2 DEF TypeOK
  <2>9. N' - 1 = N /\ N' >= 1
    BY <1>0, <2>4
  <2>10. \A i \in 1..(N' - 1) : next'[linked'[i]] = linked'[i + 1]
    BY <2>7, <2>9
  <2>11. \A n \in Nodes : (\A i \in 1..(N' - 1) : n # linked'[i]) => next'[n] = Null
    BY <2>8, <2>9
  <2>12. \A i, j \in 1..N' : linked'[i] = linked'[j] => i = j
    BY <2>5, <2>4
  <2>13. \A i \in 1..N' : linked'[i] \in allocated'
    BY <2>6, <2>4, <2>3
  <2> QED BY <2>9, <2>10, <2>11, <2>12, <2>13 DEF Chain
<1>2. ASSUME NEW p \in Producers, Allocate(p) PROVE Chain'
  BY <1>0, <1>2 DEF Allocate, Chain, N, consumerVars
<1>3. ASSUME UNCHANGED <<linked, next, allocated>> PROVE Chain'
  BY <1>0, <1>3 DEF Chain, N
<1>4. [Next]_vars =>
        \/ \E p \in Producers : CasNext(p) \/ Allocate(p)
        \/ UNCHANGED <<linked, next, allocated>>
  BY DEF Next, Enqueue, Dequeue, LoadTail, LoadNext, Recheck, CasNextFails, CasTail,
         HelpTail, DereferencesFreed, DequeueLoad, DequeueTake, DequeueDelete, vars
<1> QED BY <1>1, <1>2, <1>3, <1>4

\* The list only grows at its end.
LEMMA LinkedGrows ==
    ASSUME IInv, [Next]_vars
    PROVE  /\ N \in Nat /\ N' \in Nat /\ N >= 1
           /\ N' >= N
           /\ \A i \in 1..N : linked'[i] = linked[i]
<1>0. TypeOK /\ N \in Nat /\ N >= 1 /\ linked \in Seq(Nodes)
  BY DEF IInv, N, TypeOK, Chain
<1>1. ASSUME NEW p \in Producers, CasNext(p)
      PROVE  N' = N + 1 /\ \A i \in 1..N : linked'[i] = linked[i]
  <2>1. new_node[p] \in Nodes
    BY <1>0 DEF TypeOK
  <2>2. linked' = Append(linked, new_node[p])
    BY <1>1 DEF CasNext
  <2> QED BY <1>0, <2>1, <2>2 DEF N
<1>2. (\E p \in Producers : CasNext(p)) \/ linked' = linked
  BY DEF Next, Enqueue, Dequeue, Allocate, LoadTail, LoadNext, Recheck, CasNextFails, CasTail,
         HelpTail, DereferencesFreed, DequeueLoad, DequeueTake, DequeueDelete, vars
<1>3. CASE linked' = linked
  BY <1>0, <1>3 DEF N
<1> QED BY <1>0, <1>1, <1>2, <1>3

LEMMA NextFront ==
    ASSUME IInv, [Next]_vars
    PROVE  Front'
<1> DEFINE D == Len(delivered)
<1>0. /\ TypeOK /\ Chain /\ Front
      /\ N \in Nat /\ D \in Nat /\ linked \in Seq(Nodes) /\ delivered \in Seq(Nodes)
  BY DEF IInv, N, TypeOK
<1>1. /\ N' \in Nat /\ N' >= N
      /\ \A i \in 1..N : linked'[i] = linked[i]
  BY LinkedGrows
<1>2. CASE UNCHANGED <<delivered, head_, consumerVars, freed>>
  BY <1>0, <1>1, <1>2 DEF Front, consumerVars
<1>3. CASE DequeueLoad
  <2>1. D + 2 <= N /\ next[head_] = linked[D + 2]
    <3>1. D + 1 \in 1..N /\ head_ = linked[D + 1] /\ head_ \in Nodes
      BY <1>0 DEF Front, TypeOK
    <3>2. D + 1 # N
      <4> SUFFICES ASSUME D + 1 = N PROVE FALSE
        OBVIOUS
      <4>1. \A i \in 1..(N - 1) : head_ # linked[i]
        BY <1>0, <3>1 DEF Chain
      <4> QED BY <1>0, <1>3, <3>1, <4>1 DEF Chain, DequeueLoad
    <3>3. D + 1 \in 1..(N - 1)
      BY <1>0, <3>1, <3>2
    <3> QED BY <1>0, <3>1, <3>3 DEF Chain
  <2>2. /\ chead' = head_ /\ cnext' = linked[D + 2] /\ cpc' = "take"
        /\ delivered' = delivered /\ head_' = head_ /\ freed' = freed /\ linked' = linked
    BY <1>3, <2>1 DEF DequeueLoad
  <2>3. N' = N
    BY <2>2 DEF N
  <2> QED BY <1>0, <2>1, <2>2, <2>3 DEF Front
<1>4. CASE DequeueTake
  <2>1. /\ D + 2 <= N /\ chead = linked[D + 1] /\ cnext = linked[D + 2] /\ cnext \in Nodes
    BY <1>0, <1>4 DEF Front, DequeueTake, N
  <2>2. /\ delivered' = Append(delivered, cnext) /\ head_' = cnext /\ cpc' = "delete"
        /\ chead' = chead /\ freed' = freed /\ linked' = linked
    BY <1>4 DEF DequeueTake
  <2>3. /\ Len(delivered') = D + 1 /\ N' = N
        /\ \A i \in 1..D : delivered'[i] = delivered[i]
        /\ delivered'[D + 1] = cnext
    BY <1>0, <2>1, <2>2 DEF N
  <2>4. \A i \in 1..(D + 1) : delivered'[i] = linked[i + 1]
    <3> SUFFICES ASSUME NEW i \in 1..(D + 1) PROVE delivered'[i] = linked[i + 1]
      OBVIOUS
    <3>1. CASE i = D + 1
      BY <2>1, <2>3, <3>1, <1>0
    <3>2. CASE i \in 1..D
      BY <2>3, <3>2, <1>0 DEF Front
    <3> QED BY <3>1, <3>2, <1>0
  <2>5. \A n \in freed : \E i \in 1..(D + 1) : n = linked[i]
    BY <1>0 DEF Front
  <2> QED BY <1>0, <2>1, <2>2, <2>3, <2>4, <2>5 DEF Front
<1>5. CASE DequeueDelete
  <2>1. D >= 1 /\ chead = linked[D]
    BY <1>0, <1>5 DEF Front, DequeueDelete
  <2>2. /\ delivered' = delivered /\ head_' = head_ /\ linked' = linked
        /\ cpc' = "idle" /\ freed' = freed \cup {chead}
    BY <1>5 DEF DequeueDelete
  <2>3. N' = N
    BY <2>2 DEF N
  <2> QED BY <1>0, <2>1, <2>2, <2>3 DEF Front
<1> QED
  BY <1>2, <1>3, <1>4, <1>5
  DEF Next, Enqueue, Dequeue, Allocate, LoadTail, LoadNext, Recheck, CasNext,
      CasNextFails, CasTail, HelpTail, DereferencesFreed, vars, consumerVars

LEMMA NextPrivate ==
    ASSUME IInv, [Next]_vars
    PROVE  Private'
<1>0. /\ TypeOK /\ Chain /\ Private /\ N \in Nat /\ linked \in Seq(Nodes)
  BY DEF IInv, N, TypeOK, Back
<1>1. ASSUME NEW p \in Producers, CasNext(p) PROVE Private'
  <2>1. /\ linked' = Append(linked, new_node[p]) /\ new_node[p] \in Nodes
        /\ pc' = [pc EXCEPT ![p] = "cas_tail"] /\ pc[p] = "cas_next"
        /\ new_node' = new_node /\ allocated' = allocated
    BY <1>0, <1>1 DEF CasNext, Goto, TypeOK
  <2>2. /\ N' = N + 1
        /\ \A i \in 1..N : linked'[i] = linked[i]
        /\ linked'[N + 1] = new_node[p]
    BY <1>0, <2>1 DEF N
  <2>3. ~Inserting(p)' /\ Inserting(p)
    BY <1>0, <2>1 DEF Inserting, TypeOK
  <2>4. \A q \in Producers : q # p => (Inserting(q)' <=> Inserting(q))
    BY <1>0, <2>1 DEF Inserting, TypeOK
  <2>5. \A q \in Producers : Inserting(q)' =>
            \A i \in 1..N' : new_node[q] # linked'[i]
    <3> SUFFICES ASSUME NEW q \in Producers, Inserting(q)', NEW i \in 1..N'
                 PROVE  new_node[q] # linked'[i]
      OBVIOUS
    <3>1. q # p /\ Inserting(q)
      BY <2>3, <2>4
    <3>2. CASE i = N + 1
      BY <1>0, <2>2, <2>3, <3>1, <3>2 DEF Private
    <3>3. CASE i \in 1..N
      BY <1>0, <2>2, <3>1, <3>3 DEF Private
    <3> QED BY <1>0, <2>2, <3>2, <3>3
  <2>6. \A q \in Producers : Inserting(q)' => q # p /\ Inserting(q)
    BY <2>3, <2>4
  <2> QED BY <1>0, <2>1, <2>5, <2>6 DEF Private
<1>2. ASSUME NEW p \in Producers, Allocate(p) PROVE Private'
  <2>1. PICK n \in Nodes \ allocated :
            /\ allocated' = allocated \cup {n}
            /\ new_node' = [new_node EXCEPT ![p] = n]
    BY <1>2 DEF Allocate
  <2>2. linked' = linked /\ N' = N /\ \A q \in Producers : q # p => pc'[q] = pc[q]
    BY <1>0, <1>2 DEF Allocate, N, Goto, TypeOK
  <2>3. \A i \in 1..N : linked[i] # n
    BY <1>0, <2>1 DEF Chain
  <2>4. \A q \in Producers : q # p => (Inserting(q)' <=> Inserting(q)) /\ new_node'[q] = new_node[q]
    BY <1>0, <2>1, <2>2 DEF Inserting, TypeOK
  <2>5. new_node'[p] = n
    BY <1>0, <2>1 DEF TypeOK
  <2> QED BY <1>0, <2>1, <2>2, <2>3, <2>4, <2>5 DEF Private
<1>3. ASSUME NEW p \in Producers,
             UNCHANGED <<linked, allocated, new_node>>,
             NEW label, pc' = [pc EXCEPT ![p] = label],
             Inserting(p) \/ label \in {"idle", "undefined"}
      PROVE  Private'
  <2>1. \A q \in Producers : Inserting(q)' => Inserting(q)
    BY <1>0, <1>3 DEF Inserting, TypeOK
  <2> QED BY <1>0, <1>3, <2>1 DEF Private, N
<1>4. ASSUME NEW p \in Producers,
             \/ LoadTail(p) \/ LoadNext(p) \/ Recheck(p) \/ CasNextFails(p)
             \/ CasTail(p) \/ HelpTail(p) \/ DereferencesFreed(p)
      PROVE  Private'
  <2>1. \E label : /\ UNCHANGED <<linked, allocated, new_node>>
                   /\ pc' = [pc EXCEPT ![p] = label]
                   /\ Inserting(p) \/ label \in {"idle", "undefined"}
    BY <1>4 DEF LoadTail, LoadNext, Recheck, CasNextFails, CasTail, HelpTail,
                DereferencesFreed, Goto, Inserting
  <2> QED BY <1>3, <2>1
<1>5. CASE UNCHANGED <<linked, allocated, new_node, pc>>
  BY <1>0, <1>5 DEF Private, Inserting, N
<1> QED
  BY <1>1, <1>2, <1>4, <1>5
  DEF Next, Enqueue, Dequeue, DequeueLoad, DequeueTake, DequeueDelete, producerVars, vars

\* A swing of tail_ from the i-th node to the next one, by CasTail or by HelpTail.
LEMMA TailSwing ==
    ASSUME IInv, NEW p \in Producers, NEW i \in 1..N, PointsAt(p, i),
           tail_ = old_tail[p], i < N, tail_' = linked[i + 1],
           UNCHANGED <<linked, old_tail, new_node, next_seen>>,
           NEW label \in {"idle", "load_tail"}, pc' = [pc EXCEPT ![p] = label]
    PROVE  /\ \E k \in 1..N' : tail_' = linked'[k] /\ k >= N' - 1
           /\ \A q \in Producers : \E k \in 1..N' : PointsAt(q, k)'
<1>0. TypeOK /\ Chain /\ Back /\ N \in Nat /\ N' = N
  BY DEF IInv, N, TypeOK
<1>1. PICK k \in 1..N : tail_ = linked[k] /\ k >= N - 1
  BY <1>0 DEF Back
<1>2. k = i
  BY <1>0, <1>1 DEF PointsAt, Chain
<1>3. i + 1 \in 1..N' /\ i + 1 >= N' - 1 /\ tail_' = linked'[i + 1]
  BY <1>0, <1>1, <1>2
<1>4. ASSUME NEW q \in Producers PROVE \E m \in 1..N' : PointsAt(q, m)'
  <2>1. PICK m \in 1..N : PointsAt(q, m)
    BY <1>0 DEF Back
  <2>2. m <= i
    BY <1>1, <1>2, <2>1 DEF PointsAt
  <2>3. \A j \in 1..N' : tail_' = linked'[j] => m <= j
    <3> SUFFICES ASSUME NEW j \in 1..N', tail_' = linked'[j] PROVE m <= j
      OBVIOUS
    <3>1. j \in 1..N /\ i + 1 \in 1..N /\ linked[j] = linked[i + 1]
      BY <1>0, <1>3
    <3>2. j = i + 1
      BY <1>0, <3>1 DEF Chain
    <3> QED BY <2>2, <3>2
  <2>4. pc'[q] \in {"cas_tail", "help", "recheck"} => pc'[q] = pc[q]
    BY <1>0 DEF TypeOK
  <2>5. PointsAt(q, m)'
    BY <1>0, <2>1, <2>3, <2>4 DEF PointsAt
  <2> QED BY <1>0, <2>5
<1> QED BY <1>3, <1>4

LEMMA NextBack ==
    ASSUME IInv, [Next]_vars
    PROVE  Back'
<1> DEFINE TailAt == \E i \in 1..N : tail_ = linked[i] /\ i >= N - 1
           Points == \A q \in Producers : \E i \in 1..N : PointsAt(q, i)
<1>0. /\ TypeOK /\ Chain /\ TailAt /\ Points /\ N \in Nat
  BY DEF IInv, N, TypeOK, Back
<1>1. ASSUME NEW p \in Producers, CasNext(p) PROVE TailAt' /\ Points'
  <2>1. /\ linked' = Append(linked, new_node[p]) /\ new_node[p] \in Nodes
        /\ pc' = [pc EXCEPT ![p] = "cas_tail"] /\ pc[p] = "cas_next"
        /\ UNCHANGED <<tail_, old_tail, new_node, next_seen>>
    BY <1>0, <1>1 DEF CasNext, Goto, TypeOK
  <2>2. /\ N' = N + 1 /\ linked'[N + 1] = new_node[p]
        /\ \A i \in 1..N : linked'[i] = linked[i]
    BY <1>0, <2>1 DEF N, TypeOK
  <2>3. tail_ = linked[N] /\ old_tail[p] = linked[N]
    BY <1>1, LinkAtEnd
  <2>4. new_node[p] # linked[N]
    BY <1>0, <2>1 DEF IInv, Back, Private, Inserting, Chain
  <2>5. TailAt'
    <3>1. N \in 1..N
      BY <1>0 DEF Chain
    <3>2. N \in 1..N' /\ N >= N' - 1
      BY <2>2, <3>1
    <3>3. tail_' = linked'[N]
      BY <2>1, <2>2, <2>3, <3>1
    <3> QED BY <3>2, <3>3
  <2>6. \A j \in 1..N' : tail_' = linked'[j] => j = N
    <3> SUFFICES ASSUME NEW j \in 1..N', tail_' = linked'[j] PROVE j = N
      OBVIOUS
    <3>1. j # N + 1
      BY <2>1, <2>2, <2>3, <2>4
    <3>2. j \in 1..N /\ N \in 1..N
      BY <1>0, <2>2, <3>1 DEF Chain
    <3>3. linked[j] = linked[N]
      BY <2>1, <2>2, <2>3, <3>2
    <3> QED BY <1>0, <3>2, <3>3 DEF Chain
  <2>7. ASSUME NEW q \in Producers PROVE \E i \in 1..N' : PointsAt(q, i)'
    <3>1. CASE q = p
      <4>1. PICK k \in 1..N : k = N
        BY <1>0 DEF Chain
      <4>2. PointsAt(p, k)'
        <5>1. pc'[p] = "cas_tail" /\ k < N'
          BY <1>0, <2>1, <2>2, <4>1 DEF TypeOK
        <5>2. old_tail'[p] = linked'[k] /\ new_node'[p] = linked'[k + 1]
          BY <2>1, <2>2, <2>3, <4>1
        <5>3. \A j \in 1..N' : tail_' = linked'[j] => k <= j
          BY <1>0, <2>6, <4>1
        <5> QED BY <5>1, <5>2, <5>3 DEF PointsAt
      <4> QED BY <1>0, <2>2, <3>1, <4>2
    <3>2. CASE q # p
      <4>1. PICK i \in 1..N : PointsAt(q, i)
        BY <1>0
      <4>2. pc'[q] = pc[q]
        BY <1>0, <2>1, <3>2 DEF TypeOK
      <4>3. i < N => i + 1 \in 1..N
        BY <1>0
      <4>4. PointsAt(q, i)'
        <5>1. \A j \in 1..N' : tail_' = linked'[j] => i <= j
          BY <1>0, <2>6
        <5>2. /\ linked'[i] = linked[i]
              /\ i < N => i < N' /\ linked'[i + 1] = linked[i + 1]
          BY <1>0, <2>2, <4>3
        <5>3. /\ old_tail'[q] = old_tail[q] /\ new_node'[q] = new_node[q]
              /\ next_seen'[q] = next_seen[q]
          BY <2>1
        <5> QED BY <4>1, <4>2, <5>1, <5>2, <5>3 DEF PointsAt
      <4> QED BY <1>0, <2>2, <4>4
    <3> QED BY <3>1, <3>2
  <2> QED BY <2>5, <2>7
\* Steps of p that leave the list and tail_ alone.
<1>2. ASSUME NEW p \in Producers, UNCHANGED <<linked, tail_>>,
             \A q \in Producers : q # p =>
                /\ pc'[q] = pc[q] /\ old_tail'[q] = old_tail[q]
                /\ new_node'[q] = new_node[q] /\ next_seen'[q] = next_seen[q],
             \E i \in 1..N : PointsAt(p, i)'
      PROVE  TailAt' /\ Points'
  <2>1. N' = N
    BY <1>2 DEF N
  <2>2. ASSUME NEW q \in Producers, q # p PROVE \E i \in 1..N' : PointsAt(q, i)'
    BY <1>0, <1>2, <2>1, <2>2 DEF PointsAt
  <2> QED BY <1>0, <1>2, <2>1, <2>2
<1>3. ASSUME NEW p \in Producers, LoadTail(p) PROVE TailAt' /\ Points'
  <2>1. PICK i \in 1..N : tail_ = linked[i]
    BY <1>0
  <2>2. PointsAt(p, i)'
    BY <1>0, <1>3, <2>1 DEF LoadTail, Goto, PointsAt, TypeOK, Chain, N
  <2> QED BY <1>0, <1>2, <1>3, <2>2 DEF LoadTail, Goto, TypeOK
<1>4. ASSUME NEW p \in Producers, LoadNext(p) PROVE TailAt' /\ Points'
  <2>1. PICK i \in 1..N : PointsAt(p, i)
    BY <1>0
  <2>2. i < N => next[linked[i]] = linked[i + 1]
    BY <1>0 DEF Chain
  <2>3. i = N => next[linked[i]] = Null
    <3> HAVE i = N
    <3>1. linked[i] \in Nodes
      BY <1>0 DEF TypeOK, N
    <3>2. \A j \in 1..(N - 1) : j \in 1..N /\ j # i
      BY <1>0
    <3>3. \A j \in 1..(N - 1) : linked[i] # linked[j]
      BY <1>0, <3>2 DEF Chain
    <3> QED BY <1>0, <3>1, <3>3 DEF Chain
  <2>4. PointsAt(p, i)'
    BY <1>0, <1>4, <2>1, <2>2, <2>3 DEF LoadNext, Goto, PointsAt, TypeOK, N
  <2> QED BY <1>0, <1>2, <1>4, <2>4 DEF LoadNext, Goto, TypeOK
<1>5. ASSUME NEW p \in Producers,
             Allocate(p) \/ Recheck(p) \/ CasNextFails(p) \/ DereferencesFreed(p)
      PROVE  TailAt' /\ Points'
  <2>1. PICK i \in 1..N : PointsAt(p, i)
    BY <1>0
  <2>2. PointsAt(p, i)'
    BY <1>0, <1>5, <2>1
    DEF Allocate, Recheck, CasNextFails, DereferencesFreed, Goto, PointsAt, TypeOK, N
  <2> QED
    BY <1>0, <1>2, <1>5, <2>2
    DEF Allocate, Recheck, CasNextFails, DereferencesFreed, Goto, TypeOK
<1>6. ASSUME NEW p \in Producers, CasTail(p) \/ HelpTail(p) PROVE TailAt' /\ Points'
  <2>1. PICK i \in 1..N : PointsAt(p, i)
    BY <1>0
  <2>2. CASE tail_ = old_tail[p]
    <3>1. i < N /\ tail_' = linked[i + 1]
      BY <1>6, <2>1, <2>2 DEF CasTail, HelpTail, PointsAt
    <3> QED
      BY <1>6, <2>1, <2>2, <3>1, TailSwing DEF CasTail, HelpTail, Goto
  <2>3. CASE tail_ # old_tail[p]
    <3>1. tail_' = tail_
      BY <1>6, <2>3 DEF CasTail, HelpTail
    <3>2. PointsAt(p, i)'
      BY <1>0, <1>6, <2>1, <3>1 DEF CasTail, HelpTail, Goto, PointsAt, TypeOK, N
    <3> QED BY <1>0, <1>2, <1>6, <3>1, <3>2 DEF CasTail, HelpTail, Goto, TypeOK
  <2> QED BY <2>2, <2>3
<1>7. ASSUME UNCHANGED <<linked, tail_, producerVars>> PROVE TailAt' /\ Points'
  <2>1. N' = N /\ UNCHANGED <<linked, tail_, pc, new_node, old_tail, next_seen>>
    BY <1>7 DEF N, producerVars
  <2>2. TailAt'
    BY <1>0, <2>1
  <2>3. \A q \in Producers : \A i \in 1..N : PointsAt(q, i) => PointsAt(q, i)'
    BY <2>1 DEF PointsAt
  <2>4. Points'
    BY <1>0, <2>1, <2>3
  <2> QED BY <2>2, <2>4
<1>8. UNCHANGED vars \/ Dequeue => UNCHANGED <<linked, tail_, producerVars>>
  BY DEF Dequeue, DequeueLoad, DequeueTake, DequeueDelete, vars
<1>9. TailAt' /\ Points'
  <2> HIDE DEF TailAt, Points
  <2> QED BY <1>1, <1>3, <1>4, <1>5, <1>6, <1>7, <1>8 DEF Next, Enqueue
<1> QED BY <1>9, NextPrivate DEF Back

----------------------------------------------------------------------------
\* The inductive invariant holds in every behaviour of the queue.
THEOREM IInvInvariant == Spec => []IInv
<1>1. IInv /\ [Next]_vars => IInv'
  BY NextTypeOK, NextChain, NextFront, NextBack DEF IInv
<1> QED BY InitIInv, <1>1, PTL DEF Spec

\* The members and locals of MPSCQueue keep their types.
THEOREM TypeCorrect == Spec => []TypeOK
<1>1. IInv => TypeOK
  BY DEF IInv
<1> QED BY IInvInvariant, <1>1, PTL

\* With any number of producers, dequeue returns every element at most once and in
\* the order in which enqueue's compare-and-exchange on next linked them.
THEOREM QueueIsFifo == Spec => []DeliveredInLinkOrder
<1>1. IInv => DeliveredInLinkOrder
  BY DEF IInv, Front, Chain, N, DeliveredInLinkOrder
<1> QED BY IInvInvariant, <1>1, PTL

\* tail_ is never more than one link behind the end of the list.
THEOREM TailIsNear == Spec => []TailLagsByAtMostOne
<1>1. IInv => TailLagsByAtMostOne
  <2> SUFFICES ASSUME IInv PROVE TailLagsByAtMostOne
    OBVIOUS
  <2>1. PICK i \in 1..N : tail_ = linked[i] /\ i >= N - 1
    BY DEF IInv, Back
  <2>2. N \in Nat
    BY DEF IInv, TypeOK, N
  <2>3. CASE i = N
    BY <2>1, <2>3 DEF TailLagsByAtMostOne, N
  <2>4. CASE i = N - 1
    <3>1. i \in 1..(N - 1) /\ i + 1 = N
      BY <2>2, <2>4
    <3>2. next[tail_] = linked[N]
      BY <2>1, <3>1 DEF IInv, Chain
    <3> QED BY <3>2 DEF TailLagsByAtMostOne, N
  <2> QED BY <2>1, <2>2, <2>3, <2>4
<1> QED BY IInvInvariant, <1>1, PTL

----------------------------------------------------------------------------
\* What one producer alone maintains: nobody else moves tail_, so it is the last
\* node except between the two compare-and-exchanges, and the node it reads
\* through is the last one, which the consumer never deletes.
Lone ==
    /\ Dummy \in allocated
    /\ Callers = {} => tail_ = linked[N]
    /\ \A p \in Producers \ Callers : pc[p] = "idle"
    /\ \A p \in Callers :
        /\ pc[p] \notin {"help", "undefined"}
        /\ pc[p] # "cas_tail" => tail_ = linked[N]
        /\ pc[p] \in {"load_next", "recheck", "cas_next", "cas_tail"} => old_tail[p] = tail_
        /\ pc[p] = "recheck" => next_seen[p] = Null

OneCaller == \A p, q \in Callers : p = q

LEMMA LastNotFreed ==
    ASSUME IInv
    PROVE  linked[N] \notin freed /\ next[linked[N]] = Null /\ N \in Nat \ {0}
<1>0. N \in Nat /\ N >= 1 /\ Len(delivered) \in Nat /\ Len(delivered) < N
  BY DEF IInv, TypeOK, N, Chain, Front
<1>1. linked[N] \in Nodes
  BY <1>0 DEF IInv, TypeOK, N
<1>2. \A j \in 1..(N - 1) : j \in 1..N /\ N \in 1..N /\ j # N
  BY <1>0
<1>3. \A j \in 1..(N - 1) : linked[N] # linked[j]
  BY <1>2 DEF IInv, Chain
<1>4. \A i \in 1..Len(delivered) : i \in 1..(N - 1)
  BY <1>0
<1> QED BY <1>0, <1>1, <1>3, <1>4 DEF IInv, Chain, Front

LEMMA CallersGrow ==
    ASSUME TypeOK, Dummy \in allocated, [Next]_vars
    PROVE  Callers \subseteq Callers' /\ Dummy \in allocated'
<1>1. ASSUME NEW p \in Producers, Enqueue(p)
      PROVE  Callers \subseteq Callers' /\ Dummy \in allocated'
  <2>1. CASE Allocate(p)
    BY <2>1 DEF Allocate, Callers, TypeOK
  <2>2. CASE UNCHANGED <<new_node, allocated>>
    BY <2>2 DEF Callers
  <2> QED BY <1>1, <2>1, <2>2
    DEF Enqueue, LoadTail, LoadNext, Recheck, CasNext, CasNextFails, CasTail, HelpTail,
        DereferencesFreed
<1>2. UNCHANGED vars \/ Dequeue => UNCHANGED <<new_node, allocated>>
  BY DEF Dequeue, DequeueLoad, DequeueTake, DequeueDelete, vars, producerVars
<1> QED BY <1>1, <1>2 DEF Next, Callers

\* A step of the only producer that has called enqueue keeps Lone.
LEMMA EnqueueLone ==
    ASSUME IInv, Lone, OneCaller', NEW p \in Producers, Enqueue(p)
    PROVE  Lone'
<1>0. TypeOK /\ N \in Nat /\ Dummy \in allocated /\ [Next]_vars
  BY LastNotFreed DEF IInv, Lone, Next
<1>1. Callers \subseteq Callers' /\ Dummy \in allocated'
  BY <1>0, CallersGrow
<1>2. p \in Callers'
  <2>1. CASE Allocate(p)
    BY <1>0, <2>1 DEF Allocate, Callers, TypeOK
  <2>2. CASE pc[p] # "idle"
    BY <1>1, <2>2 DEF Lone
  <2> QED BY <2>1, <2>2
    DEF Enqueue, LoadTail, LoadNext, Recheck, CasNext, CasNextFails, CasTail, HelpTail,
        DereferencesFreed
<1>3. Callers' = {p} /\ Callers \subseteq {p}
  BY <1>1, <1>2 DEF OneCaller
<1>4. /\ pc[p] \notin {"help", "undefined"}
      /\ pc[p] # "cas_tail" => tail_ = linked[N]
      /\ pc[p] \in {"load_next", "recheck", "cas_next", "cas_tail"} => old_tail[p] = tail_
      /\ pc[p] = "recheck" => next_seen[p] = Null
  BY <1>3 DEF Lone
<1>5. \A q \in Producers \ {p} : pc'[q] = pc[q]
  BY <1>0 DEF Enqueue, Allocate, LoadTail, LoadNext, Recheck, CasNext, CasNextFails,
              CasTail, HelpTail, DereferencesFreed, Goto, TypeOK
<1>6. \A q \in Producers \ Callers' : pc'[q] = "idle"
  BY <1>3, <1>5 DEF Lone
<1>7. SUFFICES /\ pc'[p] \notin {"help", "undefined"}
               /\ pc'[p] # "cas_tail" => tail_' = linked'[N']
               /\ pc'[p] \in {"load_next", "recheck", "cas_next", "cas_tail"}
                      => old_tail'[p] = tail_'
               /\ pc'[p] = "recheck" => next_seen'[p] = Null
  BY <1>1, <1>3, <1>6 DEF Lone
<1>8. CASE Allocate(p) \/ LoadTail(p) \/ Recheck(p) \/ CasNextFails(p)
  BY <1>0, <1>4, <1>8
  DEF Allocate, LoadTail, Recheck, CasNextFails, Goto, TypeOK, N
<1>9. CASE LoadNext(p)
  BY <1>0, <1>4, <1>9, LastNotFreed DEF LoadNext, Goto, TypeOK, N
<1>10. CASE CasNext(p)
  BY <1>0, <1>4, <1>10 DEF CasNext, Goto, TypeOK
<1>11. CASE CasTail(p)
  <2>1. PICK i \in 1..N : PointsAt(p, i)
    BY DEF IInv, Back
  <2>2. PICK k \in 1..N : tail_ = linked[k] /\ k >= N - 1
    BY DEF IInv, Back
  <2>3. i < N /\ new_node[p] = linked[i + 1] /\ tail_ = linked[i]
    BY <1>4, <1>11, <2>1 DEF CasTail, PointsAt
  <2>4. i = k
    BY <2>2, <2>3 DEF IInv, Chain
  <2>5. i + 1 = N
    BY <1>0, <2>2, <2>3, <2>4
  <2>6. tail_' = new_node[p] /\ linked' = linked /\ pc'[p] = "idle"
    BY <1>0, <1>4, <1>11 DEF CasTail, Goto, TypeOK
  <2> QED BY <2>3, <2>5, <2>6 DEF N
<1>12. ~HelpTail(p) /\ ~DereferencesFreed(p)
  BY <1>4, LastNotFreed DEF HelpTail, DereferencesFreed
<1> QED BY <1>8, <1>9, <1>10, <1>11, <1>12 DEF Enqueue

LEMMA NextLone ==
    ASSUME IInv, OneCaller => Lone, Dummy \in allocated, [Next]_vars
    PROVE  (OneCaller => Lone)' /\ Dummy \in allocated'
<1>1. Callers \subseteq Callers' /\ Dummy \in allocated'
  BY CallersGrow DEF IInv
<1>2. SUFFICES ASSUME OneCaller' PROVE Lone'
  BY <1>1
<1>3. Lone
  BY <1>1, <1>2 DEF OneCaller
<1>4. CASE \E p \in Producers : Enqueue(p)
  BY <1>2, <1>3, <1>4, EnqueueLone
<1>5. CASE UNCHANGED <<linked, tail_, allocated, producerVars>>
  BY <1>3, <1>5 DEF Lone, Callers, N, producerVars
<1>6. UNCHANGED vars \/ Dequeue => UNCHANGED <<linked, tail_, allocated, producerVars>>
  BY DEF Dequeue, DequeueLoad, DequeueTake, DequeueDelete, vars
<1> QED BY <1>4, <1>5, <1>6 DEF Next

\* Until a second thread has called enqueue no thread of MPSCQueue reads a deleted
\* node.
THEOREM OneProducerIsSafe == Spec => []NoReclaimedAccess
<1> DEFINE Solo == (OneCaller => Lone) /\ Dummy \in allocated
<1>1. Init => Solo
  BY DEF Init, Lone, Callers, N
<1>2. IInv /\ Solo /\ [Next]_vars => Solo'
  BY NextLone
<1>3. IInv /\ Solo => NoReclaimedAccess
  <2> SUFFICES ASSUME IInv, Lone, OneCaller
               PROVE  head_ \notin freed /\ \A p \in Producers : pc[p] # "undefined"
    BY DEF NoReclaimedAccess, OneCaller
  <2> DEFINE D == Len(delivered)
  <2>1. D \in Nat /\ N \in Nat /\ D + 1 \in 1..N /\ head_ = linked[D + 1]
    BY DEF IInv, TypeOK, Front, N
  <2>2. \A i \in 1..D : i \in 1..N /\ i # D + 1
    BY <2>1
  <2>3. \A i \in 1..D : head_ # linked[i]
    BY <2>1, <2>2 DEF IInv, Chain
  <2>4. head_ \notin freed
    BY <2>3 DEF IInv, Front
  <2>5. \A p \in Producers : pc[p] # "undefined"
    BY DEF Lone
  <2> QED BY <2>4, <2>5
<1> HIDE DEF Solo
<1> QED BY IInvInvariant, <1>1, <1>2, <1>3, PTL DEF Spec

----------------------------------------------------------------------------
(* The refinement.  Contents is a recursive function along the links; it   *)
(* is the rest of linked, by induction from the last node backwards.       *)

\* Every non-empty set of natural numbers has a least element.
LEMMA LeastNatural ==
    ASSUME NEW T \in SUBSET Nat, T # {}
    PROVE  \E x \in T : \A y \in T : x <= y
<1> DEFINE R == OpToRel(<, Nat)
<1>1. PICK x \in T : \A y \in T : ~(<<y, x>> \in R)
  <2> HIDE DEF R
  <2>1. IsWellFoundedOn(R, Nat)
    BY NatLessThanWellFounded DEF R
  <2> QED BY <2>1, WFMin
<1>2. ASSUME NEW y \in T PROVE x <= y
  <2>1. x \in Nat /\ y \in Nat
    OBVIOUS
  <2>2. ~(y < x)
    BY <1>1, <2>1 DEF OpToRel
  <2> QED BY <2>1, <2>2
<1> QED BY <1>1, <1>2

\* A walk along the links, and the function that the definition of Contents chooses.
IsWalk(w) ==
    w = [n \in Nodes |-> IF next[n] = Null THEN <<>> ELSE <<next[n]>> \o w[next[n]]]

Rest(i) == SubSeq(linked, i + 1, N)

LEMMA RestStep ==
    ASSUME IInv
    PROVE  /\ \A i \in 1..N : Rest(i) \in Seq(Nodes)
           /\ Rest(N) = <<>>
           /\ \A i \in 1..(N - 1) : Rest(i) = <<linked[i + 1]>> \o Rest(i + 1)
<1>0. linked \in Seq(Nodes) /\ N = Len(linked) /\ N \in Nat /\ N >= 1
  BY DEF IInv, TypeOK, Chain, N
<1>1. ASSUME NEW i \in 1..N PROVE Rest(i) \in Seq(Nodes)
  <2>1. \A j \in (i + 1)..N : linked[j] \in Nodes
    BY <1>0
  <2> QED BY <1>0, <2>1, SubSeqProperties DEF Rest
<1>2. Rest(N) = <<>>
  BY <1>0, SubSeqEmpty DEF Rest
<1>3. ASSUME NEW i \in 1..(N - 1) PROVE Rest(i) = <<linked[i + 1]>> \o Rest(i + 1)
  <2>1. i + 1 \in 1..Len(linked) /\ N \in (i + 1)..Len(linked)
    BY <1>0
  <2> QED BY <1>0, <2>1, SubSeqRecursiveFirst DEF Rest
<1> QED BY <1>1, <1>2, <1>3

\* Laying the list out in a sequence gives a walk.
LEMMA WalkExists ==
    ASSUME IInv
    PROVE  \E w : IsWalk(w)
<1>0. linked \in Seq(Nodes) /\ N = Len(linked) /\ N \in Nat /\ N >= 1
  BY DEF IInv, TypeOK, Chain, N
<1>1. /\ \A i, j \in 1..N : linked[i] = linked[j] => i = j
      /\ \A i \in 1..(N - 1) : next[linked[i]] = linked[i + 1]
      /\ \A n \in Nodes : (\A i \in 1..(N - 1) : n # linked[i]) => next[n] = Null
      /\ next \in [Nodes -> Nodes \cup {Null}]
      /\ \A i \in 1..N : linked[i] \in Nodes
  BY <1>0 DEF IInv, Chain, TypeOK
<1> DEFINE At(n) == CHOOSE i \in 1..N : n = linked[i]
           w == [n \in Nodes |-> IF \E i \in 1..N : n = linked[i] THEN Rest(At(n)) ELSE <<>>]
<1>2. ASSUME NEW i \in 1..N PROVE w[linked[i]] = Rest(i)
  <2>1. At(linked[i]) = i
    BY <1>1
  <2> HIDE DEF At
  <2> QED BY <1>1, <2>1
<1>3. \A n \in Nodes : (\A i \in 1..N : n # linked[i]) => w[n] = <<>>
  OBVIOUS
<1> HIDE DEF w
<1>4. ASSUME NEW n \in Nodes
      PROVE  w[n] = IF next[n] = Null THEN <<>> ELSE <<next[n]>> \o w[next[n]]
  <2>1. CASE \A i \in 1..N : n # linked[i]
    <3>1. next[n] = Null
      BY <1>0, <1>1, <2>1
    <3> QED BY <1>3, <2>1, <3>1
  <2>2. ASSUME n = linked[N]
        PROVE  w[n] = IF next[n] = Null THEN <<>> ELSE <<next[n]>> \o w[next[n]]
    <3>1. N \in 1..N /\ \A i \in 1..(N - 1) : i \in 1..N /\ i # N
      BY <1>0
    <3>2. next[n] = Null
      BY <1>1, <2>2, <3>1
    <3> QED BY <1>2, <2>2, <3>1, <3>2, RestStep
  <2>3. ASSUME NEW i \in 1..(N - 1), n = linked[i]
        PROVE  w[n] = IF next[n] = Null THEN <<>> ELSE <<next[n]>> \o w[next[n]]
    <3>1. i \in 1..N /\ i + 1 \in 1..N
      BY <1>0
    <3>2. next[n] = linked[i + 1] /\ next[n] # Null
      BY <1>1, <2>3, <3>1, QueueAssumption
    <3>3. w[n] = Rest(i) /\ w[next[n]] = Rest(i + 1)
      BY <1>2, <2>3, <3>1, <3>2
    <3> QED BY <3>2, <3>3, RestStep
  <2>4. \A i \in 1..N : i = N \/ i \in 1..(N - 1)
    BY <1>0
  <2> QED BY <2>1, <2>2, <2>3, <2>4
<1>5. w = [n \in Nodes |-> w[n]]
  BY DEF w
<1>6. IsWalk(w)
  BY <1>4, <1>5 DEF IsWalk
<1> QED BY <1>6

\* There is no other: from the last node backwards, a walk finds the rest of the list.
LEMMA WalkIsRest ==
    ASSUME IInv, NEW w, IsWalk(w), NEW i \in 1..N
    PROVE  w[linked[i]] = Rest(i)
<1>0. N \in Nat /\ N >= 1
  BY DEF IInv, TypeOK, Chain, N
<1>1. /\ \A j \in 1..(N - 1) : next[linked[j]] = linked[j + 1]
      /\ next[linked[N]] = Null
      /\ \A j \in 1..N : linked[j] \in Nodes
  <2>1. N \in 1..N /\ \A j \in 1..(N - 1) : j \in 1..N /\ j # N
    BY <1>0
  <2>2. linked \in Seq(Nodes) /\ N = Len(linked)
    BY DEF IInv, TypeOK, N
  <2>3. \A j \in 1..N : linked[j] \in Nodes
    BY <2>2
  <2> QED BY <2>1, <2>3 DEF IInv, Chain
<1> DEFINE Bad == {k \in Nat : k < N /\ w[linked[N - k]] # Rest(N - k)}
<1>2. Bad = {}
  <2> SUFFICES ASSUME Bad # {} PROVE FALSE
    OBVIOUS
  <2>1. Bad \in SUBSET Nat
    OBVIOUS
  <2>2. PICK k \in Bad : \A m \in Bad : k <= m
    <3> HIDE DEF Bad
    <3> QED BY <2>1, LeastNatural
  <2>3. k \in Nat /\ k < N /\ w[linked[N - k]] # Rest(N - k)
    OBVIOUS
  <2>4. k # 0
    <3>1. N \in 1..N /\ N - 0 = N
      BY <1>0
    <3>2. w[linked[N]] = <<>>
      BY <1>1, <3>1 DEF IsWalk
    <3> QED BY <2>3, <3>1, <3>2, RestStep
  <2>5. /\ N - k \in 1..(N - 1) /\ N - k \in 1..N /\ N - k + 1 \in 1..N
        /\ k - 1 \in Nat /\ k - 1 < N /\ N - (k - 1) = N - k + 1
        /\ ~(k <= k - 1)
    BY <1>0, <2>3, <2>4
  <2>6. w[linked[N - k + 1]] = Rest(N - k + 1)
    BY <2>2, <2>5
  <2>7. w[linked[N - k]] = <<linked[N - k + 1]>> \o w[linked[N - k + 1]]
    <3>1. next[linked[N - k]] = linked[N - k + 1] /\ linked[N - k] \in Nodes
          /\ next[linked[N - k]] # Null
      BY <1>1, <2>5, QueueAssumption
    <3> QED BY <3>1 DEF IsWalk
  <2> QED BY <2>3, <2>5, <2>6, <2>7, RestStep
<1>3. N - i \in Nat /\ N - i < N /\ N - (N - i) = i
  BY <1>0
<1> QED BY <1>2, <1>3

\* What Contents finds is the part of the list that is not delivered.
LEMMA ContentsIsRest == IInv => Contents = Rest(Len(delivered) + 1)
<1> SUFFICES ASSUME IInv PROVE Contents = Rest(Len(delivered) + 1)
  OBVIOUS
<1> DEFINE w == CHOOSE w : IsWalk(w)
<1>1. IsWalk(w)
  BY WalkExists
<1>2. Contents = w[head_]
  BY DEF Contents, IsWalk
<1> HIDE DEF w
<1>3. head_ = linked[Len(delivered) + 1] /\ Len(delivered) + 1 \in 1..N
  BY DEF IInv, Front, TypeOK, N
<1> QED BY <1>1, <1>2, <1>3, WalkIsRest

\* call of FifoQueue: CasNext is where an enqueue takes effect.
CallOf(p) == CASE pc[p] = "idle" -> "none"
               [] pc[p] = "cas_tail" -> "done"
               [] OTHER -> "pending"

\* A step that leaves the list, and the callers' progress, alone.
LEMMA Stutters ==
    ASSUME UNCHANGED <<next, head_, delivered, new_node>>,
           \A p \in Producers : CallOf(p)' = CallOf(p)
    PROVE  UNCHANGED Fifo!vars
<1>1. Contents' = Contents
  BY DEF Contents
<1>2. [p \in Producers |-> CallOf(p)]' = [p \in Producers |-> CallOf(p)]
  OBVIOUS
<1> QED BY <1>1, <1>2 DEF Fifo!vars, CallOf

LEMMA InitFifo == Init => Fifo!Init
<1> SUFFICES ASSUME Init PROVE Fifo!Init
  OBVIOUS
<1>1. IInv
  BY InitIInv
<1>2. Contents = <<>>
  <2>1. Len(delivered) + 1 = N
    BY DEF Init, N
  <2> QED BY <1>1, <2>1, ContentsIsRest, RestStep
<1>3. /\ delivered = <<>> /\ new_node \in [Producers -> Nodes]
      /\ \A p \in Producers : pc[p] = "idle"
  BY QueueAssumption DEF Init
<1> QED BY <1>2, <1>3 DEF Fifo!Init

\* One step of a producer.
LEMMA EnqueueFifo ==
    ASSUME IInv, IInv', NEW p \in Producers, Enqueue(p)
    PROVE  [Fifo!Next]_(Fifo!vars)
<1> DEFINE call == [q \in Producers |-> CallOf(q)]
<1>0. /\ pc \in [Producers -> {"idle", "load_tail", "load_next", "recheck",
                               "cas_next", "cas_tail", "help", "undefined"}]
      /\ new_node \in [Producers -> Nodes]
  BY DEF IInv, TypeOK
<1>1. CASE Allocate(p)
  <2>1. /\ pc[p] = "idle" /\ pc' = [pc EXCEPT ![p] = "load_tail"]
        /\ UNCHANGED <<next, head_, delivered>>
    BY <1>1 DEF Allocate, Goto
  <2>2. PICK n \in Nodes : new_node' = [new_node EXCEPT ![p] = n]
    BY <1>1 DEF Allocate
  <2>3. call[p] = "none" /\ call' = [call EXCEPT ![p] = "pending"]
    BY <1>0, <2>1 DEF CallOf
  <2>4. Contents' = Contents
    BY <2>1 DEF Contents
  <2>5. Fifo!Call(p)
    BY <2>1, <2>2, <2>3, <2>4 DEF Fifo!Call, CallOf
  <2> QED BY <2>5 DEF Fifo!Next
<1>2. CASE CasNext(p)
  <2>1. /\ pc[p] = "cas_next" /\ pc' = [pc EXCEPT ![p] = "cas_tail"]
        /\ linked' = Append(linked, new_node[p])
        /\ UNCHANGED <<delivered, new_node>>
    BY <1>2 DEF CasNext, Goto
  <2>2. call[p] = "pending" /\ call' = [call EXCEPT ![p] = "done"]
    BY <1>0, <2>1 DEF CallOf
  <2>3. Contents' = Append(Contents, new_node[p])
    <3> DEFINE d == Len(delivered)
    <3>1. /\ linked \in Seq(Nodes) /\ N = Len(linked) /\ N \in Nat /\ new_node[p] \in Nodes
          /\ d \in Nat /\ d + 1 <= N
      BY <1>0 DEF IInv, TypeOK, Front, N
    <3>2. Contents = SubSeq(linked, d + 2, N)
      BY <3>1, ContentsIsRest DEF Rest
    <3>3. Contents' = SubSeq(linked', d + 2, N')
      <4>1. (IInv => Contents = Rest(Len(delivered) + 1))'
        BY ContentsIsRest, PTL
      <4>2. Contents' = SubSeq(linked', d + 1 + 1, N')
        BY <2>1, <4>1 DEF Rest
      <4>3. d + 1 + 1 = d + 2
        BY <3>1
      <4> QED BY <4>2, <4>3
    <3> HIDE DEF d
    <3>4. /\ linked' \in Seq(Nodes) /\ Len(linked') = N + 1 /\ N' = N + 1
          /\ linked'[N + 1] = new_node[p]
          /\ \A i \in 1..N : linked'[i] = linked[i]
      BY <2>1, <3>1, AppendProperties DEF N
    <3>5. SubSeq(linked', d + 2, N + 1) = SubSeq(linked', d + 2, N) \o <<linked'[N + 1]>>
      <4>1. d + 2 \in 1..Len(linked') /\ N + 1 \in (d + 2)..Len(linked') /\ (N + 1) - 1 = N
        BY <3>1, <3>4
      <4> QED BY <3>4, <4>1, SubSeqRecursiveSecond
    <3>6. SubSeq(linked', d + 2, N) = SubSeq(linked, d + 2, N)
      <4>1. \A i \in (d + 2)..N : linked'[i] = linked[i] /\ linked[i] \in Nodes
        BY <3>1, <3>4
      <4> DEFINE old == SubSeq(linked, d + 2, N)
                 new == SubSeq(linked', d + 2, N)
      <4>2. /\ old \in Seq(Nodes) /\ new \in Seq(Nodes) /\ Len(old) = Len(new)
            /\ \A i \in 1..(N - (d + 2) + 1) :
                  old[i] = linked[d + 2 + i - 1] /\ new[i] = linked'[d + 2 + i - 1]
        BY <3>1, <4>1, SubSeqProperties
      <4>3. Len(old) <= N - (d + 2) + 1 \/ Len(old) = 0
        BY <3>1, <4>1, SubSeqProperties
      <4> HIDE DEF old, new
      <4>4. \A i \in 1..Len(old) : old[i] = new[i]
        BY <3>1, <4>1, <4>2, <4>3
      <4>5. old = new
        BY <4>2, <4>4, SeqEqual
      <4> QED BY <4>5 DEF old, new
    <3>7. SubSeq(linked, d + 2, N) \in Seq(Nodes)
      <4>1. \A i \in (d + 2)..N : linked[i] \in Nodes
        BY <3>1
      <4> QED BY <3>1, <4>1, SubSeqProperties
    <3>8. Append(SubSeq(linked, d + 2, N), new_node[p]) =
              SubSeq(linked, d + 2, N) \o <<new_node[p]>>
      BY ONLY <3>1, <3>7, AppendIsConcat
    <3>9. Contents' = SubSeq(linked', d + 2, N + 1)
      BY <3>3, <3>4
    <3>10. SubSeq(linked', d + 2, N + 1) = SubSeq(linked, d + 2, N) \o <<new_node[p]>>
      BY <3>4, <3>5, <3>6
    <3> QED BY ONLY <3>2, <3>8, <3>9, <3>10
  <2>4. Fifo!Enqueue(p)
    BY <2>1, <2>2, <2>3 DEF Fifo!Enqueue, CallOf
  <2> QED BY <2>4 DEF Fifo!Next
<1>3. CASE CasTail(p)
  <2>1. /\ pc[p] = "cas_tail" /\ pc' = [pc EXCEPT ![p] = "idle"]
        /\ UNCHANGED <<next, head_, delivered, new_node>>
    BY <1>3 DEF CasTail, Goto
  <2>2. call[p] = "done" /\ call' = [call EXCEPT ![p] = "none"]
    BY <1>0, <2>1 DEF CallOf
  <2>3. Contents' = Contents
    BY <2>1 DEF Contents
  <2>4. Fifo!Return(p)
    BY <2>1, <2>2, <2>3 DEF Fifo!Return, CallOf
  <2> QED BY <2>4 DEF Fifo!Next
<1>4. ASSUME /\ UNCHANGED <<next, head_, delivered, new_node>>
             /\ pc[p] \notin {"idle", "cas_tail"}
             /\ \E label \in {"load_tail", "load_next", "recheck", "cas_next", "help",
                              "undefined"} : pc' = [pc EXCEPT ![p] = label]
      PROVE  [Fifo!Next]_(Fifo!vars)
  <2>1. \A q \in Producers : CallOf(q)' = CallOf(q)
    BY <1>0, <1>4 DEF CallOf
  <2> QED BY <1>4, <2>1, Stutters
<1>5. CASE \/ LoadTail(p) \/ LoadNext(p) \/ Recheck(p) \/ CasNextFails(p) \/ HelpTail(p)
           \/ DereferencesFreed(p)
  <2>1. UNCHANGED <<next, head_, delivered, new_node>>
    BY <1>5 DEF LoadTail, LoadNext, Recheck, CasNextFails, HelpTail, DereferencesFreed
  <2>2. pc[p] \notin {"idle", "cas_tail"}
    BY <1>5 DEF LoadTail, LoadNext, Recheck, CasNextFails, HelpTail, DereferencesFreed
  <2>3. \E label \in {"load_tail", "load_next", "recheck", "cas_next", "help",
                      "undefined"} : pc' = [pc EXCEPT ![p] = label]
    BY <1>5 DEF LoadTail, LoadNext, Recheck, CasNextFails, HelpTail, DereferencesFreed, Goto
  <2> QED BY <1>4, <2>1, <2>2, <2>3
<1> QED BY <1>1, <1>2, <1>3, <1>5 DEF Enqueue

\* One step of the consumer.
LEMMA DequeueFifo ==
    ASSUME IInv, IInv', Dequeue
    PROVE  [Fifo!Next]_(Fifo!vars)
<1>1. CASE DequeueTake
  <2> DEFINE d == Len(delivered)
  <2>1. /\ cpc = "take" /\ delivered' = Append(delivered, cnext)
        /\ UNCHANGED <<linked, producerVars>>
    BY <1>1 DEF DequeueTake
  <2>2. /\ linked \in Seq(Nodes) /\ N = Len(linked) /\ N \in Nat
        /\ d \in Nat /\ d + 2 <= N /\ cnext = linked[d + 2] /\ N' = N
    BY <2>1 DEF IInv, TypeOK, Front, N
  <2>3. Contents = SubSeq(linked, d + 2, N)
    BY <2>2, ContentsIsRest DEF Rest
  <2>4. Contents' = SubSeq(linked, d + 3, N)
    <3>1. (IInv => Contents = Rest(Len(delivered) + 1))'
      BY ContentsIsRest, PTL
    <3>2. Len(delivered') = d + 1
      BY <2>1 DEF IInv, TypeOK
    <3> QED BY <2>1, <2>2, <3>1, <3>2 DEF Rest
  <2>5. Head(Contents) = cnext /\ Tail(Contents) = Contents' /\ Contents # <<>>
    <3> HIDE DEF d
    <3>1. d + 2 \in 1..Len(linked) /\ N \in (d + 2)..Len(linked) /\ d + 2 + 1 = d + 3
      BY <2>2
    <3>2. Head(Contents) = cnext /\ Tail(Contents) = Contents'
      BY <2>2, <2>3, <2>4, <3>1, HeadTailOfSubSeq
    <3>3. Len(Contents) # 0
      <4>1. \A i \in (d + 2)..N : linked[i] \in Nodes
        BY <2>2
      <4> QED BY <2>2, <2>3, <3>1, <4>1, SubSeqProperties
    <3> QED BY <3>2, <3>3
  <2>6. Fifo!Dequeue
    BY <2>1, <2>5 DEF Fifo!Dequeue, producerVars
  <2> QED BY <2>6 DEF Fifo!Next
<1>2. CASE DequeueLoad \/ DequeueDelete
  <2>1. UNCHANGED <<next, head_, delivered, pc, new_node>>
    BY <1>2 DEF DequeueLoad, DequeueDelete, producerVars
  <2>2. \A q \in Producers : CallOf(q)' = CallOf(q)
    BY <2>1 DEF CallOf
  <2> QED BY <2>1, <2>2, Stutters
<1> QED BY <1>1, <1>2 DEF Dequeue

\* The queue implements FifoQueue: for any producers and nodes, enqueue takes effect once,
\* at its CAS on next, between its call and its return, and dequeue takes the oldest
\* element, also while producers are between their CAS on next and the one on tail_.
THEOREM QueueImplementsFifo == Spec => ImplementsFifo
<1>1. Init => Fifo!Init
  BY InitFifo
<1>2. IInv /\ IInv' /\ [Next]_vars => [Fifo!Next]_(Fifo!vars)
  <2> SUFFICES ASSUME IInv, IInv', [Next]_vars PROVE [Fifo!Next]_(Fifo!vars)
    OBVIOUS
  <2>1. ASSUME NEW p \in Producers, Enqueue(p) PROVE [Fifo!Next]_(Fifo!vars)
    BY <2>1, EnqueueFifo
  <2>2. CASE Dequeue
    BY <2>2, DequeueFifo
  <2>3. CASE UNCHANGED vars
    <3>1. UNCHANGED <<next, head_, delivered, pc, new_node>>
      BY <2>3 DEF vars, producerVars
    <3>2. \A q \in Producers : CallOf(q)' = CallOf(q)
      BY <3>1 DEF CallOf
    <3> QED BY <3>1, <3>2, Stutters
  <2> QED BY <2>1, <2>2, <2>3 DEF Next
<1> QED BY <1>1, <1>2, IInvInvariant, PTL DEF Spec, ImplementsFifo, Fifo!Spec

----------------------------------------------------------------------------
(* Messaging: the tables.                                                  *)

\* Each row of m is in the table, or one without an id has replaced it.
Kept(table, m) ==
    \A r \in RowsOf(m) : \E s \in table : SameKey(r, s) /\ (m.id # 0 => s = r)

\* m is in the inbox of u, or one without an id has replaced it there.
KeptFor(table, u, m) ==
    \E s \in table : /\ s.part = <<"user", u>> /\ s.msg.ts = m.ts /\ s.msg.id = m.id
                     /\ m.id # 0 => s.msg = m

\* An id other than 0 is that of one message.
Distinct(S) == \A m, k \in S : m.id # 0 /\ m.id = k.id => m = k

LEMMA RowOf ==
    ASSUME NEW m, NEW r \in RowsOf(m)
    PROVE  r = [part |-> r.part, msg |-> m] /\ r.msg = m
BY DEF RowsOf

LEMMA KeyIsTransitive ==
    ASSUME NEW r, NEW s, NEW w, SameKey(r, s), SameKey(s, w)
    PROVE  SameKey(r, w) /\ SameKey(s, r)
BY DEF SameKey

LEMMA InsertIs ==
    ASSUME NEW T, NEW x
    PROVE  /\ \A r \in RowsOf(x) : r \in Insert(T, x)
           /\ \A r \in Insert(T, x) : r \in T \/ r \in RowsOf(x)
           /\ \A s \in T : s \in Insert(T, x) \/ \E w \in RowsOf(x) : w \in Insert(T, x) /\ SameKey(s, w)
BY DEF Insert

LEMMA InsertKeeps ==
    ASSUME NEW T, NEW x, \A s \in T : s.msg.id # 0 /\ s.msg.id = x.id => s.msg = x,
           NEW m, Kept(T, m)
    PROVE  Kept(Insert(T, x), m)
<1> SUFFICES ASSUME NEW r \in RowsOf(m)
             PROVE  \E s \in Insert(T, x) : SameKey(r, s) /\ (m.id # 0 => s = r)
  BY DEF Kept
<1>1. PICK s \in T : SameKey(r, s) /\ (m.id # 0 => s = r)
  BY DEF Kept
<1>2. CASE s \in Insert(T, x)
  BY <1>1, <1>2
<1>3. CASE s \notin Insert(T, x)
  <2>1. PICK w \in RowsOf(x) : w \in Insert(T, x) /\ SameKey(s, w)
    BY <1>3, InsertIs
  <2>2. SameKey(r, w)
    BY <1>1, <2>1, KeyIsTransitive
  <2>3. ASSUME m.id # 0 PROVE w = r
    <3>1. s = r /\ r = [part |-> r.part, msg |-> m] /\ r.msg = m /\ w = [part |-> w.part, msg |-> x]
      BY <1>1, <2>3, RowOf
    <3>2. w.part = r.part /\ x.id = m.id
      BY <2>2, <3>1 DEF SameKey
    <3>3. x = m
      BY <2>3, <3>1, <3>2
    <3> QED BY <3>1, <3>2, <3>3
  <2> QED BY <2>1, <2>2, <2>3
<1> QED BY <1>2, <1>3

LEMMA InsertKeepsFor ==
    ASSUME NEW T, NEW x, \A s \in T : s.msg.id # 0 /\ s.msg.id = x.id => s.msg = x,
           NEW u, NEW m, KeptFor(T, u, m)
    PROVE  KeptFor(Insert(T, x), u, m)
<1>1. PICK s \in T : /\ s.part = <<"user", u>> /\ s.msg.ts = m.ts /\ s.msg.id = m.id
                     /\ m.id # 0 => s.msg = m
  BY DEF KeptFor
<1>2. CASE s \in Insert(T, x)
  BY <1>1, <1>2 DEF KeptFor
<1>3. CASE s \notin Insert(T, x)
  <2>1. PICK w \in RowsOf(x) : w \in Insert(T, x) /\ SameKey(s, w)
    BY <1>3, InsertIs
  <2>2. w.part = s.part /\ w.msg.ts = s.msg.ts /\ w.msg.id = s.msg.id /\ w.msg = x
    BY <2>1, RowOf DEF SameKey
  <2>3. m.id # 0 => w.msg = m
    BY <1>1, <2>2
  <2> QED BY <1>1, <2>1, <2>2, <2>3 DEF KeptFor
<1> QED BY <1>2, <1>3

LEMMA InsertHas ==
    ASSUME NEW T, NEW x
    PROVE  Kept(Insert(T, x), x)
BY InsertIs DEF Kept, SameKey

\* G is T after the first k messages of b.
After(T, b, k, G) ==
    /\ \A r \in G : r \in T \/ \E i \in 1 .. k : r \in RowsOf(b[i])
    /\ \A m : Kept(T, m) => Kept(G, m)
    /\ \A u, m : KeptFor(T, u, m) => KeptFor(G, u, m)
    /\ \A i \in 1 .. k : Kept(G, b[i])

LEMMA AfterOneMore ==
    ASSUME NEW T, NEW b, NEW k \in Nat, k # 0, NEW G, After(T, b, k - 1, G),
           Distinct({r.msg : r \in T} \cup {b[i] : i \in 1 .. k})
    PROVE  After(T, b, k, Insert(G, b[k]))
<1> DEFINE x == b[k]
           H == Insert(G, x)
<1>1. \A i \in 1 .. k : i = k \/ i \in 1 .. k - 1
  OBVIOUS
<1>2. \A i \in 1 .. k - 1 : i \in 1 .. k
  OBVIOUS
<1>3. k \in 1 .. k
  OBVIOUS
<1>4. \A s \in G : s.msg.id # 0 /\ s.msg.id = x.id => s.msg = x
  <2> SUFFICES ASSUME NEW s \in G, s.msg.id # 0, s.msg.id = x.id PROVE s.msg = x
    OBVIOUS
  <2> DEFINE S == {r.msg : r \in T} \cup {b[i] : i \in 1 .. k}
  <2>1. s \in T \/ \E i \in 1 .. k - 1 : s \in RowsOf(b[i])
    BY DEF After
  <2>2. s.msg \in S
    <3>1. CASE s \in T
      BY <3>1
    <3>2. ASSUME NEW i \in 1 .. k - 1, s \in RowsOf(b[i]) PROVE s.msg \in S
      BY <1>2, <3>2, RowOf
    <3> QED BY <2>1, <3>1, <3>2
  <2>3. x \in S
    BY <1>3
  <2> HIDE DEF S, x
  <2> QED BY <2>2, <2>3 DEF Distinct, S
<1> HIDE DEF x
<1>5. \A r \in H : r \in T \/ \E i \in 1 .. k : r \in RowsOf(b[i])
  <2> SUFFICES ASSUME NEW r \in H PROVE r \in T \/ \E i \in 1 .. k : r \in RowsOf(b[i])
    OBVIOUS
  <2>1. r \in G \/ r \in RowsOf(x)
    BY InsertIs
  <2> QED BY <1>2, <1>3, <2>1 DEF After, x
<1>6. \A m : Kept(T, m) => Kept(H, m)
  BY <1>4, InsertKeeps DEF After
<1>7. \A u, m : KeptFor(T, u, m) => KeptFor(H, u, m)
  BY <1>4, InsertKeepsFor DEF After
<1>8. \A i \in 1 .. k : Kept(H, b[i])
  BY <1>1, <1>4, InsertHas, InsertKeeps DEF After, x
<1> QED BY <1>5, <1>6, <1>7, <1>8 DEF After, x

\* What holds of 0, and of k if it holds of k - 1, holds up to n.
LEMMA Induction ==
    ASSUME NEW n \in Nat, NEW S, 0 \in S, \A k \in 1 .. n : k - 1 \in S => k \in S
    PROVE  \A k \in 0 .. n : k \in S
<1> DEFINE Bad == {k \in 0 .. n : k \notin S}
<1> SUFFICES ASSUME Bad # {} PROVE FALSE
  OBVIOUS
<1>1. Bad \in SUBSET Nat
  OBVIOUS
<1>2. PICK k \in Bad : \A m \in Bad : k <= m
  <2> HIDE DEF Bad
  <2> QED BY <1>1, LeastNatural
<1>3. k \in 0 .. n /\ k \notin S
  OBVIOUS
<1>4. k # 0
  BY <1>3
<1>5. k \in 1 .. n /\ k - 1 \in 0 .. n /\ ~(k <= k - 1)
  BY <1>3, <1>4
<1>6. k - 1 \in S
  BY <1>2, <1>5
<1> QED BY <1>3, <1>5, <1>6


\* f is the function that InsertAll defines by recursion, up to k.
IsAfter(T, b, k, f) ==
    f = [i \in 0 .. k |-> IF i = 0 THEN T ELSE Insert(f[i - 1], b[i])]

LEMMA AfterExists ==
    ASSUME NEW T, NEW b, Len(b) \in Nat
    PROVE  \E f : IsAfter(T, b, Len(b), f)
<1> DEFINE n == Len(b)
           S == {k \in 0 .. n : \E f : IsAfter(T, b, k, f)}
<1>1. 0 \in S
  <2> DEFINE f == [i \in 0 .. 0 |-> T]
  <2>1. f[0] = T /\ 0 \in 0 .. n
    OBVIOUS
  <2>2. IsAfter(T, b, 0, f)
    BY SMT DEF IsAfter
  <2> QED BY <2>1, <2>2
<1>2. ASSUME NEW k \in 1 .. n, k - 1 \in S PROVE k \in S
  <2>1. PICK g : IsAfter(T, b, k - 1, g)
    BY <1>2
  <2> DEFINE f == [i \in 0 .. k |-> IF i = k THEN Insert(g[k - 1], b[k]) ELSE g[i]]
  <2>2. /\ k \in 0 .. k /\ k # 0 /\ k - 1 \in 0 .. k /\ k - 1 # k
        /\ \A i \in 0 .. k : i # k => i \in 0 .. k - 1 /\ (i # 0 => i - 1 \in 0 .. k /\ i - 1 # k)
    OBVIOUS
  <2>3. f[k] = Insert(f[k - 1], b[k])
    BY <2>2, Zenon
  <2>4. ASSUME NEW i \in 0 .. k, i # k
        PROVE  f[i] = IF i = 0 THEN T ELSE Insert(f[i - 1], b[i])
    <3>1. f[i] = g[i] /\ (i # 0 => f[i - 1] = g[i - 1])
      BY <2>2, <2>4, Zenon
    <3>2. g[i] = IF i = 0 THEN T ELSE Insert(g[i - 1], b[i])
      BY <2>1, <2>2, <2>4, Zenon DEF IsAfter
    <3> QED BY <3>1, <3>2, Zenon
  <2>5. f = [i \in 0 .. k |-> f[i]]
    OBVIOUS
  <2> HIDE DEF f
  <2>6. \A i \in 0 .. k : f[i] = IF i = 0 THEN T ELSE Insert(f[i - 1], b[i])
    BY <2>2, <2>3, <2>4, Zenon
  <2>7. IsAfter(T, b, k, f)
    BY <2>5, <2>6, Zenon DEF IsAfter
  <2>8. k \in 0 .. n
    OBVIOUS
  <2> QED BY <2>7, <2>8
<1>3. \A k \in 1 .. n : k - 1 \in S => k \in S
  BY <1>2
<1>4. \A k \in 0 .. n : k \in S
  <2> HIDE DEF S
  <2> QED BY <1>1, <1>3, Induction
<1>5. n \in 0 .. n
  OBVIOUS
<1> QED BY <1>4, <1>5

\* The logged batch loses nothing but what messages without an id replace.
LEMMA InsertsAll ==
    ASSUME NEW T, NEW b \in Seq(Message), Distinct({r.msg : r \in T} \cup Range(b))
    PROVE  After(T, b, Len(b), InsertAll(T, b))
<1> DEFINE n == Len(b)
           f == CHOOSE g : IsAfter(T, b, n, g)
           S == {k \in 0 .. n : After(T, b, k, f[k])}
<1>1. n \in Nat /\ Range(b) = {b[i] : i \in 1 .. n}
  BY DEF Range
<1>2. IsAfter(T, b, n, f)
  BY <1>1, AfterExists, Zenon
<1>3. InsertAll(T, b) = f[n]
  BY DEF InsertAll, IsAfter
<1> HIDE DEF f, n
<1>4. \A i \in 0 .. n : f[i] = IF i = 0 THEN T ELSE Insert(f[i - 1], b[i])
  BY <1>2, Zenon DEF IsAfter
<1>5. 0 \in S
  <2>1. 0 \in 0 .. n /\ f[0] = T /\ 1 .. 0 = {}
    BY <1>1, <1>4
  <2>2. After(T, b, 0, T)
    BY <2>1 DEF After
  <2> QED BY <2>1, <2>2
<1>6. ASSUME NEW k \in 1 .. n, k - 1 \in S PROVE k \in S
  <2>1. k \in 0 .. n /\ k # 0 /\ k \in Nat /\ \A i \in 1 .. k : i \in 1 .. n
    BY <1>1
  <2>2. f[k] = Insert(f[k - 1], b[k]) /\ After(T, b, k - 1, f[k - 1])
    BY <1>4, <1>6, <2>1
  <2>3. Distinct({r.msg : r \in T} \cup {b[i] : i \in 1 .. k})
    BY <1>1, <2>1 DEF Distinct
  <2>4. After(T, b, k, Insert(f[k - 1], b[k]))
    BY <2>1, <2>2, <2>3, AfterOneMore
  <2> QED BY <2>1, <2>2, <2>4
<1>7. \A k \in 1 .. n : k - 1 \in S => k \in S
  BY <1>6
<1>8. \A k \in 0 .. n : k \in S
  <2> HIDE DEF S
  <2> QED BY <1>1, <1>5, <1>7, Induction
<1>9. n \in S
  BY <1>1, <1>8
<1> QED BY <1>3, <1>9 DEF n

----------------------------------------------------------------------------
(* The invariant.                                                          *)

Letter == [kind : {"sync", "push", "ack", "refused"}, body : Seq(Message)]

\* The request of a client that is sending is one message, and it has a receiver once
\* it is enqueued.
Drafted(u) ==
    /\ client[u] \in {"sending", "enqueued", "sent"} => Len(draft[u]) = 1
    /\ client[u] = "enqueued" => draft[u][1].to \in Users

MsgTypeOK ==
    /\ queue \in Seq(Message) /\ batch \in Seq(Message)
    /\ retry \in Nat /\ failures \in Nat
    /\ client \in [Users -> {"out", "sync", "syncing", "in", "sending", "enqueued", "sent"}]
    /\ draft \in [Users -> Seq(Message)]
    /\ history \in [Users -> Seq(Message)]
    /\ pending \in [Users -> Seq(Letter)]
    /\ wire \in [Users -> Seq(Letter)]
    /\ before \in [Users -> SUBSET Message]
    /\ now \in 0 .. MaxTime /\ msgs \in 0 .. MaxMsgs
    /\ \A r \in rows : r.msg \in Message /\ r \in RowsOf(r.msg)
    /\ \A u \in Users : Drafted(u)

\* The constructor of Webserver serves nobody, a failed Init never gets past Close, and
\* a session that serves has failed at least as often as the batch was tried again.
Serving ==
    /\ main \in {"init", "connecting", "failed"} =>
          /\ \A u \in Users : client[u] = "out"
          /\ queue = <<>> /\ batch = <<>> /\ dropped = {} /\ writer = "loop" /\ retry = 0
    /\ main \in {"connecting", "failed"} => mtx
    /\ main = "serving" => session /\ retry <= failures
    /\ main \in {"init", "connecting", "failed", "serving", "closed"} => running_
    /\ writer \in {"drain", "drain_insert", "done"} => ~running_
    /\ writer \in {"loop", "drain", "done"} => batch = <<>>

\* The messages that may still be written, or are.
Known == stored \cup Range(queue) \cup Range(batch) \cup UNION {Range(draft[u]) : u \in Users}

Tables ==
    /\ Distinct(Known) /\ \A m \in Known : m.id <= msgs
    /\ \A m \in stored : Kept(rows, m)
    /\ \A u \in Users : \A m \in before[u] : KeptFor(rows, u, m)

Accounted(m) ==
    \/ m \in Range(queue) \cup Range(batch)
    \/ Kept(rows, m)
    \/ m \in dropped /\ (failures > kMaxRetries \/ main # "serving")

Accounts ==
    /\ \A m \in acked : Accounted(m)
    /\ \A u \in Users : client[u] = "enqueued" => Accounted(draft[u][1])

\* What waits for the client u: pushes, and the answer to its request.  An answer to a
\* sync shows what was stored for u before its login.
Answers(u) ==
    \A i \in 1 .. Len(wire[u]) :
        \/ wire[u][i].kind = "push"
        \/ wire[u][i].kind = "sync" /\ client[u] = "syncing"
              /\ \A m \in before[u] : Shown(Range(wire[u][i].body), m)
        \/ wire[u][i].kind \in {"ack", "refused"} /\ client[u] = "sent"

OneAnswer(u) ==
    \A i, j \in 1 .. Len(wire[u]) :
        wire[u][i].kind # "push" /\ wire[u][j].kind # "push" => i = j

Pushes(u) == \A i \in 1 .. Len(pending[u]) : pending[u][i].kind = "push"

Wired(u) ==
    /\ client[u] = "out" => wire[u] = <<>> /\ pending[u] = <<>>
    /\ Pushes(u) /\ Answers(u) /\ OneAnswer(u)
    /\ client[u] \in {"in", "sending", "enqueued", "sent"} =>
          \A m \in before[u] : Shown(Range(history[u]), m)

Wires == \A u \in Users : Wired(u)

\* The messages of two queues, one after the other.
LEMMA Joins ==
    ASSUME NEW S, NEW p \in Seq(S), NEW q \in Seq(S)
    PROVE  /\ p \o q \in Seq(S) /\ Len(p \o q) = Len(p) + Len(q)
           /\ \A i \in 1 .. Len(p) : (p \o q)[i] = p[i]
           /\ \A i \in 1 .. Len(q) : (p \o q)[Len(p) + i] = q[i]
           /\ Range(p \o q) = Range(p) \cup Range(q)
<1>1. /\ p \o q \in Seq(S) /\ Len(p \o q) = Len(p) + Len(q) /\ Len(p) \in Nat /\ Len(q) \in Nat
      /\ \A i \in 1 .. Len(p) : (p \o q)[i] = p[i]
      /\ \A i \in 1 .. Len(q) : (p \o q)[Len(p) + i] = q[i]
  OBVIOUS
<1>2. /\ Range(p) = {p[i] : i \in 1 .. Len(p)} /\ Range(q) = {q[i] : i \in 1 .. Len(q)}
      /\ Range(p \o q) = {(p \o q)[i] : i \in 1 .. Len(p \o q)}
  BY <1>1 DEF Range
<1>3. ASSUME NEW i \in 1 .. Len(p \o q) PROVE (p \o q)[i] \in Range(p) \cup Range(q)
  <2>1. CASE i \in 1 .. Len(p)
    BY <1>1, <1>2, <2>1
  <2>2. CASE i \notin 1 .. Len(p)
    <3>1. i - Len(p) \in 1 .. Len(q) /\ i = Len(p) + (i - Len(p))
      BY <1>1, <2>2
    <3> QED BY <1>1, <1>2, <3>1
  <2> QED BY <2>1, <2>2
<1>4. ASSUME NEW i \in 1 .. Len(p) PROVE p[i] \in Range(p \o q)
  <2>1. i \in 1 .. Len(p \o q)
    BY <1>1
  <2> QED BY <1>1, <1>2, <2>1
<1>5. ASSUME NEW i \in 1 .. Len(q) PROVE q[i] \in Range(p \o q)
  <2>1. Len(p) + i \in 1 .. Len(p \o q)
    BY <1>1
  <2> QED BY <1>1, <1>2, <2>1
<1>6. Range(p \o q) \subseteq Range(p) \cup Range(q)
  BY <1>2, <1>3
<1>7. Range(p) \subseteq Range(p \o q) /\ Range(q) \subseteq Range(p \o q)
  BY <1>2, <1>4, <1>5
<1> QED BY <1>1, <1>6, <1>7

\* The first k messages of a queue, and the rest.
LEMMA Splits ==
    ASSUME NEW S, NEW q \in Seq(S), NEW k \in 0 .. Len(q)
    PROVE  /\ SubSeq(q, 1, k) \in Seq(S) /\ SubSeq(q, k + 1, Len(q)) \in Seq(S)
           /\ Range(q) = Range(SubSeq(q, 1, k)) \cup Range(SubSeq(q, k + 1, Len(q)))
<1> DEFINE p == SubSeq(q, 1, k)
           t == SubSeq(q, k + 1, Len(q))
<1>1. p \in Seq(S) /\ Len(p) = k /\ \A i \in 1 .. k : p[i] = q[i]
  OBVIOUS
<1>2. t \in Seq(S) /\ Len(t) = Len(q) - k /\ \A i \in 1 .. Len(q) - k : t[i] = q[k + i]
  OBVIOUS
<1>3. DOMAIN q = 1 .. Len(q) /\ DOMAIN p = 1 .. k /\ DOMAIN t = 1 .. Len(q) - k
  BY <1>1, <1>2
<1> HIDE DEF p, t
<1>4. ASSUME NEW i \in 1 .. Len(q) PROVE q[i] \in Range(p) \cup Range(t)
  <2>1. CASE i <= k
    BY <1>1, <1>3, <2>1 DEF Range
  <2>2. CASE ~(i <= k)
    <3>1. i - k \in 1 .. Len(q) - k /\ k + (i - k) = i
      BY <2>2
    <3>2. t[i - k] = q[i]
      BY <1>2, <3>1
    <3> QED BY <1>3, <3>1, <3>2 DEF Range
  <2> QED BY <2>1, <2>2
<1>5. \A i \in 1 .. k : p[i] \in Range(q)
  BY <1>1, <1>3 DEF Range
<1>6. \A i \in 1 .. Len(q) - k : t[i] \in Range(q)
  <2> SUFFICES ASSUME NEW i \in 1 .. Len(q) - k PROVE t[i] \in Range(q)
    OBVIOUS
  <2>1. k + i \in 1 .. Len(q)
    OBVIOUS
  <2> QED BY <1>2, <1>3, <2>1 DEF Range
<1>7. Range(q) = Range(p) \cup Range(t)
  BY <1>3, <1>4, <1>5, <1>6 DEF Range
<1> QED BY <1>1, <1>2, <1>7 DEF p, t

LEMMA Takes ==
    ASSUME queue \in Seq(Message), DequeueBulk
    PROVE  /\ queue' \in Seq(Message) /\ batch' \in Seq(Message) /\ retry' = 0
           /\ Range(queue) = Range(batch') \cup Range(queue')
<1> DEFINE k == IF Len(queue) < kBatchSize THEN Len(queue) ELSE kBatchSize
<1>1. k \in 0 .. Len(queue)
  BY MessagingAssumption
<1>2. batch' = SubSeq(queue, 1, k) /\ queue' = SubSeq(queue, k + 1, Len(queue)) /\ retry' = 0
  BY DEF DequeueBulk
<1> HIDE DEF k
<1> QED BY <1>1, <1>2, Splits

\* What a request does to the tables: nothing, or all of the batch.
LEMMA Inserts ==
    ASSUME NEW ok \in BOOLEAN, InsertBatch(ok)
    PROVE  /\ rows' = rows \/ rows' = InsertAll(rows, batch)
           /\ ok => rows' = InsertAll(rows, batch)
           /\ failures' = failures \/ failures' = failures + 1
           /\ ~ok /\ session => failures' = failures + 1
BY DEF InsertBatch

\* What a request leaves of the tables, whether it succeeds, fails or times out.
LEMMA Writes ==
    ASSUME MsgTypeOK, Tables, NEW ok \in BOOLEAN, InsertBatch(ok)
    PROVE  /\ \A r \in rows' : r \in rows \/ \E i \in 1 .. Len(batch) : r \in RowsOf(batch[i])
           /\ \A m : Kept(rows, m) => Kept(rows', m)
           /\ \A u, m : KeptFor(rows, u, m) => KeptFor(rows', u, m)
           /\ ok \/ rows' # rows => \A i \in 1 .. Len(batch) : Kept(rows', batch[i])
           /\ \A r \in rows' : r.msg \in Message /\ r \in RowsOf(r.msg)
<1>1. batch \in Seq(Message) /\ \A r \in rows : r.msg \in Message /\ r \in RowsOf(r.msg)
  BY DEF MsgTypeOK
<1>2. Distinct({r.msg : r \in rows} \cup Range(batch))
  BY DEF Tables, Known, stored, Distinct
<1>3. After(rows, batch, Len(batch), InsertAll(rows, batch))
  BY <1>1, <1>2, InsertsAll
<1>4. rows' = rows \/ rows' = InsertAll(rows, batch)
  BY Inserts
<1>5. ok => rows' = InsertAll(rows, batch)
  BY Inserts
<1>6. \A r \in rows' : r \in rows \/ \E i \in 1 .. Len(batch) : r \in RowsOf(batch[i])
  BY <1>3, <1>4 DEF After
<1>7. \A m : Kept(rows, m) => Kept(rows', m)
  BY <1>3, <1>4 DEF After
<1>8. \A u, m : KeptFor(rows, u, m) => KeptFor(rows', u, m)
  BY <1>3, <1>4 DEF After
<1>9. ok \/ rows' # rows => \A i \in 1 .. Len(batch) : Kept(rows', batch[i])
  BY <1>3, <1>4, <1>5 DEF After
<1>10. ASSUME NEW r \in rows' PROVE r.msg \in Message /\ r \in RowsOf(r.msg)
  <2>1. CASE r \in rows
    BY <1>1, <2>1
  <2>2. ASSUME NEW i \in 1 .. Len(batch), r \in RowsOf(batch[i])
        PROVE  r.msg \in Message /\ r \in RowsOf(r.msg)
    <3>1. batch[i] \in Message /\ r.msg = batch[i]
      BY <1>1, <2>2, RowOf
    <3> QED BY <2>2, <3>1
  <2> QED BY <1>6, <2>1, <2>2
<1> QED BY <1>6, <1>7, <1>8, <1>9, <1>10

\* A step that leaves the clients, their connections and the clock alone.
LEMMA StoreType ==
    ASSUME MsgTypeOK, UNCHANGED <<clients, net, now, msgs, before>>,
           queue' \in Seq(Message), batch' \in Seq(Message), retry' \in Nat, failures' \in Nat,
           \A r \in rows' : r.msg \in Message /\ r \in RowsOf(r.msg)
    PROVE  MsgTypeOK'
<1>1. UNCHANGED <<client, draft, history, pending, wire, now, msgs, before>>
  BY DEF clients, net
<1>2. \A u \in Users : Drafted(u)'
  BY <1>1 DEF MsgTypeOK, Drafted
<1> QED BY <1>1, <1>2 DEF MsgTypeOK

LEMMA WriterType ==
    ASSUME MsgTypeOK, Tables, Writer
    PROVE  MsgTypeOK'
<1>1. /\ queue \in Seq(Message) /\ batch \in Seq(Message) /\ retry \in Nat /\ failures \in Nat
      /\ \A r \in rows : r.msg \in Message /\ r \in RowsOf(r.msg)
      /\ <<>> \in Seq(Message)
  BY DEF MsgTypeOK
<1>2. CASE WriterTake \/ DrainTake
  <2>1. DequeueBulk /\ rows' = rows /\ failures' = failures /\ UNCHANGED <<clients, net, now, msgs, before>>
    BY <1>2 DEF WriterTake, DrainTake
  <2>2. queue' \in Seq(Message) /\ batch' \in Seq(Message) /\ retry' \in Nat
    BY <1>1, <2>1, Takes
  <2> QED BY <1>1, <2>1, <2>2, StoreType
<1>3. CASE WriterInsert \/ WriterFails \/ DrainInsert
  <2>1. PICK ok \in BOOLEAN : InsertBatch(ok)
    BY <1>3 DEF WriterInsert, WriterFails, DrainInsert
  <2>2. \A r \in rows' : r.msg \in Message /\ r \in RowsOf(r.msg)
    BY <2>1, Writes
  <2>3. failures' \in Nat
    BY <1>1, <2>1, Inserts
  <2>4. UNCHANGED <<clients, net, now, msgs, before>> /\ queue' = queue /\ (batch' = <<>> \/ batch' = batch)
        /\ (retry' = retry \/ retry' = retry + 1)
    BY <1>3 DEF WriterInsert, WriterFails, DrainInsert
  <2>5. retry' \in Nat
    BY <1>1, <2>4
  <2> QED BY <1>1, <2>2, <2>3, <2>4, <2>5, StoreType
<1>4. CASE WriterLeaves \/ DrainDone
  <2>1. UNCHANGED <<queue, batch, retry, rows, failures, clients, net, now, msgs, before>>
    BY <1>4 DEF WriterLeaves, DrainDone
  <2> QED BY <1>1, <2>1, StoreType
<1> QED BY <1>2, <1>3, <1>4 DEF Writer

\* One message more.
LEMMA Appends ==
    ASSUME NEW S, NEW q \in Seq(S), NEW e \in S
    PROVE  /\ Append(q, e) \in Seq(S) /\ Len(Append(q, e)) = Len(q) + 1
           /\ Append(q, e)[Len(q) + 1] = e /\ \A i \in 1 .. Len(q) : Append(q, e)[i] = q[i]
OBVIOUS

\* What a query returns is messages.
LEMMA QueryType ==
    ASSUME MsgTypeOK, NEW u, NEW a \in GetMessagesForUser(u)
    PROVE  a \in Seq(Message)
<1>1. \A m \in Inbox(u) : m \in Message
  BY DEF Inbox, MsgTypeOK
<1>2. CASE ~session
  BY <1>2 DEF GetMessagesForUser
<1>3. CASE session
  <2>1. PICK k \in 0 .. SyncLimit : a \in [1 .. k -> Inbox(u)]
    BY <1>3 DEF GetMessagesForUser
  <2>2. k \in Nat
    BY MessagingAssumption
  <2>3. a \in [1 .. k -> Message]
    BY <1>1, <2>1
  <2> QED BY <2>2, <2>3
<1> QED BY <1>2, <1>3

LEMMA ClientType ==
    ASSUME MsgTypeOK, NEW u \in Users, Serving,
           SyncMessages(u) \/ Refuse(u) \/ SendEnqueue(u) \/ SendPush(u) \/ Flush(u)
              \/ Login(u) \/ Logout(u)
    PROVE  MsgTypeOK'
<1>1. /\ queue \in Seq(Message) /\ wire \in [Users -> Seq(Letter)] /\ pending \in [Users -> Seq(Letter)]
      /\ draft \in [Users -> Seq(Message)] /\ history \in [Users -> Seq(Message)]
      /\ \A r \in rows : r.msg \in Message /\ r \in RowsOf(r.msg)
      /\ <<>> \in Seq(Message) /\ <<>> \in Seq(Letter)
      /\ client \in [Users -> {"out", "sync", "syncing", "in", "sending", "enqueued", "sent"}]
  BY DEF MsgTypeOK
<1>2. UNCHANGED <<batch, retry, rows, failures, now, msgs, draft>>
  BY DEF SyncMessages, Refuse, SendEnqueue, SendPush, Flush, Login, Logout, store, clients
<1>3. client' \in [Users -> {"out", "sync", "syncing", "in", "sending", "enqueued", "sent"}]
  BY <1>1 DEF SyncMessages, Refuse, SendEnqueue, SendPush, Flush, Login, Logout, clients
<1>4. \A w \in Users : Drafted(w)'
  <2> SUFFICES ASSUME NEW w \in Users PROVE Drafted(w)'
    OBVIOUS
  <2>1. Drafted(w)
    BY DEF MsgTypeOK
  <2>2. CASE w # u
    <3>1. client'[w] = client[w]
      BY <1>1, <2>2 DEF SyncMessages, Refuse, SendEnqueue, SendPush, Flush, Login, Logout, clients
    <3> QED BY <1>2, <2>1, <3>1 DEF Drafted
  <2>3. CASE w = u /\ client'[u] \notin {"sending", "enqueued", "sent"}
    BY <2>3 DEF Drafted
  <2>4. CASE w = u /\ client'[u] \in {"sending", "enqueued", "sent"}
    <3>1. client[u] \in {"sending", "enqueued", "sent"}
      BY <1>1, <2>4 DEF SyncMessages, Refuse, SendEnqueue, SendPush, Flush, Login, Logout, clients
    <3>2. Len(draft[u]) = 1
      BY <2>1, <2>4, <3>1 DEF Drafted
    <3>3. client'[u] = "enqueued" => draft[u][1].to \in Users
      <4>1. CASE SendEnqueue(u)
        <5>1. draft[u] \in Seq(Message) /\ draft[u][1].to # NoUser
          BY <1>1, <4>1 DEF SendEnqueue
        <5>2. 1 \in 1 .. Len(draft[u])
          BY <3>2
        <5>3. draft[u][1] \in Message
          BY ONLY <5>1, <5>2, ElementOfSeq
        <5> QED BY <5>1, <5>3 DEF Message
      <4>2. CASE Flush(u)
        BY <2>1, <2>4, <4>2 DEF Drafted, Flush, clients
      <4>3. CASE ~(SendEnqueue(u) \/ Flush(u))
        BY <1>1, <4>3 DEF SyncMessages, Refuse, SendPush, Login, Logout
      <4> QED BY <4>1, <4>2, <4>3
    <3> QED BY <1>2, <2>4, <3>2, <3>3 DEF Drafted
  <2> QED BY <2>2, <2>3, <2>4
<1>5. queue' \in Seq(Message)
  <2>1. CASE SendEnqueue(u)
    BY <1>1, <2>1 DEF SendEnqueue
  <2>2. CASE ~SendEnqueue(u)
    BY <1>1, <2>2 DEF SyncMessages, Refuse, SendPush, Flush, Login, Logout, store
  <2> QED BY <2>1, <2>2
<1>6. history' \in [Users -> Seq(Message)]
  BY <1>1 DEF SyncMessages, Refuse, SendEnqueue, SendPush, Flush, Login, Logout, clients
<1>7. wire' \in [Users -> Seq(Letter)] /\ pending' \in [Users -> Seq(Letter)]
  <2>1. CASE SyncMessages(u)
    <3>1. PICK a \in GetMessagesForUser(u) :
             wire' = [wire EXCEPT ![u] = Append(@, [kind |-> "sync", body |-> a])]
      BY <2>1 DEF SyncMessages
    <3>2. a \in Seq(Message)
      BY QueryType
    <3>3. [kind |-> "sync", body |-> a] \in Letter
      BY <3>2 DEF Letter
    <3>4. Append(wire[u], [kind |-> "sync", body |-> a]) \in Seq(Letter)
      BY <1>1, <3>3, Appends
    <3> QED BY <1>1, <2>1, <3>1, <3>4 DEF SyncMessages
  <2>2. CASE Refuse(u)
    <3>1. [kind |-> "refused", body |-> draft[u]] \in Letter
      BY <1>1 DEF Letter
    <3>2. Append(wire[u], [kind |-> "refused", body |-> draft[u]]) \in Seq(Letter)
      BY <1>1, <3>1, Appends
    <3> QED BY <1>1, <2>2, <3>2 DEF Refuse
  <2>3. CASE SendPush(u)
    <3>1. [kind |-> "push", body |-> draft[u]] \in Letter /\ [kind |-> "ack", body |-> draft[u]] \in Letter
      BY <1>1 DEF Letter
    <3>2. /\ Append(wire[u], [kind |-> "ack", body |-> draft[u]]) \in Seq(Letter)
          /\ \A w \in Users : Append(pending[w], [kind |-> "push", body |-> draft[u]]) \in Seq(Letter)
      BY <1>1, <3>1, Appends
    <3>3. wire' \in [Users -> Seq(Letter)]
      BY <1>1, <2>3, <3>2 DEF SendPush
    <3> DEFINE to == draft[u][1].to
    <3>4. pending' = [pending EXCEPT ![to] =
                        IF to \in online THEN Append(@, [kind |-> "push", body |-> draft[u]]) ELSE @]
      BY <2>3 DEF SendPush
    <3> HIDE DEF to
    <3>5. pending' \in [Users -> Seq(Letter)]
      BY <1>1, <3>2, <3>4
    <3> QED BY <3>3, <3>5
  <2>4. CASE Flush(u)
    <3>1. wire[u] \o pending[u] \in Seq(Letter)
      BY <1>1
    <3> QED BY <1>1, <2>4, <3>1 DEF Flush
  <2>5. CASE SendEnqueue(u) \/ Login(u)
    BY <1>1, <2>5 DEF SendEnqueue, Login, net
  <2>6. CASE Logout(u)
    BY <1>1, <2>6 DEF Logout
  <2> QED BY <2>1, <2>2, <2>3, <2>4, <2>5, <2>6
<1>8. before' \in [Users -> SUBSET Message]
  <2>1. before \in [Users -> SUBSET Message] /\ Inbox(u) \subseteq Message
    BY <1>1 DEF MsgTypeOK, Inbox
  <2> QED BY <2>1 DEF SyncMessages, Refuse, SendEnqueue, SendPush, Flush, Login, Logout
<1> QED BY <1>2, <1>3, <1>4, <1>5, <1>6, <1>7, <1>8 DEF MsgTypeOK

\* The first message of a queue, and the others.
LEMMA Heads ==
    ASSUME NEW S, NEW q \in Seq(S), q # <<>>
    PROVE  /\ Head(q) \in S /\ Head(q) = q[1] /\ Tail(q) \in Seq(S) /\ Len(Tail(q)) = Len(q) - 1
           /\ Len(q) \in Nat /\ Len(q) > 0
           /\ \A i \in 1 .. Len(q) - 1 : Tail(q)[i] = q[i + 1]
OBVIOUS

LEMMA ReceiveType ==
    ASSUME MsgTypeOK, NEW u \in Users, Receive(u)
    PROVE  MsgTypeOK'
<1>1. /\ wire \in [Users -> Seq(Letter)] /\ pending \in [Users -> Seq(Letter)]
      /\ draft \in [Users -> Seq(Message)] /\ history \in [Users -> Seq(Message)]
      /\ <<>> \in Seq(Message)
      /\ client \in [Users -> {"out", "sync", "syncing", "in", "sending", "enqueued", "sent"}]
  BY DEF MsgTypeOK
<1>2. UNCHANGED <<queue, batch, retry, rows, failures, pending, now, msgs, before>>
  BY DEF Receive, store
<1>3. wire[u] \in Seq(Letter) /\ wire[u] # <<>>
  BY <1>1 DEF Receive
<1>4. Head(wire[u]) \in Letter /\ Tail(wire[u]) \in Seq(Letter)
  BY <1>3, Heads
<1>5. wire' \in [Users -> Seq(Letter)]
  BY <1>1, <1>4 DEF Receive
<1> DEFINE e == Head(wire[u])
<1>6. e.kind \in {"sync", "push", "ack", "refused"} /\ e.body \in Seq(Message)
  BY <1>4 DEF Letter
<1>7. client' = [client EXCEPT ![u] = IF e.kind = "push" THEN @ ELSE "in"]
      /\ draft' = [draft EXCEPT ![u] = IF e.kind = "push" THEN @ ELSE <<>>]
      /\ history' = [history EXCEPT ![u] =
                        CASE e.kind \in {"push", "ack"} -> @ \o e.body
                          [] e.kind = "sync"            -> Reverse(e.body)
                          [] e.kind = "refused"         -> @]
  BY DEF Receive
<1> HIDE DEF e
<1>8. client' \in [Users -> {"out", "sync", "syncing", "in", "sending", "enqueued", "sent"}]
      /\ draft' \in [Users -> Seq(Message)]
  BY <1>1, <1>7
<1>9. history' \in [Users -> Seq(Message)]
  <2>1. history[u] \o e.body \in Seq(Message)
    BY <1>1, <1>6
  <2>2. Reverse(e.body) \in Seq(Message)
    <3> DEFINE b == e.body
    <3>1. b \in Seq(Message)
      BY <1>6
    <3> HIDE DEF b
    <3>2. Reverse(b) \in [1 .. Len(b) -> Message] /\ Len(b) \in Nat
      BY <3>1 DEF Reverse
    <3>3. Reverse(b) \in Seq(Message)
      BY <3>2
    <3> QED BY <3>3 DEF b
  <2> DEFINE h == CASE e.kind \in {"push", "ack"} -> history[u] \o e.body
                    [] e.kind = "sync"            -> Reverse(e.body)
                    [] e.kind = "refused"         -> history[u]
  <2>3. h \in Seq(Message)
    BY <1>1, <1>6, <2>1, <2>2
  <2>4. history' = [history EXCEPT ![u] = h]
    BY <1>1, <1>7
  <2> HIDE DEF h
  <2> QED BY <1>1, <2>3, <2>4
<1>10. \A w \in Users : Drafted(w)'
  <2> SUFFICES ASSUME NEW w \in Users PROVE Drafted(w)'
    OBVIOUS
  <2>1. Drafted(w)
    BY DEF MsgTypeOK
  <2>2. CASE w # u \/ e.kind = "push"
    <3>1. client'[w] = client[w] /\ draft'[w] = draft[w]
      BY <1>1, <1>7, <2>2
    <3> QED BY <2>1, <3>1 DEF Drafted
  <2>3. CASE w = u /\ e.kind # "push"
    <3>1. client'[w] = "in"
      BY <1>1, <1>7, <2>3
    <3> QED BY <3>1 DEF Drafted
  <2> QED BY <2>2, <2>3
<1> QED BY <1>2, <1>5, <1>8, <1>9, <1>10 DEF MsgTypeOK

LEMMA ComposeType ==
    ASSUME MsgTypeOK, NEW u \in Users, NEW to \in (Users \ {u}) \cup {NoUser}, Compose(u, to)
    PROVE  /\ MsgTypeOK' /\ msgs' = msgs + 1 /\ Len(draft'[u]) = 1
           /\ draft'[u][1] \in Message /\ draft'[u][1].id \in {0, msgs'}
           /\ draft'[u] = <<draft'[u][1]>>
           /\ \A w \in Users : w # u => draft'[w] = draft[w] /\ client'[w] = client[w]
           /\ client'[u] = "sending" /\ client[u] = "in"
<1>1. /\ draft \in [Users -> Seq(Message)] /\ now \in 0 .. MaxTime /\ msgs \in 0 .. MaxMsgs
      /\ client \in [Users -> {"out", "sync", "syncing", "in", "sending", "enqueued", "sent"}]
  BY DEF MsgTypeOK
<1>2. UNCHANGED <<queue, batch, retry, rows, failures, pending, wire, history, now, before>>
  BY DEF Compose, store, net
<1>3. msgs' = msgs + 1 /\ msgs' \in 1 .. MaxMsgs
  BY <1>1, MessagingAssumption DEF Compose
<1>4. PICK id \in {0, msgs'} :
         draft' = [draft EXCEPT ![u] =
                      <<[n |-> msgs', from |-> u, to |-> to, ts |-> now, id |-> id]>>]
  BY DEF Compose
<1>5. id \in 0 .. MaxMsgs
  BY <1>3, <1>4, MessagingAssumption
<1> DEFINE m == [n |-> msgs', from |-> u, to |-> to, ts |-> now, id |-> id]
<1>6. m \in Message /\ m.id = id
  BY <1>1, <1>3, <1>5 DEF Message
<1> HIDE DEF m
<1>7. draft' = [draft EXCEPT ![u] = <<m>>]
  BY <1>4 DEF m
<1>8. <<m>> \in Seq(Message) /\ Len(<<m>>) = 1 /\ <<m>>[1] = m
  BY <1>6
<1>9. client' = [client EXCEPT ![u] = "sending"] /\ client[u] = "in"
  BY DEF Compose
<1>10. draft' \in [Users -> Seq(Message)] /\ draft'[u] = <<m>>
       /\ \A w \in Users : w # u => draft'[w] = draft[w] /\ client'[w] = client[w]
  BY <1>1, <1>7, <1>8, <1>9
<1>11. client' \in [Users -> {"out", "sync", "syncing", "in", "sending", "enqueued", "sent"}]
       /\ client'[u] = "sending"
  BY <1>1, <1>9
<1>12. \A w \in Users : Drafted(w)'
  <2> SUFFICES ASSUME NEW w \in Users PROVE Drafted(w)'
    OBVIOUS
  <2>1. CASE w = u
    <3>1. Len(draft'[w]) = 1
      BY <1>8, <1>10, <2>1
    <3> QED BY <1>11, <2>1, <3>1 DEF Drafted
  <2>2. CASE w # u
    BY <1>10, <2>2 DEF MsgTypeOK, Drafted
  <2> QED BY <2>1, <2>2
<1>13. msgs' \in 0 .. MaxMsgs
  BY <1>3, MessagingAssumption
<1>14. MsgTypeOK'
  BY <1>2, <1>10, <1>11, <1>12, <1>13 DEF MsgTypeOK
<1>15. draft'[u][1] = m /\ Len(draft'[u]) = 1
  BY <1>8, <1>10
<1> QED BY <1>3, <1>4, <1>6, <1>9, <1>10, <1>11, <1>14, <1>15

LEMMA MsgTypeStep ==
    ASSUME MsgTypeOK, Serving, Tables, [MsgNext]_msg_vars
    PROVE  MsgTypeOK'
<1>1. CASE Main \/ UNCHANGED msg_vars
  <2>1. UNCHANGED <<store, clients, net, now, msgs, before>>
    BY <1>1 DEF Main, InitLock, InitConnected, InitFailed, Close, Stop, Join, msg_vars
  <2>2. UNCHANGED <<queue, batch, retry, rows, failures>>
    BY <2>1 DEF store
  <2> QED BY <2>1, <2>2, StoreType DEF MsgTypeOK
<1>2. CASE Writer
  BY <1>2, WriterType
<1>3. CASE TimePasses
  <2>1. UNCHANGED <<queue, batch, retry, rows, failures, client, draft, history, pending, wire, msgs, before>>
    BY <1>3 DEF TimePasses, store, clients, net
  <2>2. now' \in 0 .. MaxTime
    BY <1>3, MessagingAssumption DEF TimePasses, MsgTypeOK
  <2>3. \A u \in Users : Drafted(u)'
    BY <2>1 DEF MsgTypeOK, Drafted
  <2> QED BY <2>1, <2>2, <2>3 DEF MsgTypeOK
<1>4. ASSUME NEW u \in Users, Handler(u) \/ Login(u) \/ Logout(u) PROVE MsgTypeOK'
  BY <1>4, ClientType DEF Handler
<1>5. ASSUME NEW u \in Users, Receive(u) PROVE MsgTypeOK'
  BY <1>5, ReceiveType
<1>6. ASSUME NEW u \in Users, NEW to \in (Users \ {u}) \cup {NoUser}, Compose(u, to) PROVE MsgTypeOK'
  BY <1>6, ComposeType
<1> QED BY <1>1, <1>2, <1>3, <1>4, <1>5, <1>6 DEF MsgNext

----------------------------------------------------------------------------
(* The phases of the server.                                               *)

LEMMA ServingStep ==
    ASSUME MsgTypeOK, Serving, Wires, [MsgNext]_msg_vars
    PROVE  Serving'
<1>1. CASE Main
  <2>1. UNCHANGED <<queue, writer, batch, retry, rows, dropped, failures, client>>
    BY <1>1 DEF Main, InitLock, InitConnected, InitFailed, Close, Stop, Join, store, clients
  <2>2. retry = 0 => retry <= failures
    BY DEF MsgTypeOK
  <2>3. CASE InitLock
    BY <2>1, <2>3 DEF InitLock, Serving
  <2>4. CASE InitConnected
    BY <2>1, <2>2, <2>4 DEF InitConnected, Serving
  <2>5. CASE InitFailed
    BY <2>1, <2>5 DEF InitFailed, Serving
  <2>6. CASE Close
    BY <2>1, <2>6 DEF Close, Serving
  <2>7. CASE Stop
    BY <2>1, <2>7 DEF Stop, Serving
  <2>8. CASE Join
    BY <2>1, <2>8 DEF Join, Serving
  <2> QED BY <1>1, <2>3, <2>4, <2>5, <2>6, <2>7, <2>8 DEF Main
<1>2. CASE Writer
  <2>1. UNCHANGED <<main, mtx, session, running_, client>>
    BY <1>2 DEF Writer, WriterTake, WriterInsert, WriterFails, WriterLeaves, DrainTake,
                DrainInsert, DrainDone, server, clients
  <2>2. main \notin {"init", "connecting", "failed"}
    BY <1>2 DEF Serving, Writer, WriterTake, WriterInsert, WriterFails, WriterLeaves, DrainTake,
                DrainInsert, DrainDone, DequeueBulk
  <2>3. writer' \in {"drain", "drain_insert", "done"} => ~running_
    BY <1>2 DEF Serving, Writer, WriterTake, WriterInsert, WriterFails, WriterLeaves, DrainTake,
                DrainInsert, DrainDone
  <2>4. writer' \in {"loop", "drain", "done"} => batch' = <<>>
    BY <1>2 DEF Serving, Writer, WriterTake, WriterInsert, WriterFails, WriterLeaves, DrainTake,
                DrainInsert, DrainDone
  <2>5. main = "serving" => retry' <= failures'
    <3>1. retry \in Nat /\ failures \in Nat /\ (main = "serving" => session /\ retry <= failures)
      BY DEF MsgTypeOK, Serving
    <3>2. CASE WriterTake \/ DrainTake
      BY <3>1, <3>2 DEF WriterTake, DrainTake, DequeueBulk
    <3>3. CASE WriterInsert \/ DrainInsert
      <4>1. PICK ok \in BOOLEAN : InsertBatch(ok)
        BY <3>3 DEF WriterInsert, DrainInsert
      <4>2. failures' = failures \/ failures' = failures + 1
        BY <4>1, Inserts
      <4>3. retry' = retry
        BY <3>3 DEF WriterInsert, DrainInsert
      <4> QED BY <3>1, <4>2, <4>3
    <3>4. CASE WriterFails
      <4>1. session => failures' = failures + 1
        BY <3>4, Inserts DEF WriterFails
      <4>2. retry' = retry + 1
        BY <3>4 DEF WriterFails
      <4> QED BY <3>1, <4>1, <4>2
    <3>5. CASE WriterLeaves \/ DrainDone
      BY <3>1, <3>5 DEF WriterLeaves, DrainDone
    <3> QED BY <1>2, <3>2, <3>3, <3>4, <3>5 DEF Writer
  <2> QED BY <2>1, <2>2, <2>3, <2>4, <2>5 DEF Serving
<1>3. CASE TimePasses \/ UNCHANGED msg_vars
  <2>1. UNCHANGED <<server, store, client>>
    BY <1>3 DEF TimePasses, msg_vars, clients
  <2> QED BY <2>1 DEF Serving, server, store
<1>4. ASSUME NEW u \in Users,
             \/ Handler(u) \/ Receive(u) \/ Login(u) \/ Logout(u)
             \/ \E to \in (Users \ {u}) \cup {NoUser} : Compose(u, to)
      PROVE  Serving'
  <2>1. UNCHANGED <<server, writer, batch, retry, dropped, failures>>
    BY <1>4 DEF Handler, SyncMessages, Refuse, SendEnqueue, SendPush, Flush, Receive, Login,
                Logout, Compose, store
  <2>2. main \in {"init", "connecting", "failed"} => queue' = queue /\ client' = client
    <3> SUFFICES ASSUME main \in {"init", "connecting", "failed"}
                 PROVE  queue' = queue /\ client' = client
      OBVIOUS
    <3>1. client[u] = "out" /\ wire[u] = <<>> /\ pending[u] = <<>>
      BY DEF Serving, Wires, Wired
    <3> QED BY <1>4, <3>1 DEF Handler, SyncMessages, Refuse, SendEnqueue, SendPush, Flush,
                              Receive, Login, Logout, Compose
  <2> QED BY <2>1, <2>2 DEF Serving, server
<1> QED BY <1>1, <1>2, <1>3, <1>4 DEF MsgNext

----------------------------------------------------------------------------
(* The messages and their rows.                                            *)

\* A step that writes nothing and composes nothing.
LEMMA TablesKeep ==
    ASSUME Tables, Known' \subseteq Known, rows' = rows, msgs' = msgs,
           \A u \in Users : \A m \in before'[u] : m \in before[u] \/ KeptFor(rows, u, m)
    PROVE  Tables'
<1>1. Distinct(Known') /\ \A m \in Known' : m.id <= msgs'
  BY DEF Tables, Distinct
<1>2. \A m \in stored' : Kept(rows', m)
  BY DEF Tables, stored
<1>3. \A u \in Users : \A m \in before'[u] : KeptFor(rows', u, m)
  BY DEF Tables
<1>4. Distinct(Known)'
  BY <1>1 DEF Distinct
<1> QED BY <1>1, <1>2, <1>3, <1>4 DEF Tables

LEMMA TablesStep ==
    ASSUME MsgTypeOK, Serving, Tables, Wires, [MsgNext]_msg_vars
    PROVE  Tables'
<1>0. /\ queue \in Seq(Message) /\ batch \in Seq(Message) /\ draft \in [Users -> Seq(Message)]
      /\ <<>> \in Seq(Message) /\ Range(<<>>) = {}
  BY DEF MsgTypeOK, Range
<1>1. CASE Main \/ UNCHANGED msg_vars \/ TimePasses
  <2>1. UNCHANGED <<queue, batch, rows, draft, msgs, before>>
    BY <1>1 DEF Main, InitLock, InitConnected, InitFailed, Close, Stop, Join, msg_vars,
                TimePasses, store, clients
  <2>2. Known' = Known
    BY <2>1 DEF Known, stored
  <2> QED BY <2>1, <2>2, TablesKeep
<1>2. CASE WriterTake \/ DrainTake
  <2>1. DequeueBulk /\ UNCHANGED <<rows, draft, msgs, before>>
    BY <1>2 DEF WriterTake, DrainTake, clients
  <2>2. Range(queue) = Range(batch') \cup Range(queue')
    BY <1>0, <2>1, Takes
  <2>3. Known' \subseteq Known
    BY <2>1, <2>2 DEF Known, stored
  <2> QED BY <2>1, <2>3, TablesKeep
<1>3. CASE WriterInsert \/ WriterFails \/ DrainInsert
  <2>1. PICK ok \in BOOLEAN : InsertBatch(ok)
    BY <1>3 DEF WriterInsert, WriterFails, DrainInsert
  <2>2. UNCHANGED <<queue, draft, msgs, before>> /\ (batch' = <<>> \/ batch' = batch)
    BY <1>3 DEF WriterInsert, WriterFails, DrainInsert, clients
  <2>3. /\ \A r \in rows' : r \in rows \/ \E i \in 1 .. Len(batch) : r \in RowsOf(batch[i])
        /\ \A m : Kept(rows, m) => Kept(rows', m)
        /\ \A u, m : KeptFor(rows, u, m) => KeptFor(rows', u, m)
        /\ rows' # rows => \A i \in 1 .. Len(batch) : Kept(rows', batch[i])
    BY <2>1, Writes
  <2>4. ASSUME NEW m \in stored'
        PROVE  m \in stored \/ (rows' # rows /\ \E i \in 1 .. Len(batch) : m = batch[i])
    <3>1. PICK r \in rows' : m = r.msg
      BY <2>4 DEF stored
    <3>2. CASE r \in rows
      BY <3>1, <3>2 DEF stored
    <3>3. ASSUME r \notin rows, NEW i \in 1 .. Len(batch), r \in RowsOf(batch[i])
          PROVE  rows' # rows /\ m = batch[i]
      BY <3>1, <3>3, RowOf
    <3> QED BY <2>3, <3>2, <3>3
  <2>5. \A m \in stored' : Kept(rows', m)
    BY <2>3, <2>4 DEF Tables
  <2>6. \A i \in 1 .. Len(batch) : batch[i] \in Range(batch)
    BY <1>0 DEF Range
  <2>7. Known' \subseteq Known
    BY <1>0, <2>2, <2>4, <2>6 DEF Known
  <2>8. Distinct(Known)' /\ \A m \in Known' : m.id <= msgs'
    BY <2>2, <2>7 DEF Tables, Distinct
  <2>9. \A u \in Users : \A m \in before'[u] : KeptFor(rows', u, m)
    BY <2>2, <2>3 DEF Tables
  <2> QED BY <2>5, <2>8, <2>9 DEF Tables
<1>4. CASE WriterLeaves \/ DrainDone
  <2>1. UNCHANGED <<queue, batch, rows, draft, msgs, before>>
    BY <1>4 DEF WriterLeaves, DrainDone, clients
  <2>2. Known' = Known
    BY <2>1 DEF Known, stored
  <2> QED BY <2>1, <2>2, TablesKeep
<1>5. ASSUME NEW u \in Users, SyncMessages(u) \/ Refuse(u) \/ SendPush(u) \/ Flush(u) \/ Logout(u)
      PROVE  Tables'
  <2>1. UNCHANGED <<queue, batch, rows, draft, msgs, before>>
    BY <1>5 DEF SyncMessages, Refuse, SendPush, Flush, Logout, store, clients
  <2>2. Known' = Known
    BY <2>1 DEF Known, stored
  <2> QED BY <2>1, <2>2, TablesKeep
<1>6. ASSUME NEW u \in Users, SendEnqueue(u) PROVE Tables'
  <2>1. queue' = queue \o draft[u] /\ UNCHANGED <<batch, rows, draft, msgs, before>>
    BY <1>6 DEF SendEnqueue
  <2>2. Range(queue') = Range(queue) \cup Range(draft[u])
    BY <1>0, <2>1, Joins
  <2>3. Known' \subseteq Known
    BY <2>1, <2>2 DEF Known, stored
  <2> QED BY <2>1, <2>3, TablesKeep
<1>7. ASSUME NEW u \in Users, Receive(u) PROVE Tables'
  <2>1. UNCHANGED <<queue, batch, rows, msgs, before>>
    BY <1>7 DEF Receive, store
  <2>2. draft' = [draft EXCEPT ![u] = draft[u]] \/ draft' = [draft EXCEPT ![u] = <<>>]
    BY <1>7 DEF Receive
  <2>3. \A w \in Users : Range(draft'[w]) \subseteq Range(draft[w])
    BY <1>0, <2>2
  <2>4. Known' \subseteq Known
    BY <2>1, <2>3 DEF Known, stored
  <2> QED BY <2>1, <2>4, TablesKeep
<1>8. ASSUME NEW u \in Users, Login(u) PROVE Tables'
  <2>1. UNCHANGED <<queue, batch, rows, draft, msgs>> /\ before' = [before EXCEPT ![u] = Inbox(u)]
    BY <1>8 DEF Login, store
  <2>2. Known' = Known
    BY <2>1 DEF Known, stored
  <2>3. \A m \in Inbox(u) : KeptFor(rows, u, m)
    BY DEF Inbox, KeptFor
  <2>4. \A w \in Users : \A m \in before'[w] : m \in before[w] \/ KeptFor(rows, w, m)
    BY <2>1, <2>3 DEF MsgTypeOK
  <2> QED BY <2>1, <2>2, <2>4, TablesKeep
<1>9. ASSUME NEW u \in Users, NEW to \in (Users \ {u}) \cup {NoUser}, Compose(u, to) PROVE Tables'
  <2>1. UNCHANGED <<queue, batch, rows, before>>
    BY <1>9 DEF Compose, store
  <2>2. /\ msgs' = msgs + 1 /\ draft'[u] = <<draft'[u][1]>> /\ draft'[u][1].id \in {0, msgs'}
        /\ \A w \in Users : w # u => draft'[w] = draft[w]
    BY <1>9, ComposeType
  <2> DEFINE c == draft'[u][1]
  <2>3. Range(draft'[u]) = {c}
    BY <2>2 DEF Range
  <2> HIDE DEF c
  <2>4. Known' \subseteq Known \cup {c}
    BY <2>1, <2>2, <2>3 DEF Known, stored
  <2>5. msgs \in Nat /\ c.id \in {0, msgs + 1}
    BY <2>2 DEF c, MsgTypeOK
  <2>6. ASSUME NEW m \in Known PROVE m.id \in Int /\ m.id <= msgs
    <3>1. m \in Message
      BY <1>0 DEF Known, stored, MsgTypeOK, Range
    <3> QED BY <3>1 DEF Message, Tables
  <2>7. \A m \in Known' : m.id <= msgs'
    BY <2>2, <2>4, <2>5, <2>6
  <2>8. Distinct(Known)'
    <3> SUFFICES ASSUME NEW m \in Known', NEW k \in Known', m.id # 0, m.id = k.id PROVE m = k
      BY DEF Distinct
    <3>1. CASE m \in Known /\ k \in Known
      BY <3>1 DEF Tables, Distinct
    <3>2. CASE m = c /\ k \in Known
      BY <2>5, <2>6, <3>2
    <3>3. CASE m \in Known /\ k = c
      BY <2>5, <2>6, <3>3
    <3> QED BY <2>4, <3>1, <3>2, <3>3
  <2> QED BY <2>1, <2>7, <2>8 DEF Tables, stored
<1> QED BY <1>1, <1>2, <1>3, <1>4, <1>5, <1>6, <1>7, <1>8, <1>9 DEF MsgNext, Writer, Handler

----------------------------------------------------------------------------
(* Acknowledged messages.                                                  *)

\* A step that leaves the writer and its queue alone.
LEMMA AccountedKeeps ==
    ASSUME Serving, Serving', Range(queue) \subseteq Range(queue'),
           UNCHANGED <<batch, rows, dropped, failures>>,
           main' = main \/ main' # "serving" \/ main \in {"init", "connecting", "failed"},
           NEW m, Accounted(m)
    PROVE  Accounted(m)'
<1>1. CASE m \in Range(queue) \cup Range(batch)
  BY <1>1 DEF Accounted
<1>2. CASE Kept(rows, m)
  BY <1>2 DEF Accounted
<1>3. CASE m \in dropped /\ (failures > kMaxRetries \/ main # "serving")
  <2>1. main \notin {"init", "connecting", "failed"}
    BY <1>3 DEF Serving
  <2> QED BY <1>3, <2>1 DEF Accounted
<1> QED BY <1>1, <1>2, <1>3 DEF Accounted

LEMMA WriterAccounts ==
    ASSUME MsgTypeOK, Serving, Tables, Writer, NEW m, Accounted(m)
    PROVE  Accounted(m)'
<1>0. /\ queue \in Seq(Message) /\ batch \in Seq(Message) /\ Range(<<>>) = {}
      /\ retry \in Nat /\ failures \in Nat
  BY DEF MsgTypeOK, Range
<1>1. CASE WriterTake \/ DrainTake
  <2>1. DequeueBulk /\ UNCHANGED <<main, rows, dropped, failures>> /\ batch = <<>>
    BY <1>1 DEF WriterTake, DrainTake, Serving, server
  <2>2. Range(queue) = Range(batch') \cup Range(queue') /\ Range(batch) = {}
    BY <1>0, <2>1, Takes
  <2> QED BY <2>1, <2>2 DEF Accounted
<1>2. CASE WriterInsert \/ WriterFails \/ DrainInsert
  <2>1. PICK ok \in BOOLEAN :
           /\ InsertBatch(ok)
           /\ ok \/ WriterFails \/ (DrainInsert /\ dropped' = dropped \cup Range(batch))
    BY <1>2 DEF WriterInsert, WriterFails, DrainInsert
  <2>2. queue' = queue /\ main' = main /\ dropped \subseteq dropped'
    BY <1>2 DEF WriterInsert, WriterFails, DrainInsert, server
  <2>3. /\ \A k : Kept(rows, k) => Kept(rows', k)
        /\ ok => \A i \in 1 .. Len(batch) : Kept(rows', batch[i])
    BY <2>1, Writes
  <2>4. failures' \in Nat /\ failures' >= failures
    BY <1>0, <2>1, Inserts
  <2>5. CASE m \in Range(queue)
    BY <2>2, <2>5 DEF Accounted
  <2>6. CASE Kept(rows, m)
    BY <2>3, <2>6 DEF Accounted
  <2>7. CASE m \in dropped /\ (failures > kMaxRetries \/ main # "serving")
    <3>1. failures > kMaxRetries => failures' > kMaxRetries
      BY <1>0, <2>4 DEF kMaxRetries
    <3> QED BY <2>2, <2>7, <3>1 DEF Accounted
  <2>8. CASE m \in Range(batch)
    <3>1. CASE ok
      <4>1. PICK i \in 1 .. Len(batch) : m = batch[i]
        BY <1>0, <2>8 DEF Range
      <4> QED BY <2>3, <3>1, <4>1 DEF Accounted
    <3>2. CASE batch' = batch
      BY <2>8, <3>2 DEF Accounted
    <3>3. CASE ~ok /\ WriterFails /\ batch' # batch
      <4>1. dropped' = dropped \cup Range(batch) /\ retry + 1 > kMaxRetries
        BY <3>3 DEF WriterFails
      <4>2. main = "serving" => session /\ retry <= failures
        BY DEF Serving
      <4>3. session => failures' = failures + 1
        BY <2>1, <3>3, Inserts
      <4>4. main = "serving" => failures' > kMaxRetries
        BY <1>0, <4>1, <4>2, <4>3 DEF kMaxRetries
      <4> QED BY <2>2, <2>8, <4>1, <4>4 DEF Accounted
    <3>4. CASE DrainInsert /\ dropped' = dropped \cup Range(batch)
      <4>1. dropped' = dropped \cup Range(batch)
        BY <3>4
      <4>2. main # "serving"
        BY <3>4 DEF DrainInsert, Serving
      <4> QED BY <2>2, <2>8, <4>1, <4>2 DEF Accounted
    <3> QED BY <2>1, <3>1, <3>2, <3>3, <3>4
  <2> QED BY <2>5, <2>6, <2>7, <2>8 DEF Accounted
<1>3. CASE WriterLeaves \/ DrainDone
  <2>1. UNCHANGED <<main, queue, batch, rows, dropped, failures>>
    BY <1>3 DEF WriterLeaves, DrainDone, server
  <2> QED BY <2>1 DEF Accounted
<1> QED BY <1>1, <1>2, <1>3 DEF Writer

LEMMA AccountsStep ==
    ASSUME MsgTypeOK, Serving, Serving', Tables, Wires, Accounts, [MsgNext]_msg_vars
    PROVE  Accounts'
<1>0. /\ queue \in Seq(Message) /\ draft \in [Users -> Seq(Message)]
      /\ client \in [Users -> {"out", "sync", "syncing", "in", "sending", "enqueued", "sent"}]
  BY DEF MsgTypeOK
<1>1. CASE Main \/ UNCHANGED msg_vars \/ TimePasses
  <2>1. /\ UNCHANGED <<queue, batch, rows, dropped, failures, client, draft, acked>>
        /\ main' = main \/ main' # "serving" \/ main \in {"init", "connecting", "failed"}
    BY <1>1 DEF Main, InitLock, InitConnected, InitFailed, Close, Stop, Join, msg_vars,
                TimePasses, server, store, clients
  <2>2. \A m : Accounted(m) => Accounted(m)'
    BY <2>1, AccountedKeeps
  <2> QED BY <2>1, <2>2 DEF Accounts
<1>2. CASE Writer
  <2>1. UNCHANGED <<client, draft, acked>>
    BY <1>2 DEF Writer, WriterTake, WriterInsert, WriterFails, WriterLeaves, DrainTake,
                DrainInsert, DrainDone, clients
  <2>2. \A m : Accounted(m) => Accounted(m)'
    BY <1>2, WriterAccounts
  <2> QED BY <2>1, <2>2 DEF Accounts
<1>3. ASSUME NEW u \in Users,
             \/ Handler(u) \/ Receive(u) \/ Login(u) \/ Logout(u)
             \/ \E to \in (Users \ {u}) \cup {NoUser} : Compose(u, to)
      PROVE  Accounts'
  <2>1. UNCHANGED <<main, batch, rows, dropped, failures>>
    BY <1>3 DEF Handler, SyncMessages, Refuse, SendEnqueue, SendPush, Flush, Receive, Login,
                Logout, Compose, server, store
  <2>2. Range(queue) \subseteq Range(queue') /\ (SendEnqueue(u) => Range(draft[u]) \subseteq Range(queue'))
    <3>1. CASE SendEnqueue(u)
      <4>1. queue' = queue \o draft[u]
        BY <3>1 DEF SendEnqueue
      <4> QED BY <1>0, <4>1, Joins
    <3>2. CASE ~SendEnqueue(u)
      <4>1. queue' = queue
        BY <1>3, <3>2 DEF Handler, SyncMessages, Refuse, SendPush, Flush, Receive, Login,
                          Logout, Compose, store
      <4> QED BY <3>2, <4>1
    <3> QED BY <3>1, <3>2
  <2>3. \A m : Accounted(m) => Accounted(m)'
    BY <2>1, <2>2, AccountedKeeps
  <2>4. ASSUME NEW m \in acked' PROVE Accounted(m)'
    <3>1. CASE m \in acked
      BY <2>3, <3>1 DEF Accounts
    <3>2. CASE m \notin acked
      <4>1. SendPush(u)
        BY <1>3, <2>4, <3>2 DEF Handler, SyncMessages, Refuse, SendEnqueue, Flush, Receive, Login,
                                Logout, Compose
      <4>2. m \in Range(draft[u]) /\ client[u] = "enqueued"
        BY <2>4, <3>2, <4>1 DEF SendPush
      <4>3. draft[u] \in Seq(Message) /\ Len(draft[u]) = 1
        BY <1>0, <4>2 DEF MsgTypeOK, Drafted
      <4>4. m = draft[u][1]
        BY <4>2, <4>3 DEF Range
      <4>5. Accounted(m)
        BY <4>2, <4>4 DEF Accounts
      <4> QED BY <2>3, <4>5
    <3> QED BY <3>1, <3>2
  <2>5. ASSUME NEW w \in Users, client'[w] = "enqueued" PROVE Accounted(draft[w][1])' /\ draft'[w] = draft[w]
    <3>1. CASE w = u /\ SendEnqueue(u)
      <4>1. draft[u] \in Seq(Message) /\ Len(draft[u]) = 1 /\ draft' = draft
        BY <1>0, <3>1 DEF MsgTypeOK, Drafted, SendEnqueue
      <4>2. draft[u][1] \in Range(draft[u])
        BY <4>1 DEF Range
      <4>3. draft[u][1] \in Range(queue')
        BY <2>2, <3>1, <4>2
      <4> QED BY <3>1, <4>1, <4>3 DEF Accounted
    <3>2. CASE ~(w = u /\ SendEnqueue(u))
      <4>1. client[w] = "enqueued" /\ draft'[w] = draft[w]
        <5>1. ASSUME NEW to \in (Users \ {u}) \cup {NoUser}, Compose(u, to)
              PROVE  client[w] = "enqueued" /\ draft'[w] = draft[w]
          BY <2>5, <5>1, ComposeType
        <5>2. CASE Receive(u)
          <6>1. \/ client' = client /\ draft' = draft
                \/ client' = [client EXCEPT ![u] = "in"] /\ draft' = [draft EXCEPT ![u] = <<>>]
            BY <1>0, <5>2 DEF Receive
          <6> QED BY <1>0, <2>5, <6>1
        <5>3. CASE SendEnqueue(u)
          BY <1>0, <2>5, <3>2, <5>3 DEF SendEnqueue
        <5>4. CASE SyncMessages(u) \/ Refuse(u) \/ SendPush(u) \/ Flush(u) \/ Login(u) \/ Logout(u)
          BY <1>0, <2>5, <5>4 DEF SyncMessages, Refuse, SendPush, Flush, Login, Logout, clients
        <5> QED BY <1>3, <5>1, <5>2, <5>3, <5>4 DEF Handler
      <4>2. Accounted(draft[w][1])
        BY <4>1 DEF Accounts
      <4>3. draft'[w][1] = draft[w][1]
        BY <4>1
      <4> QED BY <2>3, <4>1, <4>2, <4>3 DEF Accounted
    <3> QED BY <3>1, <3>2
  <2> QED BY <2>4, <2>5 DEF Accounts
<1> QED BY <1>1, <1>2, <1>3 DEF MsgNext

----------------------------------------------------------------------------
(* What a client shows.                                                    *)

\* The elements of a sequence are finitely many, one at each place if none is repeated.
LEMMA SetOfSeq ==
    ASSUME NEW S, NEW q \in Seq(S)
    PROVE  /\ IsFiniteSet(Range(q)) /\ Len(q) \in Nat
           /\ (\A i, j \in 1 .. Len(q) : q[i] = q[j] => i = j) => Cardinality(Range(q)) = Len(q)
<1>1. Len(q) \in Nat /\ DOMAIN q = 1 .. Len(q) /\ Range(q) = {q[i] : i \in 1 .. Len(q)}
  BY DEF Range
<1>2. q \in [1 .. Len(q) -> Range(q)]
  BY <1>1
<1>3. q \in Surjection(1 .. Len(q), Range(q))
  BY <1>1, <1>2 DEF Surjection
<1>4. IsFiniteSet(1 .. Len(q)) /\ Cardinality(1 .. Len(q)) = Len(q)
  <2>1. 1 \in Int /\ Len(q) \in Int
    BY <1>1
  <2>2. /\ IsFiniteSet(1 .. Len(q))
        /\ Cardinality(1 .. Len(q)) = IF 1 > Len(q) THEN 0 ELSE Len(q) - 1 + 1
    BY <2>1, FS_Interval
  <2> QED BY <1>1, <2>2
<1>5. IsFiniteSet(Range(q)) /\ (Cardinality(Range(q)) = Cardinality(1 .. Len(q)) <=> q \in Injection(1 .. Len(q), Range(q)))
  BY <1>3, <1>4, FS_Surjection
<1>6. (\A i, j \in 1 .. Len(q) : q[i] = q[j] => i = j) => q \in Injection(1 .. Len(q), Range(q))
  BY <1>1, <1>2 DEF Injection, IsInjective
<1> QED BY <1>1, <1>4, <1>5, <1>6

\* A client that shows more still shows m.
LEMMA ShownGrows ==
    ASSUME NEW T, IsFiniteSet(T), NEW S \in SUBSET T, NEW m, Shown(S, m)
    PROVE  Shown(T, m)
<1>1. CASE Cardinality({k \in S : k.ts >= m.ts}) >= SyncLimit
  <2> DEFINE s == {k \in S : k.ts >= m.ts}
             t == {k \in T : k.ts >= m.ts}
  <2>1. t \in SUBSET T /\ s \in SUBSET t
    OBVIOUS
  <2> HIDE DEF s, t
  <2>2. IsFiniteSet(t)
    BY <2>1, FS_Subset
  <2>3. IsFiniteSet(s) /\ Cardinality(s) <= Cardinality(t)
    BY <2>1, <2>2, FS_Subset
  <2>4. Cardinality(s) \in Nat /\ Cardinality(t) \in Nat /\ Cardinality(s) >= SyncLimit /\ SyncLimit \in Nat
    BY <1>1, <2>2, <2>3, FS_CardinalityType, MessagingAssumption DEF s
  <2>5. Cardinality(t) >= SyncLimit
    BY <2>3, <2>4
  <2> QED BY <2>5 DEF Shown, t
<1>2. CASE m \in S \/ (m.id = 0 /\ \E k \in S : k.id = 0 /\ k.ts = m.ts)
  BY <1>2 DEF Shown
<1> QED BY <1>1, <1>2 DEF Shown

LEMMA ReverseSet ==
    ASSUME NEW S, NEW b \in Seq(S)
    PROVE  Range(Reverse(b)) = Range(b)
<1>1. Len(b) \in Nat /\ Range(b) = {b[i] : i \in 1 .. Len(b)}
  BY DEF Range
<1>2. DOMAIN Reverse(b) = 1 .. Len(b) /\ \A i \in 1 .. Len(b) : Reverse(b)[i] = b[(Len(b) - i) + 1]
  BY DEF Reverse
<1>3. Range(Reverse(b)) = {Reverse(b)[i] : i \in 1 .. Len(b)}
  BY <1>2 DEF Range
<1>4. ASSUME NEW i \in 1 .. Len(b) PROVE Reverse(b)[i] \in Range(b) /\ b[i] \in Range(Reverse(b))
  <2>1. (Len(b) - i) + 1 \in 1 .. Len(b) /\ (Len(b) - ((Len(b) - i) + 1)) + 1 = i
    BY <1>1
  <2> QED BY <1>1, <1>2, <1>3, <2>1
<1>5. Range(Reverse(b)) \subseteq Range(b) /\ Range(b) \subseteq Range(Reverse(b))
  BY <1>1, <1>3, <1>4
<1> QED BY <1>5

\* The answer to a query shows what is kept in the inbox.
LEMMA AnswerShows ==
    ASSUME MsgTypeOK, session, NEW u, NEW a \in GetMessagesForUser(u), NEW m, KeptFor(rows, u, m)
    PROVE  Shown(Range(a), m)
<1>1. PICK r \in rows : /\ r.part = <<"user", u>> /\ r.msg.ts = m.ts /\ r.msg.id = m.id
                        /\ m.id # 0 => r.msg = m
  BY DEF KeptFor
<1> DEFINE k == r.msg
<1>2. k \in Inbox(u) /\ k.ts = m.ts /\ k.id = m.id /\ (m.id # 0 => k = m)
  BY <1>1 DEF Inbox
<1> HIDE DEF k
<1>3. \A x \in Inbox(u) : x.ts \in Int /\ x.id \in Int
  BY DEF Inbox, MsgTypeOK, Message
<1>4. PICK n \in 0 .. SyncLimit : a \in [1 .. n -> Inbox(u)]
  BY DEF GetMessagesForUser
<1>5. n \in Nat /\ SyncLimit \in Nat
  BY MessagingAssumption
<1>6. a \in Seq(Inbox(u)) /\ Len(a) = n /\ DOMAIN a = 1 .. n
  BY <1>4, <1>5
<1>7. /\ \A i, j \in 1 .. n : i < j => Newer(a[i], a[j])
      /\ \A x \in Inbox(u) \ Range(a) : \A i \in 1 .. n : Newer(a[i], x)
      /\ Len(a) < SyncLimit => Range(a) = Inbox(u)
  BY <1>6 DEF GetMessagesForUser
<1>8. CASE k \in Range(a)
  BY <1>2, <1>8 DEF Shown
<1>9. CASE k \notin Range(a)
  <2>1. n >= SyncLimit
    BY <1>2, <1>5, <1>6, <1>7, <1>9
  <2>2. \A i \in 1 .. n : a[i] \in Inbox(u) /\ a[i].ts >= m.ts
    <3> SUFFICES ASSUME NEW i \in 1 .. n PROVE a[i] \in Inbox(u) /\ a[i].ts >= m.ts
      OBVIOUS
    <3>1. a[i] \in Inbox(u) /\ Newer(a[i], k)
      BY <1>2, <1>4, <1>7, <1>9
    <3> QED BY <1>2, <1>3, <3>1 DEF Newer
  <2>3. ASSUME NEW i \in 1 .. n, NEW j \in 1 .. n, a[i] = a[j] PROVE i = j
    <3>1. a[i].ts \in Int /\ a[i].id \in Int
      BY <1>3, <2>2
    <3>2. ~Newer(a[i], a[j]) /\ ~Newer(a[j], a[i])
      BY <2>3, <3>1 DEF Newer
    <3>3. ~(i < j) /\ ~(j < i)
      BY <1>7, <3>2
    <3> QED BY <1>5, <3>3
  <2>4. Cardinality(Range(a)) = n
    BY <1>6, <2>3, SetOfSeq
  <2>5. {x \in Range(a) : x.ts >= m.ts} = Range(a)
    BY <1>6, <2>2 DEF Range
  <2> QED BY <2>1, <2>4, <2>5 DEF Shown
<1> QED BY <1>8, <1>9

LEMMA Nothing == 1 .. Len(<<>>) = {}
OBVIOUS

\* A connection that a step leaves alone.
LEMMA WiredKeeps ==
    ASSUME NEW w, Wired(w), client'[w] = client[w], pending'[w] = pending[w],
           wire'[w] = wire[w], before'[w] = before[w], history'[w] = history[w]
    PROVE  Wired(w)'
<1>1. Pushes(w)' /\ Answers(w)' /\ OneAnswer(w)'
  BY DEF Wired, Pushes, Answers, OneAnswer
<1> QED BY <1>1 DEF Wired

\* A client that has no request, or whose request has no answer yet, has only pushes
\* to read.
LEMMA OnlyPushes ==
    ASSUME NEW u, Answers(u), client[u] \notin {"syncing", "sent"}
    PROVE  \A i \in 1 .. Len(wire[u]) : wire[u][i].kind = "push"
BY DEF Answers

\* The answer to a request, behind pushes.
LEMMA AnswerArrives ==
    ASSUME NEW u, wire[u] \in Seq(Letter), NEW e \in Letter, wire'[u] = Append(wire[u], e),
           \A i \in 1 .. Len(wire[u]) : wire[u][i].kind = "push",
           \/ e.kind = "sync" /\ client'[u] = "syncing"
                 /\ \A m \in before'[u] : Shown(Range(e.body), m)
           \/ e.kind \in {"ack", "refused"} /\ client'[u] = "sent"
    PROVE  Answers(u)' /\ OneAnswer(u)'
<1> DEFINE n == Len(wire[u])
<1>1. /\ n \in Nat /\ Len(wire'[u]) = n + 1 /\ wire'[u][n + 1] = e
      /\ \A i \in 1 .. n : wire'[u][i] = wire[u][i]
  BY Appends
<1>2. \A i \in 1 .. n : wire'[u][i].kind = "push"
  BY <1>1
<1> HIDE DEF n
<1>3. \A i \in 1 .. n + 1 : i \in 1 .. n \/ i = n + 1
  BY <1>1
<1>4. Answers(u)'
  BY <1>1, <1>2, <1>3 DEF Answers
<1>5. OneAnswer(u)'
  BY <1>1, <1>2, <1>3 DEF OneAnswer
<1> QED BY <1>4, <1>5

\* The client u reads what is first.
LEMMA ReceiveWired ==
    ASSUME MsgTypeOK, NEW u \in Users, Wired(u), Receive(u)
    PROVE  Wired(u)'
<1>0. /\ wire \in [Users -> Seq(Letter)] /\ history \in [Users -> Seq(Message)]
      /\ client \in [Users -> {"out", "sync", "syncing", "in", "sending", "enqueued", "sent"}]
  BY DEF MsgTypeOK
<1>1. wire[u] \in Seq(Letter) /\ wire[u] # <<>> /\ wire'[u] = Tail(wire[u])
      /\ pending' = pending /\ before' = before
  BY <1>0 DEF Receive
<1> DEFINE e == Head(wire[u])
           n == Len(wire[u])
<1>2. /\ e \in Letter /\ e = wire[u][1] /\ Len(wire'[u]) = n - 1 /\ n \in Nat /\ n > 0
      /\ \A i \in 1 .. n - 1 : wire'[u][i] = wire[u][i + 1]
  BY <1>1, Heads
<1>3. /\ client'[u] = IF e.kind = "push" THEN client[u] ELSE "in"
      /\ history'[u] = CASE e.kind \in {"push", "ack"} -> history[u] \o e.body
                         [] e.kind = "sync"            -> Reverse(e.body)
                         [] e.kind = "refused"         -> history[u]
  BY <1>0 DEF Receive
<1> HIDE DEF e
<1>4. e.kind \in {"sync", "push", "ack", "refused"} /\ e.body \in Seq(Message) /\ history[u] \in Seq(Message)
  BY <1>0, <1>2 DEF Letter
<1>5. 1 \in 1 .. n /\ \A i \in 1 .. n - 1 : i + 1 \in 1 .. n /\ i + 1 # 1
  BY <1>2
<1>6. client[u] # "out"
  BY <1>1 DEF Wired
<1>7. Pushes(u)'
  BY <1>1 DEF Wired, Pushes
<1>8. OneAnswer(u)'
  <2> SUFFICES ASSUME NEW i \in 1 .. n - 1, NEW j \in 1 .. n - 1,
                      wire'[u][i].kind # "push", wire'[u][j].kind # "push"
               PROVE  i = j
    BY <1>2 DEF OneAnswer
  <2>1. \A k, l \in 1 .. n : wire[u][k].kind # "push" /\ wire[u][l].kind # "push" => k = l
    BY DEF Wired, OneAnswer
  <2>2. /\ i + 1 \in 1 .. n /\ wire[u][i + 1].kind # "push"
        /\ j + 1 \in 1 .. n /\ wire[u][j + 1].kind # "push"
    BY <1>2, <1>5
  <2>3. i + 1 = j + 1
    BY ONLY <2>1, <2>2, Zenon
  <2> QED BY <2>3
<1>9. \A i \in 1 .. n - 1 : e.kind # "push" => wire'[u][i].kind = "push"
  BY <1>2, <1>5 DEF Wired, OneAnswer
<1>10. Answers(u)'
  <2> SUFFICES ASSUME NEW i \in 1 .. n - 1
               PROVE  \/ wire'[u][i].kind = "push"
                      \/ wire'[u][i].kind = "sync" /\ client'[u] = "syncing"
                            /\ \A m \in before'[u] : Shown(Range(wire'[u][i].body), m)
                      \/ wire'[u][i].kind \in {"ack", "refused"} /\ client'[u] = "sent"
    BY <1>2 DEF Answers
  <2>1. CASE e.kind # "push"
    BY <1>9, <2>1
  <2>2. CASE e.kind = "push"
    <3>1. client'[u] = client[u]
      BY <1>3, <2>2
    <3> QED BY <1>1, <1>2, <1>5, <3>1 DEF Wired, Answers
  <2> QED BY <2>1, <2>2
<1>11. ASSUME client'[u] \in {"in", "sending", "enqueued", "sent"}, NEW m \in before'[u]
       PROVE  Shown(Range(history'[u]), m)
  <2>1. /\ IsFiniteSet(Range(history[u] \o e.body))
        /\ Range(history[u]) \in SUBSET Range(history[u] \o e.body)
    <3>1. /\ history[u] \o e.body \in Seq(Message)
          /\ Range(history[u] \o e.body) = Range(history[u]) \cup Range(e.body)
      BY ONLY <1>4, Joins, SMTT(30)
    <3>2. IsFiniteSet(Range(history[u] \o e.body))
      BY ONLY <3>1, SetOfSeq
    <3> QED BY <3>1, <3>2
  <2>2. CASE e.kind = "push"
    <3>1. Shown(Range(history[u]), m)
      BY <1>1, <1>3, <1>11, <2>2 DEF Wired
    <3>2. history'[u] = history[u] \o e.body
      BY <1>3, <2>2
    <3> QED BY <2>1, <3>1, <3>2, ShownGrows
  <2>3. CASE e.kind = "ack"
    <3>1. client[u] = "sent"
      BY <1>2, <1>5, <2>3 DEF Wired, Answers
    <3>2. Shown(Range(history[u]), m)
      BY <1>1, <1>11, <3>1 DEF Wired
    <3>3. history'[u] = history[u] \o e.body
      BY <1>3, <2>3
    <3> QED BY <2>1, <3>2, <3>3, ShownGrows
  <2>4. CASE e.kind = "refused"
    <3>1. client[u] = "sent"
      BY <1>2, <1>5, <2>4 DEF Wired, Answers
    <3>2. Shown(Range(history[u]), m)
      BY <1>1, <1>11, <3>1 DEF Wired
    <3>3. history'[u] = history[u]
      BY <1>3, <2>4
    <3> QED BY <3>2, <3>3
  <2>5. CASE e.kind = "sync"
    <3>1. Shown(Range(e.body), m)
      BY <1>1, <1>2, <1>5, <1>11, <2>5 DEF Wired, Answers
    <3>2. history'[u] = Reverse(e.body)
      BY <1>3, <2>5
    <3>3. Range(history'[u]) = Range(e.body)
      BY <1>4, <3>2, ReverseSet
    <3> QED BY <3>1, <3>3
  <2> QED BY <1>4, <2>2, <2>3, <2>4, <2>5
<1>12. client'[u] # "out"
  BY <1>3, <1>6
<1> QED BY <1>7, <1>8, <1>10, <1>11, <1>12 DEF Wired

\* What is flushed to u is pushes.
LEMMA FlushWired ==
    ASSUME MsgTypeOK, NEW u \in Users, Wired(u), Flush(u)
    PROVE  Wired(u)'
<1>0. wire \in [Users -> Seq(Letter)] /\ pending \in [Users -> Seq(Letter)]
  BY DEF MsgTypeOK
<1>1. /\ wire'[u] = wire[u] \o pending[u] /\ pending'[u] = <<>> /\ pending[u] # <<>>
      /\ UNCHANGED <<client, history, before>>
      /\ wire[u] \in Seq(Letter) /\ pending[u] \in Seq(Letter)
  BY <1>0 DEF Flush, clients
<1> DEFINE n == Len(wire[u])
           p == Len(pending[u])
<1>2. /\ Len(wire'[u]) = n + p /\ n \in Nat /\ p \in Nat
      /\ \A i \in 1 .. n : wire'[u][i] = wire[u][i]
      /\ \A i \in 1 .. p : wire'[u][n + i] = pending[u][i]
  <2>1. Len(wire[u]) \in Nat /\ Len(pending[u]) \in Nat
    BY <1>1
  <2> DEFINE x == wire[u]
             y == pending[u]
  <2>2. x \in Seq(Letter) /\ y \in Seq(Letter) /\ wire'[u] = x \o y
    BY <1>1
  <2> HIDE DEF x, y
  <2>3. /\ Len(x \o y) = Len(x) + Len(y)
        /\ \A i \in 1 .. Len(x) : (x \o y)[i] = x[i]
        /\ \A i \in 1 .. Len(y) : (x \o y)[Len(x) + i] = y[i]
    BY ONLY <2>2, Joins
  <2> QED BY <2>1, <2>2, <2>3 DEF x, y
<1>3. client'[u] # "out"
  BY <1>1 DEF Wired
<1>4. Pushes(u)'
  BY <1>1 DEF Pushes
<1>5. \A i \in 1 .. p : pending[u][i].kind = "push"
  BY DEF Wired, Pushes
<1> HIDE DEF n, p
<1>6. ASSUME NEW i \in 1 .. n + p, i \notin 1 .. n PROVE wire'[u][i].kind = "push"
  <2>1. i - n \in 1 .. p /\ i = n + (i - n)
    BY <1>2, <1>6
  <2> QED BY <1>2, <1>5, <2>1
<1>7. Answers(u)'
  <2> SUFFICES ASSUME NEW i \in 1 .. n + p
               PROVE  \/ wire'[u][i].kind = "push"
                      \/ wire'[u][i].kind = "sync" /\ client'[u] = "syncing"
                            /\ \A m \in before'[u] : Shown(Range(wire'[u][i].body), m)
                      \/ wire'[u][i].kind \in {"ack", "refused"} /\ client'[u] = "sent"
    BY <1>2 DEF Answers
  <2>1. CASE i \in 1 .. n
    BY <1>1, <1>2, <2>1 DEF Wired, Answers, n
  <2>2. CASE i \notin 1 .. n
    BY <1>6, <2>2
  <2> QED BY <2>1, <2>2
<1>8. OneAnswer(u)'
  <2> SUFFICES ASSUME NEW i \in 1 .. n + p, NEW j \in 1 .. n + p,
                      wire'[u][i].kind # "push", wire'[u][j].kind # "push"
               PROVE  i = j
    BY <1>2 DEF OneAnswer
  <2>1. i \in 1 .. n /\ j \in 1 .. n
    BY <1>6
  <2> QED BY <1>2, <2>1 DEF Wired, OneAnswer, n
<1> QED BY <1>1, <1>3, <1>4, <1>7, <1>8 DEF Wired

\* The sender of a message gets the acknowledgement, its receiver a push.
LEMMA PushWired ==
    ASSUME MsgTypeOK, NEW u \in Users, SendPush(u), NEW w \in Users, Wired(w)
    PROVE  Wired(w)'
<1>0. /\ wire \in [Users -> Seq(Letter)] /\ pending \in [Users -> Seq(Letter)]
      /\ draft \in [Users -> Seq(Message)]
      /\ client \in [Users -> {"out", "sync", "syncing", "in", "sending", "enqueued", "sent"}]
  BY DEF MsgTypeOK
<1>1. client[u] = "enqueued" /\ client' = [client EXCEPT ![u] = "sent"] /\ history' = history /\ before' = before
      /\ wire' = [wire EXCEPT ![u] = Append(@, [kind |-> "ack", body |-> draft[u]])]
  BY DEF SendPush
<1>2. pending'[w] = pending[w]
        \/ (client[w] # "out" /\ pending'[w] = Append(pending[w], [kind |-> "push", body |-> draft[u]]))
  <2> DEFINE to == draft[u][1].to
  <2>1. pending' = [pending EXCEPT ![to] =
                       IF to \in online THEN Append(@, [kind |-> "push", body |-> draft[u]]) ELSE @]
    BY DEF SendPush
  <2> HIDE DEF to
  <2> QED BY <1>0, <2>1 DEF online
<1>3. Pushes(w)' /\ (client[w] = "out" => pending'[w] = <<>>)
  <2>1. CASE pending'[w] = pending[w]
    BY <2>1 DEF Wired, Pushes
  <2>2. CASE client[w] # "out" /\ pending'[w] = Append(pending[w], [kind |-> "push", body |-> draft[u]])
    <3> DEFINE e == [kind |-> "push", body |-> draft[u]]
               n == Len(pending[w])
    <3>1. e \in Letter /\ e.kind = "push" /\ pending[w] \in Seq(Letter)
      BY <1>0 DEF Letter
    <3>2. pending'[w] = Append(pending[w], e)
      BY <2>2
    <3> HIDE DEF e
    <3>3. /\ n \in Nat /\ Len(pending'[w]) = n + 1 /\ pending'[w][n + 1] = e
          /\ \A i \in 1 .. n : pending'[w][i] = pending[w][i]
      BY <3>1, <3>2, Appends
    <3>4. \A i \in 1 .. n : pending[w][i].kind = "push"
      BY DEF Wired, Pushes
    <3> HIDE DEF n
    <3>5. \A i \in 1 .. n + 1 : i \in 1 .. n \/ i = n + 1
      BY <3>3
    <3>6. Pushes(w)'
      BY <3>1, <3>3, <3>4, <3>5 DEF Pushes
    <3> QED BY <2>2, <3>6
  <2> QED BY <1>2, <2>1, <2>2
<1>4. CASE w = u
  <2> DEFINE e == [kind |-> "ack", body |-> draft[u]]
  <2>1. e \in Letter /\ e.kind = "ack"
    BY <1>0 DEF Letter
  <2>2. wire'[u] = Append(wire[u], e) /\ client'[u] = "sent" /\ wire[u] \in Seq(Letter)
    BY <1>0, <1>1
  <2> HIDE DEF e
  <2>3. \A i \in 1 .. Len(wire[u]) : wire[u][i].kind = "push"
    BY <1>1, <1>4, OnlyPushes DEF Wired
  <2>4. Answers(u)' /\ OneAnswer(u)'
    BY <2>1, <2>2, <2>3, AnswerArrives
  <2>5. \A m \in before'[u] : Shown(Range(history'[u]), m)
    BY <1>1, <1>4 DEF Wired
  <2> QED BY <1>3, <1>4, <2>2, <2>4, <2>5 DEF Wired
<1>5. CASE w # u
  <2>1. client'[w] = client[w] /\ wire'[w] = wire[w] /\ before'[w] = before[w] /\ history'[w] = history[w]
    BY <1>0, <1>1, <1>5
  <2>2. Answers(w)' /\ OneAnswer(w)'
    BY <2>1 DEF Wired, Answers, OneAnswer
  <2> QED BY <1>3, <2>1, <2>2 DEF Wired
<1> QED BY <1>4, <1>5

LEMMA ClientWired ==
    ASSUME MsgTypeOK, Serving, Tables, NEW u \in Users, Wired(u),
           SyncMessages(u) \/ Refuse(u) \/ SendEnqueue(u) \/ Login(u) \/ Logout(u)
              \/ \E to \in (Users \ {u}) \cup {NoUser} : Compose(u, to)
    PROVE  Wired(u)'
<1>0. /\ wire \in [Users -> Seq(Letter)] /\ pending \in [Users -> Seq(Letter)]
      /\ draft \in [Users -> Seq(Message)] /\ history \in [Users -> Seq(Message)]
      /\ before \in [Users -> SUBSET Message]
      /\ client \in [Users -> {"out", "sync", "syncing", "in", "sending", "enqueued", "sent"}]
  BY DEF MsgTypeOK
<1>1. CASE SyncMessages(u)
  <2>1. PICK a \in GetMessagesForUser(u) :
           wire' = [wire EXCEPT ![u] = Append(@, [kind |-> "sync", body |-> a])]
    BY <1>1 DEF SyncMessages
  <2>2. /\ main = "serving" /\ client[u] = "sync" /\ client'[u] = "syncing"
        /\ pending' = pending /\ before' = before
    BY <1>0, <1>1 DEF SyncMessages
  <2>3. session /\ \A m \in before[u] : KeptFor(rows, u, m)
    BY <2>2 DEF Serving, Tables
  <2>4. \A m \in before'[u] : Shown(Range(a), m)
    BY <2>2, <2>3, AnswerShows
  <2> DEFINE e == [kind |-> "sync", body |-> a]
  <2>5. e.kind = "sync" /\ e.body = a /\ wire'[u] = Append(wire[u], e) /\ wire[u] \in Seq(Letter)
    BY <1>0, <2>1
  <2>6. e \in Letter
    BY <2>3, QueryType DEF Letter
  <2> HIDE DEF e
  <2>7. \A i \in 1 .. Len(wire[u]) : wire[u][i].kind = "push"
    BY <2>2, OnlyPushes DEF Wired
  <2>8. Answers(u)' /\ OneAnswer(u)'
    BY <2>2, <2>4, <2>5, <2>6, <2>7, AnswerArrives
  <2>9. Pushes(u)'
    BY <2>2 DEF Wired, Pushes
  <2> QED BY <2>2, <2>8, <2>9 DEF Wired
<1>2. CASE Refuse(u)
  <2> DEFINE e == [kind |-> "refused", body |-> draft[u]]
  <2>1. e \in Letter /\ e.kind = "refused"
    BY <1>0 DEF Letter
  <2>2. /\ wire'[u] = Append(wire[u], e) /\ wire[u] \in Seq(Letter)
        /\ client[u] = "sending" /\ client'[u] = "sent"
        /\ pending' = pending /\ before' = before /\ history' = history
    BY <1>0, <1>2 DEF Refuse
  <2> HIDE DEF e
  <2>3. \A i \in 1 .. Len(wire[u]) : wire[u][i].kind = "push"
    BY <2>2, OnlyPushes DEF Wired
  <2>4. Answers(u)' /\ OneAnswer(u)'
    BY <2>1, <2>2, <2>3, AnswerArrives
  <2>5. Pushes(u)'
    BY <2>2 DEF Wired, Pushes
  <2>6. \A m \in before'[u] : Shown(Range(history'[u]), m)
    BY <2>2 DEF Wired
  <2> QED BY <2>2, <2>4, <2>5, <2>6 DEF Wired
<1>3. CASE SendEnqueue(u) \/ \E to \in (Users \ {u}) \cup {NoUser} : Compose(u, to)
  <2>1. /\ UNCHANGED <<pending, wire, before, history>>
        /\ client[u] \in {"in", "sending"} /\ client'[u] \in {"sending", "enqueued"}
    BY <1>0, <1>3 DEF SendEnqueue, Compose, net
  <2>2. \A i \in 1 .. Len(wire[u]) : wire[u][i].kind = "push"
    BY <2>1, OnlyPushes DEF Wired
  <2>3. Answers(u)' /\ OneAnswer(u)' /\ Pushes(u)'
    BY <2>1, <2>2 DEF Wired, Answers, OneAnswer, Pushes
  <2>4. \A m \in before'[u] : Shown(Range(history'[u]), m)
    BY <2>1 DEF Wired
  <2> QED BY <2>1, <2>3, <2>4 DEF Wired
<1>4. CASE Login(u)
  <2>1. wire'[u] = <<>> /\ pending'[u] = <<>> /\ client'[u] = "sync"
    BY <1>0, <1>4 DEF Login, Wired, net
  <2>2. Answers(u)' /\ OneAnswer(u)' /\ Pushes(u)'
    BY <2>1, Nothing DEF Answers, OneAnswer, Pushes
  <2> QED BY <2>1, <2>2 DEF Wired
<1>5. CASE Logout(u)
  <2>1. wire'[u] = <<>> /\ pending'[u] = <<>> /\ client'[u] = "out"
    BY <1>0, <1>5 DEF Logout
  <2>2. Answers(u)' /\ OneAnswer(u)' /\ Pushes(u)'
    BY <2>1, Nothing DEF Answers, OneAnswer, Pushes
  <2> QED BY <2>1, <2>2 DEF Wired
<1> QED BY <1>1, <1>2, <1>3, <1>4, <1>5

LEMMA WiresStep ==
    ASSUME MsgTypeOK, Serving, Tables, Wires, [MsgNext]_msg_vars
    PROVE  Wires'
<1> SUFFICES ASSUME NEW w \in Users PROVE Wired(w)'
  BY DEF Wires
<1>0. /\ wire \in [Users -> Seq(Letter)] /\ pending \in [Users -> Seq(Letter)] /\ Wired(w)
      /\ history \in [Users -> Seq(Message)] /\ before \in [Users -> SUBSET Message]
      /\ client \in [Users -> {"out", "sync", "syncing", "in", "sending", "enqueued", "sent"}]
  BY DEF MsgTypeOK, Wires
<1>1. CASE Main \/ Writer \/ TimePasses \/ UNCHANGED msg_vars
  <2>1. UNCHANGED <<clients, net, before>>
    BY <1>1 DEF Main, InitLock, InitConnected, InitFailed, Close, Stop, Join, TimePasses, msg_vars,
                Writer, WriterTake, WriterInsert, WriterFails, WriterLeaves, DrainTake, DrainInsert, DrainDone
  <2> QED BY <1>0, <2>1, WiredKeeps DEF clients, net
<1>2. ASSUME NEW u \in Users, SendPush(u) PROVE Wired(w)'
  BY <1>0, <1>2, PushWired
<1>3. ASSUME NEW u \in Users, w # u,
             \/ SyncMessages(u) \/ Refuse(u) \/ SendEnqueue(u) \/ Flush(u) \/ Receive(u)
             \/ Login(u) \/ Logout(u)
             \/ \E to \in (Users \ {u}) \cup {NoUser} : Compose(u, to)
      PROVE  Wired(w)'
  <2>1. client'[w] = client[w]
    BY <1>0, <1>3 DEF SyncMessages, Refuse, SendEnqueue, Flush, Receive, Login, Logout, Compose, clients
  <2>2. history'[w] = history[w]
    BY <1>0, <1>3 DEF SyncMessages, Refuse, SendEnqueue, Flush, Receive, Login, Logout, Compose, clients
  <2>3. pending'[w] = pending[w] /\ wire'[w] = wire[w]
    BY <1>0, <1>3 DEF SyncMessages, Refuse, SendEnqueue, Flush, Receive, Login, Logout, Compose, net
  <2>4. before'[w] = before[w]
    BY <1>0, <1>3 DEF SyncMessages, Refuse, SendEnqueue, Flush, Receive, Login, Logout, Compose
  <2> QED BY <1>0, <2>1, <2>2, <2>3, <2>4, WiredKeeps
<1>4. ASSUME SyncMessages(w) \/ Refuse(w) \/ SendEnqueue(w) \/ Login(w) \/ Logout(w)
                \/ \E to \in (Users \ {w}) \cup {NoUser} : Compose(w, to)
      PROVE  Wired(w)'
  BY <1>0, <1>4, ClientWired
<1>5. ASSUME Flush(w) PROVE Wired(w)'
  BY <1>0, <1>5, FlushWired
<1>6. ASSUME Receive(w) PROVE Wired(w)'
  BY <1>0, <1>6, ReceiveWired
<1>7. CASE \E u \in Users :
              \/ Handler(u) \/ Receive(u) \/ Login(u) \/ Logout(u)
              \/ \E to \in (Users \ {u}) \cup {NoUser} : Compose(u, to)
  <2>1. PICK u \in Users :
              \/ Handler(u) \/ Receive(u) \/ Login(u) \/ Logout(u)
              \/ \E to \in (Users \ {u}) \cup {NoUser} : Compose(u, to)
    BY <1>7
  <2>2. CASE w # u
    BY <1>2, <1>3, <2>1, <2>2 DEF Handler
  <2>3. CASE w = u
    BY <1>2, <1>4, <1>5, <1>6, <2>1, <2>3 DEF Handler
  <2> QED BY <2>2, <2>3
<1> QED BY <1>1, <1>7 DEF MsgNext

----------------------------------------------------------------------------
(* The theorems.                                                           *)

\* What holds in every state: the three properties follow from it.
MsgIInv == MsgTypeOK /\ Serving /\ Tables /\ Accounts /\ Wires

LEMMA MsgInitially ==
    ASSUME MsgInit
    PROVE  MsgIInv
<1>0. <<>> \in Seq(Message) /\ <<>> \in Seq(Letter) /\ Range(<<>>) = {}
  BY DEF Range
<1>1. \A u \in Users : /\ client[u] = "out" /\ draft[u] = <<>> /\ pending[u] = <<>> /\ wire[u] = <<>>
                       /\ before[u] = {}
  BY DEF MsgInit
<1>2. MsgTypeOK
  <2>1. \A u \in Users : Drafted(u)
    BY <1>1 DEF Drafted
  <2>2. now \in 0 .. MaxTime /\ msgs \in 0 .. MaxMsgs
    BY MessagingAssumption DEF MsgInit
  <2> QED BY <1>0, <2>1, <2>2 DEF MsgInit, MsgTypeOK
<1>3. Serving
  BY <1>1 DEF MsgInit, Serving
<1>4. Tables
  <2>1. stored = {} /\ Known = {}
    BY <1>0, <1>1 DEF MsgInit, stored, Known
  <2> QED BY <1>1, <2>1 DEF Tables, Distinct
<1>5. Accounts
  BY <1>1 DEF MsgInit, Accounts
<1>6. Wires
  <2>1. \A u \in Users : Answers(u) /\ OneAnswer(u) /\ Pushes(u)
    BY <1>1, Nothing DEF Answers, OneAnswer, Pushes
  <2> QED BY <1>1, <2>1 DEF Wires, Wired
<1> QED BY <1>2, <1>3, <1>4, <1>5, <1>6 DEF MsgIInv

LEMMA MsgInvariant == MsgSpec => []MsgIInv
<1>1. MsgInit => MsgIInv
  BY MsgInitially
<1>2. MsgIInv /\ [MsgNext]_msg_vars => MsgIInv'
  <2> SUFFICES ASSUME MsgIInv, [MsgNext]_msg_vars PROVE MsgIInv'
    OBVIOUS
  <2>1. MsgTypeOK /\ Serving /\ Tables /\ Accounts /\ Wires
    BY DEF MsgIInv
  <2>2. MsgTypeOK'
    BY <2>1, MsgTypeStep
  <2>3. Serving'
    BY <2>1, ServingStep
  <2>4. Tables'
    BY <2>1, TablesStep
  <2>5. Accounts'
    BY <2>1, <2>3, AccountsStep
  <2>6. Wires'
    BY <2>1, WiresStep
  <2> QED BY <2>2, <2>3, <2>4, <2>5, <2>6 DEF MsgIInv
<1> QED BY <1>1, <1>2, PTL DEF MsgSpec

\* What is kept of a message is its row in the conversation, or that of another one of
\* the same second between the same users.
LEMMA KeptIsStored ==
    ASSUME MsgTypeOK, NEW m, Kept(rows, m)
    PROVE  \/ m \in stored
           \/ m.id = 0 /\ \E k \in stored :
                 k.id = 0 /\ k.ts = m.ts /\ {k.from, k.to} = {m.from, m.to}
<1> DEFINE r == [part |-> <<"conversation", {m.from, m.to}>>, msg |-> m]
<1>1. r \in RowsOf(m) /\ r.msg = m /\ r.part = <<"conversation", {m.from, m.to}>>
  BY DEF RowsOf
<1> HIDE DEF r
<1>2. PICK s \in rows : SameKey(r, s) /\ (m.id # 0 => s = r)
  BY <1>1 DEF Kept
<1>3. s.msg \in stored /\ s.msg.id = m.id /\ s.msg.ts = m.ts /\ s.part = r.part
  BY <1>1, <1>2 DEF SameKey, stored
<1>4. CASE m.id # 0
  BY <1>1, <1>2, <1>3, <1>4
<1>5. CASE m.id = 0
  <2>1. s \in RowsOf(s.msg)
    BY DEF MsgTypeOK
  <2>2. s.part[1] = "conversation"
    BY <1>1, <1>3
  <2>3. s.part = <<"conversation", {s.msg.from, s.msg.to}>>
    BY <2>1, <2>2 DEF RowsOf
  <2>4. {s.msg.from, s.msg.to} = s.part[2] /\ s.part[2] = {m.from, m.to}
    BY <1>1, <1>3, <2>3
  <2> QED BY <1>3, <1>5, <2>4
<1> QED BY <1>4, <1>5

\* An acknowledged message is not lost: it is queued, in the writer's batch or stored, or
\* the writer gave it up after kMaxRetries failures or at shutdown, or a message without
\* an id replaced it (send_p2p_message and WorkerLoop).
THEOREM MsgAckedIsAccountedFor == MsgSpec => []AckedIsAccountedFor
<1>1. MsgIInv => AckedIsAccountedFor
  <2> SUFFICES ASSUME MsgIInv, NEW m \in acked
               PROVE  \/ m \in Range(queue) \cup Range(batch) \cup stored
                      \/ m \in dropped /\ (failures > kMaxRetries \/ main # "serving")
                      \/ m.id = 0 /\ \E k \in stored :
                            k.id = 0 /\ k.ts = m.ts /\ {k.from, k.to} = {m.from, m.to}
    BY DEF AckedIsAccountedFor
  <2>1. Accounted(m) /\ MsgTypeOK
    BY DEF MsgIInv, Accounts
  <2>2. CASE Kept(rows, m)
    BY <2>1, <2>2, KeptIsStored
  <2>3. CASE ~Kept(rows, m)
    BY <2>1, <2>3 DEF Accounted
  <2> QED BY <2>2, <2>3
<1> QED BY <1>1, MsgInvariant, PTL

\* A stored message is in the conversation and in both inboxes, up to replacement by a
\* message without an id, whatever batch was retried, timed out or failed (InsertBatch).
THEOREM MsgStoredEverywhere == MsgSpec => []StoredEverywhere
<1>1. MsgIInv => StoredEverywhere
  BY DEF MsgIInv, Tables, StoredEverywhere, Kept
<1> QED BY <1>1, MsgInvariant, PTL

\* A client that has read the answer to the sync of its login shows what was stored for
\* it before that login, for every number of users and every limit of the query
\* (sync_messages and GetMessagesForUser).
THEOREM MsgSyncShowsStored == MsgSpec => []SyncShowsStored
<1>1. MsgIInv => SyncShowsStored
  BY DEF MsgIInv, Wires, Wired, SyncShowsStored
<1> QED BY <1>1, MsgInvariant, PTL
==============================================================================
