----------------------------- MODULE MPSCQueue -----------------------------
(***************************************************************************)
(* The lock-free queue of server/src/core/mpsc_queue.h, one atomic load,   *)
(* store or compare-and-exchange per step.  It carries the pushes of a     *)
(* connection (TcpConnection::outgoing_queue_) and the messages waiting to *)
(* be persisted (AsyncMsgWriter::queue_).                                  *)
(*                                                                         *)
(* A node stands for the element it carries.  A node is never allocated    *)
(* twice here; the consumer's `delete head` puts it in `freed`, and a      *)
(* thread that dereferences a freed node goes to "undefined", where the    *)
(* model stops following it.  linked and delivered are history variables.  *)
(***************************************************************************)
EXTENDS Naturals, Sequences, FiniteSets

CONSTANTS
    Producers,   \* threads that call enqueue
    Nodes,       \* every node ever allocated (bounds the number of enqueues)
    Dummy,       \* the node the constructor allocates
    Null         \* nullptr

ASSUME QueueAssumption ==
    /\ Dummy \in Nodes
    /\ Null \notin Nodes

VARIABLES
    head_, tail_,   \* the two atomic pointers
    next,           \* next[n], the link of node n
    allocated,      \* nodes that have been constructed
    freed,          \* nodes the consumer has deleted
    pc,             \* pc[p]: where producer p is in enqueue
    new_node, old_tail, next_seen,   \* the locals of enqueue, per producer
    cpc, chead, cnext,               \* the consumer's pc and its locals
    linked,         \* nodes in the order the CAS on next linked them
    delivered       \* elements dequeue has returned

producerVars == <<pc, new_node, old_tail, next_seen>>
consumerVars == <<cpc, chead, cnext>>
vars == <<head_, tail_, next, allocated, freed, producerVars, consumerVars,
          linked, delivered>>

Init ==
    /\ head_ = Dummy
    /\ tail_ = Dummy
    /\ next = [n \in Nodes |-> Null]
    /\ allocated = {Dummy}
    /\ freed = {}
    /\ pc = [p \in Producers |-> "idle"]
    /\ new_node = [p \in Producers |-> Dummy]
    /\ old_tail = [p \in Producers |-> Dummy]
    /\ next_seen = [p \in Producers |-> Null]
    /\ cpc = "idle"
    /\ chead = Dummy
    /\ cnext = Null
    /\ linked = <<Dummy>>
    /\ delivered = <<>>

Goto(p, label) == pc' = [pc EXCEPT ![p] = label]

\* A load through old_tail once the consumer has deleted that node.
DereferencesFreed(p) ==
    /\ pc[p] \in {"load_next", "cas_next"}
    /\ old_tail[p] \in freed
    /\ Goto(p, "undefined")
    /\ UNCHANGED <<head_, tail_, next, allocated, freed, new_node, old_tail,
                   next_seen, consumerVars, linked, delivered>>

\* enqueue(val): allocate the node that will carry val.
Allocate(p) ==
    /\ pc[p] = "idle"
    /\ \E n \in Nodes \ allocated :
        /\ allocated' = allocated \cup {n}
        /\ new_node' = [new_node EXCEPT ![p] = n]
    /\ Goto(p, "load_tail")
    /\ UNCHANGED <<head_, tail_, next, freed, old_tail, next_seen,
                   consumerVars, linked, delivered>>

LoadTail(p) ==
    /\ pc[p] = "load_tail"
    /\ old_tail' = [old_tail EXCEPT ![p] = tail_]
    /\ Goto(p, "load_next")
    /\ UNCHANGED <<head_, tail_, next, allocated, freed, new_node, next_seen,
                   consumerVars, linked, delivered>>

LoadNext(p) ==
    /\ pc[p] = "load_next"
    /\ old_tail[p] \notin freed
    /\ next_seen' = [next_seen EXCEPT ![p] = next[old_tail[p]]]
    /\ Goto(p, "recheck")
    /\ UNCHANGED <<head_, tail_, next, allocated, freed, new_node, old_tail,
                   consumerVars, linked, delivered>>

\* The second load of tail_ and the branch on what LoadNext saw.
Recheck(p) ==
    /\ pc[p] = "recheck"
    /\ \/ old_tail[p] # tail_ /\ Goto(p, "load_tail")
       \/ old_tail[p] = tail_ /\ next_seen[p] = Null /\ Goto(p, "cas_next")
       \/ old_tail[p] = tail_ /\ next_seen[p] # Null /\ Goto(p, "help")
    /\ UNCHANGED <<head_, tail_, next, allocated, freed, new_node, old_tail,
                   next_seen, consumerVars, linked, delivered>>

\* A plausible bug: the link is stored, not compared and exchanged.
StoreNext(p) ==
    /\ pc[p] = "cas_next"
    /\ old_tail[p] \notin freed
    /\ next' = [next EXCEPT ![old_tail[p]] = new_node[p]]
    /\ linked' = Append(linked, new_node[p])
    /\ Goto(p, "cas_tail")
    /\ UNCHANGED <<head_, tail_, allocated, freed, new_node, old_tail,
                   next_seen, consumerVars, delivered>>

\* compare_exchange_weak on old_tail->next succeeds: the element is in the queue.
CasNext(p) ==
    /\ pc[p] = "cas_next"
    /\ old_tail[p] \notin freed
    /\ next[old_tail[p]] = Null
    /\ next' = [next EXCEPT ![old_tail[p]] = new_node[p]]
    /\ linked' = Append(linked, new_node[p])
    /\ Goto(p, "cas_tail")
    /\ UNCHANGED <<head_, tail_, allocated, freed, new_node, old_tail,
                   next_seen, consumerVars, delivered>>

\* It fails because another producer linked first, or spuriously: start over.
CasNextFails(p) ==
    /\ pc[p] = "cas_next"
    /\ old_tail[p] \notin freed
    /\ Goto(p, "load_tail")
    /\ UNCHANGED <<head_, tail_, next, allocated, freed, new_node, old_tail,
                   next_seen, consumerVars, linked, delivered>>

\* compare_exchange_strong on tail_, whose result enqueue ignores; then return.
CasTail(p) ==
    /\ pc[p] = "cas_tail"
    /\ tail_' = IF tail_ = old_tail[p] THEN new_node[p] ELSE tail_
    /\ Goto(p, "idle")
    /\ UNCHANGED <<head_, next, allocated, freed, new_node, old_tail,
                   next_seen, consumerVars, linked, delivered>>

\* Help a producer that has linked its node and not yet moved tail_.
HelpTail(p) ==
    /\ pc[p] = "help"
    /\ tail_' = IF tail_ = old_tail[p] THEN next_seen[p] ELSE tail_
    /\ Goto(p, "load_tail")
    /\ UNCHANGED <<head_, next, allocated, freed, new_node, old_tail,
                   next_seen, consumerVars, linked, delivered>>

\* dequeue() loads head_ and its link; a null link is the early return nullopt,
\* which changes nothing.
DequeueLoad ==
    /\ cpc = "idle"
    /\ next[head_] # Null
    /\ chead' = head_
    /\ cnext' = next[head_]
    /\ cpc' = "take"
    /\ UNCHANGED <<head_, tail_, next, allocated, freed, producerVars,
                   linked, delivered>>

\* A plausible bug: head_ jumps to tail_, past elements nobody has taken.
DequeueTakeSkips ==
    /\ cpc = "take"
    /\ delivered' = Append(delivered, cnext)
    /\ head_' = tail_
    /\ cpc' = "delete"
    /\ UNCHANGED <<tail_, next, allocated, freed, producerVars, chead, cnext, linked>>

\* The element is moved out and head_ advances (no producer reads head_).
DequeueTake ==
    /\ cpc = "take"
    /\ delivered' = Append(delivered, cnext)
    /\ head_' = cnext
    /\ cpc' = "delete"
    /\ UNCHANGED <<tail_, next, allocated, freed, producerVars, chead, cnext, linked>>

\* A plausible bug: dequeue deletes the node it has just made the new head.
DeleteNewHead ==
    /\ cpc = "delete"
    /\ freed' = freed \cup {cnext}
    /\ cpc' = "idle"
    /\ UNCHANGED <<head_, tail_, next, allocated, producerVars, chead, cnext,
                   linked, delivered>>

DequeueDelete ==
    /\ cpc = "delete"
    /\ freed' = freed \cup {chead}
    /\ cpc' = "idle"
    /\ UNCHANGED <<head_, tail_, next, allocated, producerVars, chead, cnext,
                   linked, delivered>>

Enqueue(p) ==
    \/ Allocate(p) \/ LoadTail(p) \/ LoadNext(p) \/ Recheck(p) \/ CasNext(p)
    \/ CasNextFails(p) \/ CasTail(p) \/ HelpTail(p) \/ DereferencesFreed(p)

Dequeue == DequeueLoad \/ DequeueTake \/ DequeueDelete

Next == (\E p \in Producers : Enqueue(p)) \/ Dequeue

Spec == Init /\ [][Next]_vars

\* The consumer polls for ever (AsyncMsgWriter::WorkerLoop), a producer that is
\* inside enqueue is scheduled, and a weak CAS does not fail spuriously for ever.
Fairness ==
    /\ WF_vars(Dequeue)
    /\ \A p \in Producers :
        /\ WF_vars(LoadTail(p) \/ LoadNext(p) \/ Recheck(p) \/ CasTail(p) \/ HelpTail(p))
        /\ SF_vars(CasNext(p))

FairSpec == Spec /\ Fairness

----------------------------------------------------------------------------
\* The members of MPSCQueue and the locals of enqueue and dequeue have their types.
TypeOK ==
    /\ head_ \in Nodes /\ tail_ \in Nodes
    /\ next \in [Nodes -> Nodes \cup {Null}]
    /\ allocated \subseteq Nodes /\ freed \subseteq Nodes
    /\ pc \in [Producers -> {"idle", "load_tail", "load_next", "recheck",
                             "cas_next", "cas_tail", "help", "undefined"}]
    /\ new_node \in [Producers -> Nodes]
    /\ old_tail \in [Producers -> Nodes]
    /\ next_seen \in [Producers -> Nodes \cup {Null}]
    /\ cpc \in {"idle", "take", "delete"}
    /\ chead \in Nodes
    /\ cnext \in Nodes \cup {Null}
    /\ linked \in Seq(Nodes)
    /\ delivered \in Seq(Nodes)

\* dequeue returns the elements once each and in the order in which enqueue's CAS
\* linked them, whatever the producers are doing.
DeliveredInLinkOrder ==
    /\ Len(delivered) < Len(linked)
    /\ \A i \in 1..Len(delivered) : delivered[i] = linked[i + 1]
    /\ \A i, j \in 1..Len(linked) : linked[i] = linked[j] => i = j

\* tail_ points to the last node or to the one before it: a producer is at most
\* one hop from the place where it must link, which is what bounds the retries.
TailLagsByAtMostOne ==
    LET last == linked[Len(linked)] IN tail_ = last \/ next[tail_] = last

\* The producers that have called enqueue.
Callers == { p \in Producers : new_node[p] # Dummy }

\* As long as one producer only has called enqueue, no thread follows a pointer to a
\* node that dequeue has already deleted.  With a second one the loads through
\* old_tail race with the delete in dequeue.
NoReclaimedAccess ==
    (\A p, q \in Callers : p = q) =>
        /\ head_ \notin freed
        /\ \A p \in Producers : pc[p] # "undefined"

\* Every element that was linked is eventually dequeued.
LinkedIsDelivered ==
    \A n \in Nodes \ {Dummy} :
        n \in { linked[i] : i \in 1..Len(linked) }
            ~> n \in { delivered[i] : i \in 1..Len(delivered) }

----------------------------------------------------------------------------
\* The elements a walk along the links from head_ finds.
Contents ==
    LET walk[n \in Nodes] ==
            IF next[n] = Null THEN <<>> ELSE <<next[n]>> \o walk[next[n]]
    IN  walk[head_]

Fifo == INSTANCE FifoQueue WITH
    Values <- Nodes,
    queue  <- Contents,
    out    <- delivered,
    arg    <- new_node,
    call   <- [p \in Producers |-> CASE pc[p] = "idle" -> "none"
                                     [] pc[p] = "cas_tail" -> "done"
                                     [] OTHER -> "pending"]

\* The linked nodes implement FifoQueue: enqueue takes effect exactly once, at the
\* CAS on next, between its call and its return, and dequeue removes the oldest.
ImplementsFifo == Fifo!Spec
=============================================================================
