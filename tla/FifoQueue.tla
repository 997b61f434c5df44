----------------------------- MODULE FifoQueue -----------------------------
(***************************************************************************)
(* What a queue shared by several producers promises: an enqueue takes     *)
(* effect exactly once, atomically, between its call and its return, and   *)
(* elements come out once each, in the order in which they went in.        *)
(***************************************************************************)
EXTENDS Sequences

CONSTANTS Producers, Values

VARIABLES
    queue,    \* the elements in the queue, oldest first
    out,      \* everything dequeued so far
    call,     \* call[p]: "none", "pending" (called), "done" (effect taken)
    arg       \* arg[p]: the element of p's current or last call

vars == <<queue, out, call, arg>>

Init ==
    /\ queue = <<>>
    /\ out = <<>>
    /\ call = [p \in Producers |-> "none"]
    /\ arg \in [Producers -> Values]

Call(p) ==
    /\ call[p] = "none"
    /\ call' = [call EXCEPT ![p] = "pending"]
    /\ \E v \in Values : arg' = [arg EXCEPT ![p] = v]
    /\ UNCHANGED <<queue, out>>

Enqueue(p) ==
    /\ call[p] = "pending"
    /\ call' = [call EXCEPT ![p] = "done"]
    /\ queue' = Append(queue, arg[p])
    /\ UNCHANGED <<out, arg>>

Return(p) ==
    /\ call[p] = "done"
    /\ call' = [call EXCEPT ![p] = "none"]
    /\ UNCHANGED <<queue, out, arg>>

Dequeue ==
    /\ queue # <<>>
    /\ out' = Append(out, Head(queue))
    /\ queue' = Tail(queue)
    /\ UNCHANGED <<call, arg>>

Next ==
    \/ \E p \in Producers : Call(p) \/ Enqueue(p) \/ Return(p)
    \/ Dequeue

Spec == Init /\ [][Next]_vars
=============================================================================
