----------------------------- MODULE HeapTimer -----------------------------
(***************************************************************************)
(* The timer of server/src/timer/heaptimer.cpp and the way the event loop  *)
(* (Webserver::Start, AddClient_, ExtendTime_) drives it.  heap_ is a      *)
(* binary heap of (id, expires); ref_[id] is the position of id's node.    *)
(* Positions start at 1 here and 0 is the code's -1.  Times are integers,  *)
(* and the clock advances between any two steps.  An access outside heap_, *)
(* or a failed assert, sets crashed: the program is not followed further.  *)
(*                                                                         *)
(* SiftUp_ at the root compares with the memory just before the array, the *)
(* allocator's block size, which is less than any time stamp: it stops.    *)
(***************************************************************************)
EXTENDS Integers, Sequences

CONSTANTS
    Ids,       \* descriptors that get timers
    Timeout,   \* timeout_ms_
    MaxTime    \* the clock stops here

ASSUME HeapTimerAssumption ==
    /\ Timeout \in Nat \ {0} /\ MaxTime \in Nat

VARIABLES
    t,         \* [heap |-> heap_, ref |-> ref_]
    now,       \* Clock::now()
    open,      \* descriptors of open connections
    phase,     \* the event loop: "tick" (in Tick), "computed" the wait, "waiting"
    until,     \* when epoll_wait gives up, or Forever
    ticked,    \* when the last Tick left its loop
    crashed

timer_vars == <<t, now, open, phase, until, ticked, crashed>>

Forever == -1

TimerInit ==
    /\ t = [heap |-> <<>>, ref |-> [id \in Ids |-> 0]]
    /\ now = 0 /\ open = {} /\ phase = "tick" /\ until = Forever
    /\ ticked = 0 /\ crashed = FALSE

----------------------------------------------------------------------------
SwapNode(h, i, j) ==
    [heap |-> [h.heap EXCEPT ![i] = h.heap[j], ![j] = h.heap[i]],
     ref  |-> [h.ref EXCEPT ![h.heap[j].id] = i, ![h.heap[i].id] = j]]

\* One round of the loop in SiftUp_, of the node at s.at.
UpRound(s) ==
    LET p == s.at \div 2 IN
    IF s.at > 1 /\ s.timer.heap[p].expires > s.timer.heap[s.at].expires
    THEN [timer |-> SwapNode(s.timer, s.at, p), at |-> p] ELSE s

\* The loop: a round that moves nothing is its break, and i rounds are enough.
SiftUp(h, i) ==
    LET round[k \in 0 .. i] ==
            IF k = 0 THEN [timer |-> h, at |-> i] ELSE UpRound(round[k - 1])
    IN  round[i].timer

\* A plausible bug: the left child is always taken.
LeftChild(h, i, n) == 2 * i

\* The smaller child of i among the first n nodes.
SmallerChild(h, i, n) ==
    LET c == 2 * i IN
    IF c + 1 <= n /\ h.heap[c + 1].expires < h.heap[c].expires THEN c + 1 ELSE c

\* One round of the loop in SiftDown_.
DownRound(s, n) ==
    LET c == SmallerChild(s.timer, s.at, n) IN
    IF 2 * s.at <= n /\ ~(s.timer.heap[s.at].expires < s.timer.heap[c].expires)
    THEN [timer |-> SwapNode(s.timer, s.at, c), at |-> c] ELSE s

\* SiftDown_: the timer, and where the node that was at i ends.
SiftDown(h, i, n) ==
    LET round[k \in 0 .. n] ==
            IF k = 0 THEN [timer |-> h, at |-> i] ELSE DownRound(round[k - 1], n)
    IN  round[n]

\* SiftDown_, and SiftUp_ when it moved nothing.
Sift(h, i, n) ==
    LET down == SiftDown(h, i, n) IN IF down.at > i THEN down.timer ELSE SiftUp(h, i)

\* Del_: the node at index goes to the end and is dropped.  The entry of ref_ that
\* is cleared is that of the node which now is at index.
Del(h, index) ==
    LET n == Len(h.heap)
        moved == IF index < n THEN Sift(SwapNode(h, index, n), index, n - 1) ELSE h
    IN  [heap |-> SubSeq(moved.heap, 1, n - 1),
         ref  |-> [moved.ref EXCEPT ![moved.heap[index].id] = 0]]

\* Add: a new node, or a new time for the node ref_ says is id's.
Add(h, id, expires) ==
    IF h.ref[id] # 0
    THEN Sift([h EXCEPT !.heap[h.ref[id]].expires = expires], h.ref[id], Len(h.heap))
    ELSE SiftUp([heap |-> Append(h.heap, [id |-> id, expires |-> expires]),
                 ref  |-> [h.ref EXCEPT ![id] = Len(h.heap) + 1]], Len(h.heap) + 1)

\* Adjust only ever postpones, so it only sifts down.
Adjust(h, id, expires) ==
    SiftDown([h EXCEPT !.heap[h.ref[id]].expires = expires], h.ref[id], Len(h.heap)).timer

----------------------------------------------------------------------------
\* One round of the loop in Tick: the callback closes the connection, then Pop.
TickPop ==
    /\ phase = "tick" /\ ~crashed
    /\ t.heap # <<>> /\ t.heap[1].expires <= now
    /\ open' = open \ {t.heap[1].id}
    /\ t' = Del(t, 1)
    /\ UNCHANGED <<now, phase, until, ticked, crashed>>

\* A plausible bug: Tick gives up after one node.
TickDoneEarly ==
    /\ phase = "tick" /\ ~crashed
    /\ ticked' = now
    /\ phase' = "computed"
    /\ UNCHANGED <<t, now, open, until, crashed>>

TickDone ==
    /\ phase = "tick" /\ ~crashed
    /\ ~(t.heap # <<>> /\ t.heap[1].expires <= now)
    /\ ticked' = now
    /\ phase' = "computed"
    /\ UNCHANGED <<t, now, open, until, crashed>>

\* The rest of GetNextTick: the clock is read again.  res is unsigned, so a negative
\* difference is not replaced by 0, and epoll_wait takes it for no timeout.
NextTick ==
    /\ phase = "computed" /\ ~crashed
    /\ until' = IF t.heap = <<>> \/ t.heap[1].expires < now
                THEN Forever ELSE t.heap[1].expires
    /\ phase' = "waiting"
    /\ UNCHANGED <<t, now, open, ticked, crashed>>

\* epoll_wait returns at its timeout.
WaitEnds ==
    /\ phase = "waiting" /\ ~crashed
    /\ until # Forever /\ now >= until
    /\ phase' = "tick"
    /\ UNCHANGED <<t, now, open, until, ticked, crashed>>

\* A new connection: AddClient_.
Accept(id) ==
    /\ phase = "waiting" /\ ~crashed
    /\ id \notin open
    /\ open' = open \cup {id}
    /\ \/ /\ t.ref[id] > Len(t.heap)
          /\ crashed' = TRUE
          /\ UNCHANGED t
       \/ /\ t.ref[id] <= Len(t.heap)
          /\ t' = Add(t, id, now + Timeout)
          /\ UNCHANGED crashed
    /\ phase' = "tick"
    /\ UNCHANGED <<now, until, ticked>>

\* A request or heartbeat arrives: ExtendTime_, with the assert of Adjust.
Extend(id) ==
    /\ phase = "waiting" /\ ~crashed
    /\ id \in open
    /\ \/ /\ t.ref[id] \notin 1..Len(t.heap)
          /\ crashed' = TRUE
          /\ UNCHANGED t
       \/ /\ t.ref[id] \in 1..Len(t.heap)
          /\ t' = Adjust(t, id, now + Timeout)
          /\ UNCHANGED crashed
    /\ phase' = "tick"
    /\ UNCHANGED <<now, open, until, ticked>>

\* A client disconnects: CloseConn_ leaves its timer in the heap.
Disconnect(id) ==
    /\ phase = "waiting" /\ ~crashed
    /\ id \in open
    /\ open' = open \ {id}
    /\ phase' = "tick"
    /\ UNCHANGED <<t, now, until, ticked, crashed>>

TimePasses ==
    /\ now < MaxTime
    /\ now' = now + 1
    /\ UNCHANGED <<t, open, phase, until, ticked, crashed>>

TimerNext ==
    \/ TickPop \/ TickDone \/ NextTick \/ WaitEnds \/ TimePasses
    \/ \E id \in Ids : Accept(id) \/ Extend(id) \/ Disconnect(id)

TimerSpec == TimerInit /\ [][TimerNext]_timer_vars

----------------------------------------------------------------------------
\* No node expires before its parent, after any sequence of Add, Adjust and Pop,
\* even when ref_ leads Add or Adjust to another id's node.
HeapOrdered ==
    \A i \in 2..Len(t.heap) : t.heap[i \div 2].expires <= t.heap[i].expires

\* epoll_wait gives up by the earliest deadline: Tick left no node that had expired,
\* and the loop waits past a deadline, then without end, only if the clock passed it
\* between Tick's last look at the clock and the second reading in GetNextTick.
WaitEndsInTime ==
    phase = "waiting" => \A i \in 1..Len(t.heap) :
        /\ t.heap[i].expires > ticked
        /\ \/ until # Forever /\ until <= t.heap[i].expires
           \/ until = Forever /\ \E j \in 1..Len(t.heap) : t.heap[j].expires < now

\* The assert of Adjust holds for every open connection (ref_ has its timer), and
\* the position in ref_ is inside heap_ for Add as well.
TimerIsFound == ~crashed

=============================================================================
