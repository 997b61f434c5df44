----------------------------- MODULE LogProofs -----------------------------
(***************************************************************************)
(* Proofs about Log, for any number of threads, lines and days and any     *)
(* capacity: a line that write took is in one place, close drops no more   *)
(* lines than the deque may hold, and a thread that logs alone finds the   *)
(* right file open.                                                        *)
(*                                                                         *)
(* That two lines are never the same needs that every line found anywhere  *)
(* was numbered by write (Numbered): then the next one is new.             *)
(*                                                                         *)
(* Which file is open needs what a thread inside write has read and still  *)
(* has to do (Rotation): the count reached a multiple of MAX_LINES and the *)
(* new file has its number, or the day changed and the count is 0.         *)
(***************************************************************************)
EXTENDS Log, FiniteSetTheorems, TLAPS

\* A leaf is tried with Zenon first: most need no arithmetic.
USE ZenonT(5), SMTT(30)

\* The lines write has taken.
Taken == {l \in Threads \X Nat : l[2] \in 1 .. lines[l[1]]}

\* Everything that is in the deque, with the write thread, in a file or dropped.
Queued == Range(deque)
Held == Range(str)

Numbered == Queued \cup Held \cup written \cup cleared \subseteq Taken

\* Nothing that was taken is lost.
NoneLost == Taken \subseteq Queued \cup Held \cup written \cup cleared

\* Nothing is in two places, or twice in one.
Apart ==
    /\ \A f, g \in files : f.line = g.line => f = g
    /\ IsInjective(deque)
    /\ Queued \cap Held = {}
    /\ (Queued \cup Held) \cap (written \cup cleared) = {}

FewCleared == IsFiniteSet(cleared) /\ Cardinality(cleared) <= Capacity

\* The inductive invariant.
IInv == TypeOK /\ Numbered /\ NoneLost /\ Apart /\ FewCleared

----------------------------------------------------------------------------
(* Sequences as sets.                                                      *)

LEMMA Bounds == Capacity \in Nat /\ Capacity >= 1 /\ MAX_LINES \in Nat
BY LogAssumption

LEMMA NoLine == Range(<<>>) = {} /\ IsInjective(<<>>)
BY DEF Range, IsInjective

LEMMA OneLine ==
    ASSUME NEW l
    PROVE  Range(<<l>>) = {l} /\ <<l>> # <<>> /\ <<l>>[1] = l
BY DEF Range

LEMMA AppendFacts ==
    ASSUME NEW S, NEW s \in Seq(S), NEW l \in S
    PROVE  /\ Append(s, l) \in Seq(S) /\ Len(Append(s, l)) = Len(s) + 1 /\ Len(s) \in Nat
           /\ Range(Append(s, l)) = Range(s) \cup {l}
           /\ IsInjective(s) /\ l \notin Range(s) => IsInjective(Append(s, l))
<1>1. /\ Append(s, l) \in Seq(S) /\ Len(Append(s, l)) = Len(s) + 1 /\ Len(s) \in Nat
      /\ DOMAIN Append(s, l) = 1 .. Len(s) + 1 /\ DOMAIN s = 1 .. Len(s)
      /\ Append(s, l)[Len(s) + 1] = l
      /\ \A i \in 1 .. Len(s) : Append(s, l)[i] = s[i]
  OBVIOUS
<1>2. Range(Append(s, l)) = Range(s) \cup {l}
  BY <1>1 DEF Range
<1>3. IsInjective(s) /\ l \notin Range(s) => IsInjective(Append(s, l))
  BY <1>1 DEF Range, IsInjective
<1> QED BY <1>1, <1>2, <1>3

LEMMA HeadTailFacts ==
    ASSUME NEW S, NEW s \in Seq(S), s # <<>>
    PROVE  /\ Head(s) \in S /\ Tail(s) \in Seq(S) /\ Len(Tail(s)) <= Len(s) /\ Len(s) \in Nat
           /\ Len(Tail(s)) \in Nat
           /\ Range(s) = Range(Tail(s)) \cup {Head(s)}
           /\ IsInjective(s) => IsInjective(Tail(s)) /\ Head(s) \notin Range(Tail(s))
<1>1. /\ Head(s) \in S /\ Tail(s) \in Seq(S) /\ Len(s) \in Nat /\ Len(s) >= 1
      /\ Len(Tail(s)) = Len(s) - 1 /\ Head(s) = s[1]
      /\ DOMAIN Tail(s) = 1 .. Len(s) - 1 /\ DOMAIN s = 1 .. Len(s)
      /\ \A i \in 1 .. Len(s) - 1 : Tail(s)[i] = s[i + 1]
  OBVIOUS
<1>2. Range(s) = Range(Tail(s)) \cup {Head(s)}
  <2>1. ASSUME NEW i \in 1 .. Len(s) PROVE s[i] \in Range(Tail(s)) \cup {Head(s)}
    <3>1. CASE i = 1
      BY <1>1, <3>1
    <3>2. CASE i # 1
      <4>1. i - 1 \in 1 .. Len(s) - 1 /\ Tail(s)[i - 1] = s[i]
        BY <1>1, <3>2
      <4> QED BY <1>1, <4>1 DEF Range
    <3> QED BY <3>1, <3>2
  <2>2. ASSUME NEW i \in 1 .. Len(s) - 1 PROVE Tail(s)[i] \in Range(s)
    <3>1. i + 1 \in 1 .. Len(s) /\ Tail(s)[i] = s[i + 1]
      BY <1>1
    <3> QED BY <1>1, <3>1 DEF Range
  <2>3. Head(s) \in Range(s)
    BY <1>1 DEF Range
  <2>4. Range(s) \subseteq Range(Tail(s)) \cup {Head(s)}
    BY <1>1, <2>1 DEF Range
  <2>5. Range(Tail(s)) \subseteq Range(s)
    BY <1>1, <2>2 DEF Range
  <2> QED BY <2>3, <2>4, <2>5
<1>3. IsInjective(s) => IsInjective(Tail(s)) /\ Head(s) \notin Range(Tail(s))
  BY <1>1 DEF Range, IsInjective
<1> QED BY <1>1, <1>2, <1>3

\* A sequence has no more elements than positions.
LEMMA FewElements ==
    ASSUME NEW S, NEW s \in Seq(S)
    PROVE  IsFiniteSet(Range(s)) /\ Cardinality(Range(s)) <= Len(s)
<1>1. s \in [1 .. Len(s) -> Range(s)] /\ Len(s) \in Nat
  BY DEF Range
<1>2. s \in Surjection(1 .. Len(s), Range(s))
  BY <1>1 DEF Range, Surjection
<1>3. IsFiniteSet(1 .. Len(s)) /\ Cardinality(1 .. Len(s)) = Len(s)
  <2>1. 1 \in Int /\ Len(s) \in Int
    BY <1>1
  <2>2. /\ IsFiniteSet(1 .. Len(s))
        /\ Cardinality(1 .. Len(s)) = IF 1 > Len(s) THEN 0 ELSE Len(s) - 1 + 1
    BY <2>1, FS_Interval
  <2> QED BY <1>1, <2>2
<1> QED BY <1>2, <1>3, FS_Surjection

----------------------------------------------------------------------------
LEMMA InitIInv == Init => IInv
<1> SUFFICES ASSUME Init PROVE IInv
  OBVIOUS
<1>1. TypeOK
  BY Bounds DEF Init, TypeOK
<1>2. /\ Queued = {} /\ Held = {} /\ written = {} /\ cleared = {} /\ files = {} /\ deque = <<>>
  BY NoLine DEF Init, Queued, Held, written
<1>3. Taken = {}
  BY DEF Init, Taken
<1>4. FewCleared
  BY <1>2, FS_EmptySet, Bounds DEF FewCleared
<1>5. Numbered /\ NoneLost
  BY <1>2, <1>3 DEF Numbered, NoneLost
<1>6. Apart
  BY <1>2, NoLine DEF Apart
<1> QED BY <1>1, <1>4, <1>5, <1>6 DEF IInv

\* What a step that moves no line may do.
LEMMA StillKeeps ==
    ASSUME IInv, UNCHANGED <<lines, deque, str, files, cleared>>,
           consumer' \in {"pop", "waiting", "woken", "put", "done"},
           (consumer' = "put") <=> (consumer = "put"),
           main' \in {"running", "closed", "joining", "destroyed"},
           main' = "running" => main = "running",
           line_count_' \in Nat, pc' \in [Threads -> {"check", "name", "open", "append"}]
    PROVE  IInv'
<1>1. TypeOK'
  BY DEF IInv, TypeOK
<1>2. Numbered' /\ NoneLost' /\ Apart' /\ FewCleared'
  BY DEF IInv, Numbered, NoneLost, Apart, FewCleared, Taken, Queued, Held, written
<1> QED BY <1>1, <1>2 DEF IInv

\* The lines of some files, and of one more line written to one of them.
LEMMA FileFacts ==
    ASSUME NEW F, NEW e, NEW G, G = F \cup {e}
    PROVE  /\ {f.line : f \in G} = {f.line : f \in F} \cup {e.line}
           /\ e.line \notin {f.line : f \in F} /\ (\A f, g \in F : f.line = g.line => f = g)
                 => \A f, g \in G : f.line = g.line => f = g
OBVIOUS

\* The line write numbers next is found nowhere.
LEMMA NextLine ==
    ASSUME TypeOK, NEW t \in Threads, lines' = [lines EXCEPT ![t] = @ + 1]
    PROVE  LET line == <<t, lines[t] + 1>>
           IN  line \notin Taken /\ line \in Threads \X Nat /\ Taken' = Taken \cup {line}
<1> DEFINE line == <<t, lines[t] + 1>>
<1>1. lines \in [Threads -> Nat] /\ lines[t] \in Nat /\ line[1] = t /\ line[2] = lines[t] + 1
  BY DEF TypeOK
<1>2. line \notin Taken /\ line \in Threads \X Nat
  BY <1>1 DEF Taken
<1>3. ASSUME NEW l \in Threads \X Nat PROVE l \in Taken' <=> l \in Taken \/ l = line
  <2>1. PICK u \in Threads, k \in Nat : l = <<u, k>> /\ l[1] = u /\ l[2] = k
    OBVIOUS
  <2>2. lines'[u] = IF u = t THEN lines[t] + 1 ELSE lines[u]
    BY <1>1
  <2>3. l \in Taken' <=> k \in 1 .. lines'[u]
    BY <2>1 DEF Taken
  <2>4. l \in Taken <=> k \in 1 .. lines[u]
    BY <2>1 DEF Taken
  <2>5. l = line <=> u = t /\ k = lines[t] + 1
    BY <2>1
  <2> QED BY <1>1, <2>2, <2>3, <2>4, <2>5
<1>4. Taken \subseteq Threads \X Nat /\ Taken' \subseteq Threads \X Nat
  BY DEF Taken
<1> QED BY <1>2, <1>3, <1>4

LEMMA AppendLineKeeps ==
    ASSUME IInv, NEW t \in Threads, AppendLine(t)
    PROVE  IInv'
<1> DEFINE line == <<t, lines[t] + 1>>
<1>0. TypeOK /\ Numbered /\ NoneLost /\ Apart /\ FewCleared
  BY DEF IInv
<1>1. /\ line_count_' = line_count_ + 1 /\ lines' = [lines EXCEPT ![t] = @ + 1]
      /\ pc' = [pc EXCEPT ![t] = "check"] /\ str' = str /\ main' = main /\ cleared' = cleared
      /\ IF HasRoom THEN PushBack(line) ELSE PutDirectly(line)
  BY DEF AppendLine
<1>2. line \notin Taken /\ line \in Threads \X Nat /\ Taken' = Taken \cup {line}
  BY <1>0, <1>1, NextLine
<1>3. line_count_' \in Nat /\ lines' \in [Threads -> Nat] /\ deque \in Seq(Threads \X Nat)
      /\ pc' \in [Threads -> {"check", "name", "open", "append"}] /\ Held' = Held
  BY <1>0, <1>1 DEF TypeOK, Held
<1> HIDE DEF line
<1>4. CASE HasRoom
  <2>1. /\ deque' = Append(deque, line) /\ files' = files /\ consumer' = Notified
        /\ Len(deque) < Capacity
    BY <1>1, <1>4 DEF PushBack, HasRoom
  <2>2. /\ deque' \in Seq(Threads \X Nat) /\ Len(deque') = Len(deque) + 1 /\ Len(deque) \in Nat
        /\ Queued' = Queued \cup {line} /\ written' = written
        /\ IsInjective(deque) /\ line \notin Queued => IsInjective(deque')
    BY <1>2, <1>3, <2>1, AppendFacts DEF Queued, written
  <2>3. TypeOK'
    BY <1>0, <1>1, <1>3, <2>1, <2>2, Bounds DEF TypeOK, Notified
  <2>4. Numbered' /\ NoneLost' /\ FewCleared'
    BY <1>0, <1>1, <1>2, <1>3, <2>2 DEF Numbered, NoneLost, FewCleared
  <2>5. Apart'
    BY <1>0, <1>1, <1>2, <1>3, <2>1, <2>2 DEF Apart, Numbered
  <2> QED BY <2>3, <2>4, <2>5 DEF IInv
<1>5. CASE ~HasRoom
  <2>1. /\ files' = files \cup {[name |-> fp_, line |-> line]}
        /\ deque' = deque /\ consumer' = consumer
    BY <1>1, <1>5 DEF PutDirectly
  <2>2. /\ written' = written \cup {line} /\ Queued' = Queued
        /\ line \notin written /\ (\A f, g \in files : f.line = g.line => f = g)
               => \A f, g \in files' : f.line = g.line => f = g
    <3>1. Queued' = Queued
      BY <2>1 DEF Queued
    <3>2. written = {f.line : f \in files} /\ written' = {f.line : f \in files'}
      BY DEF written
    <3> DEFINE e == [name |-> fp_, line |-> line]
    <3>3. e.line = line /\ files' = files \cup {e}
      BY <2>1
    <3> HIDE DEF e
    <3> QED BY ONLY <3>1, <3>2, <3>3, FileFacts
  <2>3. TypeOK'
    BY <1>0, <1>1, <1>3, <2>1 DEF TypeOK
  <2>4. Numbered' /\ NoneLost' /\ FewCleared'
    BY <1>0, <1>1, <1>2, <1>3, <2>2 DEF Numbered, NoneLost, FewCleared
  <2>5. Apart'
    BY <1>0, <1>1, <1>2, <1>3, <2>1, <2>2 DEF Apart, Numbered
  <2> QED BY <2>3, <2>4, <2>5 DEF IInv
<1> QED BY <1>4, <1>5

----------------------------------------------------------------------------
(* The write thread, and close.                                            *)

LEMMA TakeFrontKeeps ==
    ASSUME IInv, consumer \in {"pop", "woken"}, deque # <<>>, TakeFront("put"),
           UNCHANGED <<line_count_, lines, pc, main, files, cleared>>
    PROVE  IInv'
<1>0. TypeOK /\ Numbered /\ NoneLost /\ Apart /\ FewCleared
  BY DEF IInv
<1>1. str' = <<Head(deque)>> /\ deque' = Tail(deque) /\ consumer' = "put" /\ str = <<>>
      /\ deque \in Seq(Threads \X Nat)
  BY <1>0 DEF TakeFront, TypeOK
<1>2. /\ Head(deque) \in Threads \X Nat /\ deque' \in Seq(Threads \X Nat)
      /\ Len(deque') <= Len(deque) /\ Len(deque) \in Nat /\ Len(deque') \in Nat
      /\ Queued = Queued' \cup {Head(deque)}
      /\ IsInjective(deque) => IsInjective(deque') /\ Head(deque) \notin Queued'
  BY <1>1, HeadTailFacts DEF Queued
<1>3. Held = {} /\ Held' = {Head(deque)}
  BY <1>1, NoLine, OneLine DEF Held
<1>4. TypeOK'
  BY <1>0, <1>1, <1>2, Bounds DEF TypeOK
<1>5. Taken' = Taken /\ written' = written
  BY DEF Taken, written
<1>6. Numbered' /\ NoneLost' /\ FewCleared'
  BY <1>0, <1>2, <1>3, <1>5 DEF Numbered, NoneLost, FewCleared
<1>7. Apart'
  BY <1>0, <1>2, <1>3, <1>5 DEF Apart
<1> QED BY <1>4, <1>6, <1>7 DEF IInv

LEMMA PutKeeps ==
    ASSUME IInv, Put
    PROVE  IInv'
<1>0. TypeOK /\ Numbered /\ NoneLost /\ Apart /\ FewCleared
  BY DEF IInv
<1>1. PICK l \in Threads \X Nat : str = <<l>>
  BY <1>0 DEF Put, TypeOK
<1>2. /\ files' = files \cup {[name |-> fp_, line |-> l]} /\ consumer' = "pop" /\ str' = <<>>
      /\ deque' = deque /\ main' = main /\ cleared' = cleared /\ lines' = lines
      /\ line_count_' = line_count_ /\ pc' = pc
  BY <1>1, OneLine DEF Put, writers, state
<1>3. Held = {l} /\ Held' = {} /\ Queued' = Queued /\ Taken' = Taken
  BY <1>1, <1>2, NoLine, OneLine DEF Held, Queued, Taken
<1>4. /\ written' = written \cup {l}
      /\ l \notin written /\ (\A f, g \in files : f.line = g.line => f = g)
             => \A f, g \in files' : f.line = g.line => f = g
  <2>1. written = {f.line : f \in files} /\ written' = {f.line : f \in files'}
    BY DEF written
  <2> DEFINE e == [name |-> fp_, line |-> l]
  <2>2. e.line = l /\ files' = files \cup {e}
    BY <1>2
  <2> HIDE DEF e
  <2> QED BY ONLY <2>1, <2>2, FileFacts
<1>5. TypeOK'
  BY <1>0, <1>2 DEF TypeOK
<1>6. Numbered' /\ NoneLost' /\ FewCleared'
  BY <1>0, <1>2, <1>3, <1>4 DEF Numbered, NoneLost, FewCleared
<1>7. Apart'
  BY <1>0, <1>2, <1>3, <1>4 DEF Apart
<1> QED BY <1>5, <1>6, <1>7 DEF IInv

LEMMA CloseKeeps ==
    ASSUME IInv, Close
    PROVE  IInv'
<1>0. TypeOK /\ Numbered /\ NoneLost /\ Apart /\ FewCleared
  BY DEF IInv
<1>1. /\ cleared = {} /\ cleared' = Queued /\ deque' = <<>> /\ consumer' = Notified
      /\ main' = "closed" /\ str' = str /\ files' = files /\ lines' = lines
      /\ line_count_' = line_count_ /\ pc' = pc
  BY <1>0 DEF Close, TypeOK, Queued, writers, state
<1>2. Queued' = {} /\ Held' = Held /\ written' = written /\ Taken' = Taken
  BY <1>1, NoLine DEF Queued, Held, written, Taken
<1>3. TypeOK'
  BY <1>0, <1>1, Bounds DEF TypeOK, Notified
<1>4. FewCleared'
  <2>1. deque \in Seq(Threads \X Nat) /\ Len(deque) \in Nat /\ Len(deque) <= Capacity
    BY <1>0 DEF TypeOK
  <2>2. IsFiniteSet(Queued) /\ Cardinality(Queued) <= Len(deque)
    BY <2>1, FewElements DEF Queued
  <2>3. Cardinality(Queued) \in Nat
    BY <2>2, FS_CardinalityType
  <2> QED BY <1>1, <2>1, <2>2, <2>3, Bounds DEF FewCleared
<1>5. Numbered' /\ NoneLost'
  BY <1>0, <1>1, <1>2 DEF Numbered, NoneLost
<1>6. Apart'
  BY <1>0, <1>1, <1>2, NoLine DEF Apart
<1> QED BY <1>3, <1>4, <1>5, <1>6 DEF IInv

----------------------------------------------------------------------------
LEMMA NextIInv == IInv /\ [Next]_vars => IInv'
<1> SUFFICES ASSUME IInv, [Next]_vars PROVE IInv'
  OBVIOUS
<1>0. /\ line_count_ \in Nat /\ pc \in [Threads -> {"check", "name", "open", "append"}]
      /\ consumer \in {"pop", "waiting", "woken", "put", "done"}
      /\ main \in {"running", "closed", "joining", "destroyed"}
  BY DEF IInv, TypeOK
<1> USE DEF state, writers, thread
<1>1. ASSUME NEW t \in Threads, Check(t) \/ NameFile(t) \/ OpenFile(t) PROVE IInv'
  <2>1. /\ UNCHANGED <<lines, deque, str, files, cleared, main>> /\ line_count_' \in Nat
        /\ pc' \in [Threads -> {"check", "name", "open", "append"}]
        /\ consumer' \in {consumer, Notified}
    BY <1>0, <1>1 DEF Check, NameFile, OpenFile
  <2> QED BY <1>0, <2>1, StillKeeps DEF Notified
<1>2. ASSUME NEW t \in Threads, AppendLine(t) PROVE IInv'
  BY <1>2, AppendLineKeeps
<1>3. CASE Pop \/ PopAwake
  <2>1. /\ UNCHANGED <<line_count_, lines, pc, main, files, cleared>> /\ consumer \in {"pop", "woken"}
        /\ \/ consumer' \in {"waiting", "done"} /\ UNCHANGED <<str, deque>>
           \/ deque # <<>> /\ TakeFront("put")
    BY <1>3 DEF Pop, PopAwake, WaitOrTake
  <2> QED BY <1>0, <2>1, StillKeeps, TakeFrontKeeps
<1>4. CASE Put
  BY <1>4, PutKeeps
<1>5. CASE Close
  BY <1>5, CloseKeeps
<1>6. CASE SpuriousWakeup \/ Destructor \/ NewDay
  <2>1. /\ UNCHANGED <<line_count_, lines, pc, deque, str, files, cleared>>
        /\ consumer' \in {consumer, Notified} \/ (consumer = "waiting" /\ consumer' = "woken")
        /\ main' \in {main, "joining", "destroyed"}
    BY <1>6 DEF SpuriousWakeup, Destructor, FlushRest, StopFlushing, Join, NewDay
  <2> QED BY <1>0, <2>1, StillKeeps DEF Notified
<1>7. CASE UNCHANGED vars
  BY <1>0, <1>7, StillKeeps DEF vars
<1> QED BY <1>1, <1>2, <1>3, <1>4, <1>5, <1>6, <1>7 DEF Next, Write, WriteThread

\* The inductive invariant holds in every reachable state.
THEOREM IInvInvariant == Spec => []IInv
BY InitIInv, NextIInv, PTL DEF Spec

\* The deque never holds more than capacity_, and the write thread one line at most.
THEOREM TypeCorrect == Spec => []TypeOK
<1>1. IInv => TypeOK
  BY DEF IInv
<1> QED BY <1>1, IInvInvariant, PTL

\* Log::write loses no line and writes none twice, whichever thread puts it to the file;
\* close drops as many as the deque may hold.
THEOREM LinesAreInOnePlace == Spec => []LineInOnePlace
<1>1. IInv => LineInOnePlace
  <2> SUFFICES ASSUME IInv PROVE LineInOnePlace
    OBVIOUS
  <2>0. TypeOK /\ NoneLost /\ Apart /\ FewCleared
    BY DEF IInv
  <2>1. \A t \in Threads : \A k \in 1 .. lines[t] : <<t, k>> \in Taken
    BY <2>0 DEF Taken, TypeOK
  <2>2. IsInjective(deque \o str)
    <3>1. deque \in Seq(Threads \X Nat)
      BY <2>0 DEF TypeOK
    <3>2. CASE str = <<>>
      <4>1. deque \o str = deque
        BY <3>1, <3>2
      <4> QED BY <2>0, <4>1 DEF Apart
    <3>3. CASE consumer = "put"
      <4>1. PICK l \in Threads \X Nat : str = <<l>>
        BY <2>0, <3>3 DEF TypeOK
      <4>2. deque \o str = Append(deque, l)
        BY <3>1, <4>1
      <4>3. l \notin Range(deque)
        BY <2>0, <4>1, OneLine DEF Apart, Queued, Held
      <4> QED BY <2>0, <3>1, <4>2, <4>3, AppendFacts DEF Apart
    <3> QED BY <2>0, <3>2, <3>3 DEF TypeOK
  <2> QED BY <2>0, <2>1, <2>2 DEF LineInOnePlace, NoneLost, Apart, FewCleared, Queued, Held
<1> QED BY <1>1, IInvInvariant, PTL

----------------------------------------------------------------------------
(* The file that is open.                                                  *)

\* The thread is the only one that has ever entered write.
Alone(t) == \A s \in Threads \ {t} : pc[s] = "check" /\ lines[s] = 0

\* The number of the file for the n-th line of a day.
Part(n) == IF n <= MAX_LINES THEN Plain ELSE (n - 1) \div MAX_LINES

Settled ==
    \/ line_count_ = 0 /\ today_ = 0
    \/ line_count_ > 0 /\ fp_ = [day |-> today_, part |-> Part(line_count_)]

Full == line_count_ > 0 /\ line_count_ % MAX_LINES = 0

\* How far the thread is in opening the file for its next line.
Rotates(t) ==
    /\ pc[t] \in {"check", "name"} => Settled
    /\ pc[t] = "name" => seen[t] # 0 /\ (today_ # seen[t] \/ Full)
    /\ pc[t] = "open" =>
          \/ line_count_ = 0 /\ newFile[t] = [day |-> today_, part |-> Plain]
          \/ Full /\ newFile[t] = [day |-> today_, part |-> line_count_ \div MAX_LINES]
    /\ pc[t] = "append" => fp_ = [day |-> today_, part |-> Part(line_count_ + 1)]

Dates ==
    /\ day \in Nat \ {0} /\ today_ \in Nat /\ seen \in [Threads -> Nat]
    /\ DOMAIN newFile = Threads
    /\ line_count_ > 0 => \E t \in Threads : lines[t] > 0

Rotation == Dates /\ \A t \in Threads : Alone(t) => Rotates(t)

\* The file changes after each MAX_LINES lines.
LEMMA NextPart ==
    ASSUME NEW n \in Nat
    PROVE  /\ n > 0 /\ n % MAX_LINES # 0 => Part(n + 1) = Part(n)
           /\ n > 0 /\ n % MAX_LINES = 0 => Part(n + 1) = n \div MAX_LINES
           /\ Part(1) = Plain
<1>1. MAX_LINES \in Nat /\ MAX_LINES > 0
  BY LogAssumption, SMT
<1> DEFINE q == n \div MAX_LINES
           r == n % MAX_LINES
<1>2. q \in Nat /\ r \in 0 .. MAX_LINES - 1 /\ n = MAX_LINES * q + r
  BY <1>1, SMT
<1>3. ASSUME n > 0, r = 0 PROVE n >= MAX_LINES
  <2>1. q >= 1
    BY <1>1, <1>2, <1>3, SMT
  <2> QED BY <1>1, <1>2, <2>1, SMT
<1>4. ASSUME n > 0, r # 0 PROVE (n - 1) \div MAX_LINES = q
  <2>1. n - 1 = MAX_LINES * q + (r - 1) /\ r - 1 \in 0 .. MAX_LINES - 1
    BY <1>1, <1>2, <1>4, SMT
  <2> QED BY <1>1, <1>2, <2>1, SMT
<1>5. ASSUME n > 0, r # 0 PROVE n # MAX_LINES
  BY <1>1, <1>5, SMT
<1> HIDE DEF q, r
<1>6. ASSUME n > 0, r # 0 PROVE Part(n + 1) = Part(n)
  <2>1. CASE n < MAX_LINES
    <3>1. n + 1 <= MAX_LINES /\ n <= MAX_LINES
      BY <1>1, <2>1, SMT
    <3> QED BY <3>1 DEF Part
  <2>2. CASE ~(n < MAX_LINES)
    <3>1. ~(n + 1 <= MAX_LINES) /\ ~(n <= MAX_LINES) /\ (n + 1) - 1 = n
      BY <1>1, <1>5, <1>6, <2>2, SMT
    <3> QED BY <1>4, <1>6, <3>1 DEF Part, q
  <2> QED BY <2>1, <2>2
<1>7. ASSUME n > 0, r = 0 PROVE Part(n + 1) = q
  <2>1. ~(n + 1 <= MAX_LINES) /\ (n + 1) - 1 = n
    BY <1>1, <1>3, <1>7, SMT
  <2> QED BY <2>1 DEF Part, q
<1>8. Part(1) = Plain
  BY <1>1, SMT DEF Part
<1> QED BY <1>6, <1>7, <1>8 DEF q, r

\* A thread that has not entered write, or entered it and left no line, is in the check.
LEMMA AloneBefore ==
    ASSUME TypeOK, NEW s \in Threads, Check(s) \/ Write(s), NEW t \in Threads, Alone(t)'
    PROVE  s = t /\ Alone(t)
<1>1. /\ lines \in [Threads -> Nat] /\ pc \in [Threads -> {"check", "name", "open", "append"}]
  BY DEF TypeOK
<1>2. \A r \in Threads \ {s} : pc'[r] = pc[r] /\ lines'[r] = lines[r]
  BY <1>1 DEF Check, Write, NameFile, OpenFile, AppendLine
<1>3. pc'[s] # "check" \/ lines'[s] # 0
  <2>1. CASE Check(s)
    BY <1>1, <2>1 DEF Check
  <2>2. CASE NameFile(s) \/ OpenFile(s)
    BY <1>1, <2>2 DEF NameFile, OpenFile
  <2>3. CASE AppendLine(s)
    <3>1. lines'[s] = lines[s] + 1 /\ lines[s] \in Nat
      BY <1>1, <2>3 DEF AppendLine
    <3> QED BY <3>1, SMT
  <2> QED BY <2>1, <2>2, <2>3 DEF Write
<1>4. s = t
  BY <1>3 DEF Alone
<1> QED BY <1>2, <1>4 DEF Alone

LEMMA CheckRotates ==
    ASSUME TypeOK, Dates, NEW t \in Threads, Rotates(t), Check(t)
    PROVE  Dates' /\ Rotates(t)'
<1>0. /\ pc[t] = "check" /\ seen' = [seen EXCEPT ![t] = day]
      /\ pc' = [pc EXCEPT ![t] =
                 IF today_ # day \/ (line_count_ > 0 /\ line_count_ % MAX_LINES = 0)
                 THEN "name" ELSE "append"]
      /\ UNCHANGED <<day, today_, line_count_, fp_, newFile, lines>>
  BY DEF Check, state
<1>1. /\ pc'[t] \in {"name", "append"} /\ seen'[t] = day /\ seen' \in [Threads -> Nat]
      /\ pc'[t] = "name" => today_ # day \/ Full
      /\ pc'[t] = "append" => today_ = day /\ ~Full
  <2>1. pc \in [Threads -> {"check", "name", "open", "append"}] /\ seen \in [Threads -> Nat]
        /\ day \in Nat
    BY DEF TypeOK, Dates
  <2> QED BY <1>0, <2>1 DEF Full
<1>2. Dates'
  BY <1>0, <1>1 DEF Dates
<1>3. Settled /\ Settled' /\ (Full' <=> Full)
  <2>1. Settled
    BY <1>0 DEF Rotates
  <2> QED BY <1>0, <2>1 DEF Settled, Full, Part
<1>4. day # 0
  BY DEF Dates
<1>5. ASSUME pc'[t] = "append" PROVE fp_' = [day |-> today_, part |-> Part(line_count_ + 1)]
  <2>1. today_ # 0 /\ ~Full
    BY <1>1, <1>4, <1>5
  <2>2. line_count_ > 0 /\ fp_ = [day |-> today_, part |-> Part(line_count_)]
    BY <1>3, <2>1 DEF Settled
  <2>3. line_count_ \in Nat /\ line_count_ % MAX_LINES # 0
    BY <2>1, <2>2 DEF Full, TypeOK
  <2>4. Part(line_count_ + 1) = Part(line_count_)
    BY <2>2, <2>3, NextPart
  <2> QED BY <1>0, <2>2, <2>4
<1>6. Rotates(t)'
  <2>1. UNCHANGED <<today_, line_count_>>
    BY <1>0
  <2>2. pc'[t] # "open" /\ (pc'[t] = "name" => seen'[t] # 0 /\ (today_ # seen'[t] \/ Full))
    BY <1>1, <1>4
  <2> QED BY <1>3, <1>5, <2>1, <2>2 DEF Rotates, Part
<1> QED BY <1>2, <1>6

LEMMA NameFileRotates ==
    ASSUME TypeOK, Dates, NEW t \in Threads, Rotates(t), NameFile(t)
    PROVE  Dates' /\ Rotates(t)'
<1>0. /\ pc[t] = "name" /\ pc' = [pc EXCEPT ![t] = "open"]
      /\ UNCHANGED <<day, fp_, seen, lines>>
      /\ \/ /\ today_ # seen[t]
            /\ newFile' = [newFile EXCEPT ![t] = [day |-> seen[t], part |-> Plain]]
            /\ today_' = seen[t] /\ line_count_' = 0
         \/ /\ today_ = seen[t]
            /\ newFile' = [newFile EXCEPT ![t] =
                              [day |-> seen[t], part |-> line_count_ \div MAX_LINES]]
            /\ UNCHANGED <<today_, line_count_>>
  BY DEF NameFile
<1>1. pc'[t] = "open"
  BY <1>0 DEF TypeOK
<1>2. DOMAIN newFile' = Threads /\ seen[t] \in Nat
  BY <1>0 DEF Dates
<1>3. CASE today_ # seen[t]
  <2>1. newFile'[t] = [day |-> seen[t], part |-> Plain]
    BY <1>0, <1>3 DEF Dates
  <2>2. today_' = seen[t] /\ line_count_' = 0
    BY <1>0, <1>3
  <2>3. ~(line_count_' > 0)
    BY <2>2, SMT
  <2>4. Dates'
    BY <1>0, <1>2, <2>2, <2>3 DEF Dates
  <2> QED BY <1>1, <2>1, <2>2, <2>4 DEF Rotates
<1>4. CASE today_ = seen[t]
  <2>1. newFile'[t] = [day |-> seen[t], part |-> line_count_ \div MAX_LINES]
    BY <1>0, <1>4 DEF Dates
  <2>2. UNCHANGED <<today_, line_count_>>
    BY <1>0, <1>4
  <2>3. Full
    BY <1>0, <1>4 DEF Rotates
  <2>4. Full'
    BY <2>2, <2>3 DEF Full
  <2>5. Dates'
    BY <1>0, <1>2, <2>2 DEF Dates
  <2> QED BY <1>1, <1>4, <2>1, <2>2, <2>4, <2>5 DEF Rotates
<1> QED BY <1>3, <1>4

LEMMA OpenFileRotates ==
    ASSUME TypeOK, Dates, NEW t \in Threads, Rotates(t), OpenFile(t)
    PROVE  Dates' /\ Rotates(t)'
<1>0. /\ pc[t] = "open" /\ pc' = [pc EXCEPT ![t] = "append"] /\ fp_' = newFile[t]
      /\ UNCHANGED <<day, today_, line_count_, seen, newFile, lines>>
  BY DEF OpenFile
<1>1. pc'[t] = "append"
  BY <1>0 DEF TypeOK
<1>2. Dates'
  BY <1>0 DEF Dates
<1>3. line_count_ \in Nat
  BY DEF TypeOK
<1>4. fp_' = [day |-> today_, part |-> Part(line_count_ + 1)]
  <2>1. CASE line_count_ = 0 /\ newFile[t] = [day |-> today_, part |-> Plain]
    <3>1. line_count_ + 1 = 1
      BY <2>1, SMT
    <3> QED BY <1>0, <1>3, <2>1, <3>1, NextPart
  <2>2. CASE Full /\ newFile[t] = [day |-> today_, part |-> line_count_ \div MAX_LINES]
    BY <1>0, <1>3, <2>2, NextPart DEF Full
  <2> QED BY <1>0, <2>1, <2>2 DEF Rotates
<1>5. Rotates(t)'
  BY <1>0, <1>1, <1>4 DEF Rotates, Part
<1> QED BY <1>2, <1>5

LEMMA AppendLineRotates ==
    ASSUME TypeOK, Dates, NEW t \in Threads, Rotates(t), AppendLine(t)
    PROVE  Dates' /\ Rotates(t)'
<1>0. /\ pc[t] = "append" /\ pc' = [pc EXCEPT ![t] = "check"]
      /\ line_count_' = line_count_ + 1 /\ lines' = [lines EXCEPT ![t] = @ + 1]
      /\ UNCHANGED <<day, today_, fp_, seen, newFile>>
  BY DEF AppendLine
<1>1. pc'[t] = "check"
  BY <1>0 DEF TypeOK
<1>2. lines'[t] = lines[t] + 1 /\ lines[t] \in Nat /\ line_count_ \in Nat
  BY <1>0 DEF TypeOK
<1>3. lines'[t] > 0 /\ line_count_' > 0
  BY <1>0, <1>2, SMT
<1>4. Dates'
  BY <1>0, <1>3 DEF Dates
<1>5. fp_ = [day |-> today_, part |-> Part(line_count_ + 1)]
  BY <1>0 DEF Rotates
<1>6. Settled'
  <2>1. Part(line_count_)' = Part(line_count_ + 1)
    BY <1>0 DEF Part
  <2> QED BY <1>0, <1>3, <1>5, <2>1 DEF Settled
<1> QED BY <1>1, <1>4, <1>6 DEF Rotates

LEMMA OthersKeepDates ==
    ASSUME TypeOK, Dates, NEW t \in Threads, Check(t) \/ Write(t)
    PROVE  Dates'
<1>0. /\ lines \in [Threads -> Nat] /\ line_count_ \in Nat /\ day \in Nat \ {0}
      /\ seen \in [Threads -> Nat] /\ today_ \in Nat /\ DOMAIN newFile = Threads
  BY DEF TypeOK, Dates
<1>1. CASE Check(t)
  <2>1. UNCHANGED <<day, today_, line_count_, newFile, lines>> /\ seen' \in [Threads -> Nat]
    BY <1>0, <1>1 DEF Check, state
  <2> QED BY <2>1 DEF Dates
<1>2. CASE NameFile(t)
  <2>1. /\ UNCHANGED <<day, seen, lines>> /\ DOMAIN newFile' = Threads
        /\ today_' \in {today_, seen[t]} /\ (line_count_' = line_count_ \/ line_count_' = 0)
    BY <1>0, <1>2 DEF NameFile
  <2>2. today_' \in Nat /\ (line_count_' > 0 => line_count_ > 0)
    <3>1. today_' \in Nat
      BY <1>0, <2>1
    <3>2. line_count_' > 0 => line_count_ > 0
      BY <1>0, <2>1, SMT
    <3> QED BY <3>1, <3>2
  <2> QED BY <2>1, <2>2 DEF Dates
<1>3. CASE OpenFile(t)
  BY <1>3 DEF OpenFile, Dates
<1>4. CASE AppendLine(t)
  <2>1. UNCHANGED <<day, today_, seen, newFile>> /\ lines'[t] = lines[t] + 1 /\ lines[t] \in Nat
    BY <1>0, <1>4 DEF AppendLine
  <2>2. lines'[t] > 0
    BY <2>1, SMT
  <2> QED BY <2>1, <2>2 DEF Dates
<1> QED BY <1>1, <1>2, <1>3, <1>4 DEF Write

LEMMA NextRotation == TypeOK /\ Rotation /\ [Next]_vars => Rotation'
<1> SUFFICES ASSUME TypeOK, Rotation, [Next]_vars PROVE Rotation'
  OBVIOUS
<1>1. ASSUME NEW s \in Threads, Check(s) \/ Write(s) PROVE Rotation'
  <2>1. Dates'
    BY <1>1, OthersKeepDates DEF Rotation
  <2>2. ASSUME NEW t \in Threads, Alone(t)' PROVE Rotates(t)'
    <3>1. s = t /\ Alone(t)
      BY <1>1, <2>2, AloneBefore
    <3>2. Rotates(t) /\ Dates /\ (Check(t) \/ Write(t))
      BY <1>1, <3>1 DEF Rotation
    <3> QED BY <3>2, CheckRotates, NameFileRotates, OpenFileRotates, AppendLineRotates DEF Write
  <2> QED BY <2>1, <2>2 DEF Rotation
<1>2. ASSUME UNCHANGED <<today_, line_count_, fp_, pc, seen, newFile, lines>>,
             day' = day \/ day' = day + 1
      PROVE  Rotation'
  <2>1. day' \in Nat \ {0}
    BY <1>2, SMT DEF Rotation, Dates
  <2>2. Dates'
    BY <1>2, <2>1 DEF Rotation, Dates
  <2>3. (Settled' <=> Settled) /\ (Full' <=> Full)
    BY <1>2 DEF Settled, Full, Part
  <2>4. ASSUME NEW t \in Threads, Alone(t)' PROVE Rotates(t)'
    <3>1. Alone(t)
      BY <1>2, <2>4 DEF Alone
    <3>2. Rotates(t)
      BY <3>1 DEF Rotation
    <3> QED BY <1>2, <2>3, <3>2 DEF Rotates, Part
  <2> QED BY <2>2, <2>4 DEF Rotation
<1>3. CASE WriteThread \/ SpuriousWakeup \/ Close \/ Destructor \/ NewDay \/ UNCHANGED vars
  <2>1. UNCHANGED <<today_, line_count_, fp_, pc, seen, newFile, lines>>
        /\ (day' = day \/ day' = day + 1)
    BY <1>3 DEF WriteThread, Pop, PopAwake, WaitOrTake, Put, SpuriousWakeup, Close, Destructor,
       FlushRest, StopFlushing, Join, NewDay, vars, state, writers
  <2> QED BY <1>2, <2>1
<1> QED BY <1>1, <1>3 DEF Next

LEMMA InitRotation == Init => Rotation
<1> SUFFICES ASSUME Init PROVE Rotation
  OBVIOUS
<1>1. Dates
  <2>1. day \in Nat \ {0} /\ today_ \in Nat /\ ~(line_count_ > 0)
    BY SMT DEF Init
  <2> QED BY <2>1 DEF Init, Dates
<1> QED BY <1>1 DEF Init, Rotation, Rotates, Settled

\* A new file is created when the day changes and after every MAX_LINES lines, whatever
\* MAX_LINES is and however many lines and days there are, when one thread logs.
THEOREM FilesMatchCount == Spec => []FileMatchesCount
<1>1. IInv => TypeOK
  BY DEF IInv
<1>2. Spec => []Rotation
  BY <1>1, IInvInvariant, InitRotation, NextRotation, PTL DEF Spec
<1>3. TypeOK /\ Rotation => FileMatchesCount
  <2> SUFFICES ASSUME TypeOK, Rotation,
                      \A t \in Threads : pc[t] = "check",
                      \A s, t \in Threads : lines[s] > 0 /\ lines[t] > 0 => s = t,
                      line_count_ > 0
               PROVE  fp_ = [day |-> today_, part |-> Part(line_count_)]
    BY DEF FileMatchesCount, Part
  <2>1. PICK t \in Threads : lines[t] > 0
    BY DEF Rotation, Dates
  <2>2. ASSUME NEW s \in Threads, s # t PROVE lines[s] = 0
    <3>1. ~(lines[s] > 0) /\ lines[s] \in Nat
      BY <2>1, <2>2 DEF TypeOK
    <3> QED BY <3>1, SMT
  <2>3. Alone(t)
    BY <2>2 DEF Alone
  <2>4. Settled
    BY <2>3 DEF Rotation, Rotates
  <2>5. line_count_ # 0
    BY SMT
  <2> QED BY <2>4, <2>5 DEF Settled
<1> QED BY <1>1, <1>2, <1>3, IInvInvariant, PTL
=============================================================================
