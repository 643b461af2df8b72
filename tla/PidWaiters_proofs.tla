---------------------------- MODULE PidWaiters_proofs ----------------------------
(***************************************************************************)
(* On an endpoint whose ids are acquired by waiting operations only, and   *)
(* where nobody cancels one, operations are served in the order they came, *)
(* for any number of operations and ids.                                   *)
(***************************************************************************)
EXTENDS PidWaiters, SequenceTheorems, TLAPS

\* The operations stand in line, and the queue has their entries in the same order; the
\* first ones are woken already, in order, and there is a free id for each of them.
InLine ==
  /\ line \in Seq(Waiters) /\ ready \in Seq(Waiters)
  /\ Len(ready) <= Len(line) /\ \A i \in 1..Len(ready) : ready[i] = line[i]
  /\ \A i, j \in 1..Len(line) : line[i] = line[j] => i = j
Entries == [w : Waiters, own : BOOLEAN, cancelled : BOOLEAN]
IsEntry(e, w) == e \in Entries /\ e.w = w /\ e.own
Queued ==
  /\ queue \in Seq(Entries) /\ Len(queue) = Len(line)
  /\ \A i \in 1..Len(line) : /\ IsEntry(queue[i], line[i])
                             /\ queue[i].cancelled <=> i <= Len(ready)
Phases ==
  /\ op \in [Waiters -> {"idle", "waiting", "ready", "done"}]
  /\ \A i \in 1..Len(line) : op[line[i]] = IF i <= Len(ready) THEN "ready" ELSE "waiting"
  /\ \A w \in Waiters : op[w] \in {"waiting", "ready"} => \E i \in 1..Len(line) : line[i] = w
Enough ==
  /\ others = 0 /\ vacant \in Nat /\ vacant >= Len(ready)
  /\ ready # <<>> => released

\* The inductive invariant.
Inv == setup \in Setups /\ (Undisturbed => InLine /\ Queued /\ Phases /\ Enough)
-------------------------------------------------------------------------------
\* RemoveFirst (SequencesExt) of the element at the head.
LEMMA RemoveHead ==
  ASSUME NEW S, NEW s \in Seq(S), s # <<>>, NEW e, e = Head(s)
  PROVE  RemoveFirst(s, e) = Tail(s)
<1> DEFINE I == {i \in 1..Len(s) : s[i] = e}
<1>1. Len(s) \in Nat \ {0} /\ e = s[1]  OBVIOUS
<1>2. 1 \in I /\ \A i \in I : i >= 1 /\ i \in Int  BY <1>1
<1>3. \A m \in I : (\A i \in I : m <= i) => m = 1  BY <1>2
<1>4. Min(I) = 1  BY <1>2, <1>3 DEF Min
<1>5. RemoveFirst(s, e) = RemoveAt(s, 1)
  BY <1>1, <1>2, <1>4, Zenon DEF RemoveFirst, SelectInSeq
<1>6. RemoveFirst(s, e) = SubSeq(s, 1, 0) \o SubSeq(s, 2, Len(s))
  BY <1>1, <1>5 DEF RemoveAt
<1>7. SubSeq(s, 1, 0) = <<>>  BY SubSeqEmpty
<1>8. SubSeq(s, 2, Len(s)) = Tail(s) /\ Tail(s) \in Seq(S)
  BY TailIsSubSeq, HeadTailProperties
<1>9. QED  BY <1>6, <1>7, <1>8, ConcatEmptySeq

\* RemoveFirst of an element that is not there.
LEMMA RemoveNothing == ASSUME NEW e PROVE RemoveFirst(<<>>, e) = <<>>
  BY DEF RemoveFirst
-------------------------------------------------------------------------------
LEMMA Initially == ASSUME Init PROVE Inv
  BY WaitersAssumption DEF Init, Inv, InLine, Queued, Phases, Enough, Undisturbed

\* What a step relies on.
Line == InLine /\ Queued /\ Phases /\ Enough

\* An operation joins at the end of the line (add_retry_op).
LEMMA Joins ==
  ASSUME Line, NEW w \in Waiters, op[w] = "idle", AddRetry(w, queue),
         UNCHANGED <<ready, others>>, released' = released \/ ready = <<>>
  PROVE  Line'
<1>1. ~Contains(line, w)  BY DEF Contains, Line, Phases, InLine
<1>2. /\ queue' = Append(queue, Entry(w)) /\ line' = Append(line, w)
      /\ op' = [op EXCEPT ![w] = "waiting"] /\ vacant' = vacant
  BY <1>1 DEF AddRetry
<1>3. InLine'
  BY <1>1, <1>2 DEF Line, InLine, Contains
<1>4. Queued'
  <2>1. IsEntry(Entry(w), w) /\ ~Entry(w).cancelled  BY DEF Entry, IsEntry, Entries
  <2>2. /\ queue' \in Seq(Entries)
        /\ Len(queue') = Len(queue) + 1 /\ Len(line') = Len(line) + 1
        /\ Len(line) = Len(queue)
    BY <1>2, <2>1 DEF Line, InLine, Queued, IsEntry
  <2>3. ASSUME NEW i \in 1..Len(line')
        PROVE  IsEntry(queue'[i], line'[i]) /\ (queue'[i].cancelled <=> i <= Len(ready))
    <3>1. CASE i \in 1..Len(line)
      <4>1. queue'[i] = queue[i] /\ line'[i] = line[i]
        BY <1>2, <2>1, <2>2, <3>1 DEF Line, InLine, Queued, IsEntry
      <4>2. QED  BY <3>1, <4>1 DEF Line, Queued
    <3>2. CASE i = Len(line) + 1
      <4>1. queue'[i] = Entry(w) /\ line'[i] = w
        BY <1>2, <2>1, <2>2, <3>2 DEF Line, InLine, Queued, IsEntry
      <4>2. ~(i <= Len(ready))  BY <3>2 DEF Line, InLine
      <4>3. QED  BY <2>1, <4>1, <4>2
    <3>3. QED  BY <2>2, <2>3, <3>1, <3>2 DEF Line, InLine
  <2>4. QED  BY <2>2, <2>3 DEF Queued
<1>5. Phases'
  <2>1. op' \in [Waiters -> {"idle", "waiting", "ready", "done"}]
    BY <1>2 DEF Line, Phases
  <2>2. /\ Len(line') = Len(line) + 1 /\ line'[Len(line')] = w
        /\ \A i \in 1..Len(line) : line'[i] = line[i]
    BY <1>2 DEF Line, InLine
  <2>3. ASSUME NEW i \in 1..Len(line')
        PROVE  op'[line'[i]] = IF i <= Len(ready') THEN "ready" ELSE "waiting"
    <3>1. CASE i \in 1..Len(line)
      <4>1. line'[i] = line[i] /\ line[i] # w /\ line[i] \in Waiters
        BY <1>1, <2>2, <3>1 DEF Line, InLine, Contains
      <4>2. QED  BY <1>2, <3>1, <4>1 DEF Line, Phases
    <3>2. CASE i = Len(line')
      <4>1. line'[i] = w /\ ~(i <= Len(ready'))  BY <2>2, <3>2 DEF Line, InLine
      <4>2. QED  BY <1>2, <4>1 DEF Line, Phases
    <3>3. QED  BY <2>2, <3>1, <3>2 DEF Line, InLine
  <2>4. ASSUME NEW v \in Waiters, op'[v] \in {"waiting", "ready"}
        PROVE  \E i \in 1..Len(line') : line'[i] = v
    <3>1. CASE v = w  BY <2>2, <3>1 DEF Line, InLine
    <3>2. CASE v # w
      <4>1. PICK i \in 1..Len(line) : line[i] = v
        BY <1>2, <2>4, <3>2 DEF Line, Phases
      <4>2. QED  BY <2>2, <4>1 DEF Line, InLine
    <3>3. QED  BY <3>1, <3>2
  <2>5. QED  BY <2>1, <2>3, <2>4 DEF Phases
<1>6. Enough'
  BY <1>2 DEF Line, Enough
<1>7. QED  BY <1>3, <1>4, <1>5, <1>6 DEF Line

\* An operation starts (acq_proc).
LEMMA Starts ==
  ASSUME Line, NEW w \in Waiters, Start(w)
  PROVE  /\ Line'
         /\ \A v \in Waiters : op[v] = "ready" => op'[v] = "ready"
<1>1. op[w] = "idle" /\ UNCHANGED <<ready, others>>  BY DEF Start, Line, Phases
<1>2. CASE queue # <<>>
  <2>1. AddRetry(w, queue) /\ released' = released  BY <1>2 DEF Start, HasRetry
  <2>2. QED  BY <1>1, <2>1, Joins DEF AddRetry, Line, Phases
<1>3. CASE queue = <<>>
  <2>1. line = <<>> /\ ready = <<>>  BY <1>3 DEF Line, Queued, InLine
  <2>2. Acquire(w, queue)  BY <1>3 DEF Start, HasRetry
  <2>3. CASE vacant > 0
    <3>1. /\ vacant' = vacant - 1 /\ op' = [op EXCEPT ![w] = "done"] /\ line' = <<>>
          /\ queue' = <<>> /\ released' = released
      BY <1>3, <2>1, <2>2, <2>3, RemoveNothing DEF Acquire, Serve
    <3>2. QED
      BY <1>1, <1>3, <2>1, <2>3, <3>1 DEF Line, InLine, Queued, Phases, Enough
  <2>4. CASE ~(vacant > 0)
    <3>1. AddRetry(w, queue)  BY <2>2, <2>4 DEF Acquire
    <3>2. QED  BY <1>1, <2>1, <3>1, Joins DEF AddRetry, Line, Phases
  <2>5. QED  BY <2>3, <2>4
<1>4. QED  BY <1>2, <1>3

\* The first of those that were woken gets an id (acq_proc from the handler of its timer).
LEMMA WokenServed ==
  ASSUME Line, Retry
  PROVE  /\ Line'
         /\ ready # <<>> /\ Head(ready) = Head(line)
         /\ op' = [op EXCEPT ![Head(ready)] = "done"]
<1> DEFINE w == Head(ready)
<1>1. /\ ready # <<>> /\ ready' = Tail(ready) /\ released
      /\ Acquire(w, Forget(w, Popped(queue))) /\ UNCHANGED <<setup, others>>
  BY DEF Retry, Line, Enough
<1>2. /\ line # <<>> /\ w = line[1] /\ w = Head(line) /\ w \in Waiters
      /\ Len(ready) \in Nat \ {0} /\ Len(line) \in Nat \ {0} /\ Len(ready) <= Len(line)
  BY <1>1 DEF Line, InLine
<1>3. vacant > 0  BY <1>2 DEF Line, Enough
<1>4. /\ vacant' = vacant - 1 /\ op' = [op EXCEPT ![w] = "done"] /\ line' = Tail(line)
      /\ queue' = Forget(w, Popped(queue)) /\ released' = released
  <2>1. RemoveFirst(line, w) = Tail(line)  BY <1>2, RemoveHead DEF Line, InLine
  <2>2. QED  BY <1>1, <1>3, <2>1 DEF Acquire, Serve
<1>5. /\ ready' \in Seq(Waiters) /\ Len(ready') = Len(ready) - 1
      /\ \A i \in 1..Len(ready') : ready'[i] = ready[i + 1]
      /\ line' \in Seq(Waiters) /\ Len(line') = Len(line) - 1
      /\ \A i \in 1..Len(line') : line'[i] = line[i + 1]
  BY <1>1, <1>2, <1>4, HeadTailProperties DEF Line, InLine
<1>6. InLine'
  <2>1. \A i \in 1..Len(ready') : ready'[i] = line'[i]
    <3> SUFFICES ASSUME NEW i \in 1..Len(ready') PROVE ready'[i] = line'[i]
      OBVIOUS
    <3>1. i + 1 \in 1..Len(ready) /\ i \in 1..Len(line')  BY <1>2, <1>5
    <3>2. ready'[i] = ready[i + 1] /\ line'[i] = line[i + 1]  BY <1>5, <3>1
    <3>3. QED  BY <3>1, <3>2 DEF Line, InLine
  <2>2. \A i, j \in 1..Len(line') : line'[i] = line'[j] => i = j
    <3> SUFFICES ASSUME NEW i \in 1..Len(line'), NEW j \in 1..Len(line'), line'[i] = line'[j]
                 PROVE  i = j
      OBVIOUS
    <3>1. i + 1 \in 1..Len(line) /\ j + 1 \in 1..Len(line)  BY <1>2, <1>5
    <3>2. line[i + 1] = line[j + 1]  BY <1>5
    <3>3. i + 1 = j + 1  BY <3>1, <3>2 DEF Line, InLine
    <3>4. QED  BY <1>2, <1>5, <3>3
  <2>3. Len(ready') <= Len(line')  BY <1>2, <1>5
  <2>4. QED  BY <1>5, <2>1, <2>2, <2>3 DEF InLine
<1>7. Queued'
  <2> DEFINE t == Tail(queue)
  <2>1. /\ queue \in Seq(Entries) /\ queue # <<>> /\ Len(queue) = Len(line)
    BY <1>2 DEF Line, Queued
  <2>2. /\ t \in Seq(Entries) /\ Len(t) = Len(line')
        /\ \A i \in 1..Len(t) : t[i] = queue[i + 1]
    BY <1>2, <1>5, <2>1, HeadTailProperties
  <2>3. Popped(queue) = t  BY <2>1 DEF Popped, TailOrEmpty
  <2>4. queue' = [i \in DOMAIN t |-> [t[i] EXCEPT !.own = @ /\ t[i].w # w]]
    BY <1>4, <2>3 DEF Forget
  <2>5. ASSUME NEW i \in 1..Len(t)
        PROVE  IsEntry(queue'[i], line'[i]) /\ (queue'[i].cancelled <=> i <= Len(ready'))
    <3>1. i + 1 \in 1..Len(line) /\ line'[i] = line[i + 1] /\ t[i] = queue[i + 1]
      BY <1>2, <1>5, <2>2
    <3>2. IsEntry(t[i], line'[i]) /\ (t[i].cancelled <=> i <= Len(ready'))
      <4>1. (i + 1 <= Len(ready)) <=> (i <= Len(ready'))  BY <1>2, <1>5, <2>2
      <4>2. QED  BY <3>1, <4>1 DEF Line, Queued
    <3>3. line'[i] # w  BY <1>2, <1>5, <2>2 DEF Line, InLine
    <3>4. queue'[i] = [t[i] EXCEPT !.own = t[i].own /\ t[i].w # w]  BY <2>2, <2>4
    <3>5. t[i].own /\ t[i].w # w  BY <3>2, <3>3 DEF IsEntry
    <3>6. QED  BY <3>2, <3>4, <3>5 DEF IsEntry, Entries
  <2>6. queue' \in Seq(Entries) /\ Len(queue') = Len(line')
    <3>1. DOMAIN queue' = 1..Len(t) /\ Len(t) \in Nat  BY <2>2, <2>4
    <3>2. \A i \in 1..Len(t) : queue'[i] \in Entries  BY <2>5 DEF IsEntry
    <3>3. queue' = [i \in 1..Len(t) |-> queue'[i]]  BY <2>4, <3>1
    <3>4. queue' \in Seq(Entries) /\ Len(queue') = Len(t)  BY <3>1, <3>2, <3>3
    <3>5. QED  BY <2>2, <3>4
  <2>7. QED  BY <2>2, <2>5, <2>6 DEF Queued
<1>8. Phases'
  <2>1. op' \in [Waiters -> {"idle", "waiting", "ready", "done"}]
    BY <1>2, <1>4 DEF Line, Phases
  <2>2. ASSUME NEW i \in 1..Len(line')
        PROVE  op'[line'[i]] = IF i <= Len(ready') THEN "ready" ELSE "waiting"
    <3>1. i + 1 \in 1..Len(line) /\ line'[i] = line[i + 1]  BY <1>2, <1>5
    <3>2. line[i + 1] # w /\ line[i + 1] \in Waiters  BY <1>2, <3>1 DEF Line, InLine
    <3>3. (i + 1 <= Len(ready)) = (i <= Len(ready'))  BY <1>2, <1>5
    <3>4. op'[line'[i]] = op[line[i + 1]]  BY <1>4, <3>1, <3>2 DEF Line, Phases
    <3>5. QED  BY <3>1, <3>3, <3>4 DEF Line, Phases
  <2>3. ASSUME NEW v \in Waiters, op'[v] \in {"waiting", "ready"}
        PROVE  \E i \in 1..Len(line') : line'[i] = v
    <3>1. v # w  BY <1>2, <1>4, <2>3 DEF Line, Phases
    <3>2. op[v] \in {"waiting", "ready"}  BY <1>4, <2>3, <3>1 DEF Line, Phases
    <3>3. PICK i \in 1..Len(line) : line[i] = v  BY <3>2 DEF Line, Phases
    <3>4. i # 1  BY <1>2, <3>1, <3>3
    <3>5. i - 1 \in 1..Len(line') /\ line'[i - 1] = v  BY <1>2, <1>5, <3>3, <3>4
    <3>6. QED  BY <3>5
  <2>4. QED  BY <2>1, <2>2, <2>3 DEF Phases
<1>9. Enough'
  BY <1>1, <1>2, <1>3, <1>4, <1>5 DEF Line, Enough
<1>10. QED  BY <1>2, <1>4, <1>1, <1>6, <1>7, <1>8, <1>9 DEF Line

\* A release wakes the first that is not woken yet, if there is one (release_pid).
LEMMA Releases ==
  ASSUME Line, NEW w \in Waiters, Release(w)
  PROVE  /\ Line'
         /\ \A v \in Waiters : op[v] = "ready" => op'[v] = "ready"
<1> DEFINE st == [op EXCEPT ![w] = "idle"]
           n == Len(ready)
<1>1. /\ op[w] = "done" /\ ReleasePid(st) /\ others' = others /\ line' = line
      /\ vacant' = vacant + 1 /\ released' = TRUE /\ setup' = setup
  BY DEF Release, ReleasePid, ReleasedFlag
<1>2. /\ n \in Nat /\ Len(line) \in Nat /\ n <= Len(line) /\ Len(queue) = Len(line)
      /\ DOMAIN queue = 1..Len(line)
  BY DEF Line, InLine, Queued
<1>3. /\ st \in [Waiters -> {"idle", "waiting", "ready", "done"}]
      /\ \A v \in Waiters : v # w => st[v] = op[v]
      /\ st[w] = "idle"
  BY DEF Line, Phases
<1>4. \A i \in 1..Len(line) : line[i] # w /\ line[i] \in Waiters
  BY <1>1, <1>2 DEF Line, InLine, Phases
<1>5. Wakeable(queue) = (n + 1)..Len(line)
  <2>1. \A i \in 1..Len(line) : queue[i].cancelled <=> i <= n  BY DEF Line, Queued
  <2>2. QED  BY <1>2, <2>1 DEF Wakeable
<1>6. CASE n = Len(line)
  <2>1. Wakeable(queue) = {}  BY <1>2, <1>5, <1>6
  <2>2. op' = st /\ queue' = queue /\ ready' = ready  BY <1>1, <2>1 DEF ReleasePid
  <2>3. InLine' /\ Queued'  BY <1>1, <2>2 DEF Line, InLine, Queued
  <2>4. Phases'
    <3>1. \A i \in 1..Len(line) : st[line[i]] = op[line[i]]  BY <1>3, <1>4
    <3>2. QED  BY <1>1, <1>3, <2>2, <3>1 DEF Line, Phases
  <2>5. Enough'  BY <1>1, <1>2, <2>2 DEF Line, Enough
  <2>6. QED  BY <1>1, <1>3, <2>2, <2>3, <2>4, <2>5 DEF Line
<1>7. CASE n < Len(line)
  <2> DEFINE i == n + 1
             u == line[i]
  <2>1. i \in Wakeable(queue) /\ \A j \in Wakeable(queue) : i <= j /\ j \in Int
    BY <1>2, <1>5, <1>7
  <2>2. Wakes(Wakeable(queue)) = i
    <3>1. \A m \in Wakeable(queue) : (\A j \in Wakeable(queue) : m <= j) => m = i
      BY <2>1, <1>2
    <3>2. QED  BY <2>1, <3>1 DEF Wakes
  <2>3. /\ i \in 1..Len(line) /\ u \in Waiters /\ u # w /\ op[u] = "waiting"
        /\ IsEntry(queue[i], u)
    BY <1>2, <1>4, <1>7 DEF Line, Queued, Phases
  <2>4. st[u] = "waiting"  BY <1>3, <2>3
  <2>5. /\ queue' = [queue EXCEPT ![i].cancelled = TRUE]
        /\ op' = [st EXCEPT ![u] = "ready"] /\ ready' = Append(ready, u)
    <3>1. Wakeable(queue) # {}  BY <2>1
    <3>2. queue[i].w = u /\ queue[i].own  BY <2>3 DEF IsEntry
    <3>3. QED  BY <1>1, <2>2, <2>4, <3>1, <3>2 DEF ReleasePid
  <2>6. /\ ready' \in Seq(Waiters) /\ Len(ready') = n + 1 /\ ready'[n + 1] = u
        /\ \A j \in 1..n : ready'[j] = ready[j]
    BY <2>3, <2>5 DEF Line, InLine
  <2>7. InLine'
    <3>1. \A j \in 1..(n + 1) : ready'[j] = line[j]  BY <1>2, <2>6 DEF Line, InLine
    <3>2. QED  BY <1>1, <1>2, <1>7, <2>6, <3>1 DEF Line, InLine
  <2>8. Queued'
    <3> DEFINE x == [queue[i] EXCEPT !.cancelled = TRUE]
    <3>1. IsEntry(x, u) /\ x.cancelled  BY <2>3 DEF IsEntry, Entries
    <3>2. queue' = [queue EXCEPT ![i] = x]  BY <2>5
    <3> HIDE DEF x
    <3>3. queue \in Seq(Entries) /\ x \in Entries /\ i \in 1..Len(queue)
      BY <1>2, <2>3, <3>1 DEF Line, Queued, IsEntry
    <3>4. /\ queue' \in Seq(Entries) /\ Len(queue') = Len(line)
          /\ \A j \in 1..Len(line) : queue'[j] = IF j = i THEN x ELSE queue[j]
      BY <1>2, <3>2, <3>3, ExceptSeq
    <3>5. ASSUME NEW j \in 1..Len(line)
          PROVE  IsEntry(queue'[j], line[j]) /\ (queue'[j].cancelled <=> j <= n + 1)
      <4>1. CASE j = i  BY <1>2, <3>1, <3>4, <4>1
      <4>2. CASE j # i
        <5>1. (j <= n) <=> (j <= n + 1)  BY <1>2, <4>2
        <5>2. IsEntry(queue[j], line[j]) /\ (queue[j].cancelled <=> j <= n)
          BY DEF Line, Queued
        <5>3. QED  BY <3>4, <4>2, <5>1, <5>2
      <4>3. QED  BY <4>1, <4>2
    <3>6. QED  BY <1>1, <2>6, <3>4, <3>5 DEF Queued
  <2>9. Phases'
    <3>1. op' \in [Waiters -> {"idle", "waiting", "ready", "done"}]  BY <1>3, <2>5
    <3>2. ASSUME NEW j \in 1..Len(line)
          PROVE  op'[line[j]] = IF j <= n + 1 THEN "ready" ELSE "waiting"
      <4>1. CASE j = i  BY <1>2, <1>3, <2>3, <2>5, <4>1
      <4>2. CASE j # i
        <5>1. line[j] # u /\ line[j] # w /\ line[j] \in Waiters
          BY <1>4, <2>3, <4>2 DEF Line, InLine
        <5>2. op'[line[j]] = op[line[j]]  BY <1>3, <2>5, <5>1
        <5>3. (j <= n) = (j <= n + 1)  BY <1>2, <4>2
        <5>4. QED  BY <5>2, <5>3 DEF Line, Phases
      <4>3. QED  BY <4>1, <4>2
    <3>3. ASSUME NEW v \in Waiters, op'[v] \in {"waiting", "ready"}
          PROVE  \E j \in 1..Len(line) : line[j] = v
      BY <1>3, <2>3, <2>5, <3>3 DEF Line, Phases
    <3>4. QED  BY <1>1, <2>6, <3>1, <3>2, <3>3 DEF Phases
  <2>10. Enough'  BY <1>1, <1>2, <2>6 DEF Line, Enough
  <2>11. \A v \in Waiters : op[v] = "ready" => op'[v] = "ready"
    BY <1>1, <1>3, <2>5
  <2>12. QED  BY <2>7, <2>8, <2>9, <2>10, <2>11 DEF Line
<1>8. QED  BY <1>2, <1>6, <1>7

\* No other step is taken on such an endpoint.
LEMMA Others ==
  ASSUME Line, Undisturbed, Next
  PROVE  \/ \E w \in Waiters : Start(w) \/ Release(w)
         \/ Retry
  BY DEF Line, Enough, Undisturbed, Next, Cancel, OtherAcquires, OtherReleases, Clear

LEMMA SetupStays == ASSUME Next PROVE setup' = setup
  BY DEF Next, Start, Cancel, Release, ReleasePid, Retry, OtherAcquires, OtherReleases, Clear

\* The step of the invariant, and what it says of the order.
LEMMA Step ==
  ASSUME Inv, Undisturbed, Next
  PROVE  /\ Line'
         /\ \A w \in Waiters : op[w] = "ready" /\ op'[w] = "done" => w = Head(line)
<1>1. Line  BY DEF Inv, Line
<1>2. ASSUME NEW w \in Waiters, Start(w) \/ Release(w)
      PROVE  Line' /\ \A v \in Waiters : op[v] = "ready" => op'[v] = "ready"
  BY <1>1, <1>2, Starts, Releases
<1>3. CASE Retry
  <2>1. /\ Line' /\ Head(ready) = Head(line)
        /\ op' = [op EXCEPT ![Head(ready)] = "done"]
    BY <1>1, <1>3, WokenServed
  <2>2. QED  BY <1>1, <2>1 DEF Line, Phases
<1>4. QED  BY <1>1, <1>2, <1>3, Others
-------------------------------------------------------------------------------
\* The invariant holds in every state.
THEOREM Invariance == Spec => []Inv
<1>1. Init => Inv  BY Initially
<1>2. Inv /\ [Next]_vars => Inv'
  <2>1. ASSUME Inv, Next PROVE Inv'
    <3>1. setup' = setup  BY <2>1, SetupStays
    <3>2. Undisturbed => Line'  BY <2>1, Step
    <3>3. QED  BY <2>1, <3>1, <3>2 DEF Inv, Undisturbed, Line
  <2>2. ASSUME Inv, UNCHANGED vars PROVE Inv'
    BY <2>2 DEF Inv, vars, Undisturbed, InLine, Queued, Phases, Enough
  <2>3. QED  BY <2>1, <2>2
<1>3. QED  BY <1>1, <1>2, PTL DEF Spec

\* Operations that wait for a packet id get one in the order in which they began to wait,
\* however many of them and of ids there are, when all ids are acquired by waiting and no
\* operation is cancelled (release_pid, the queue of add_retry_op, packet_id_released_).
THEOREM ServedInOrder == Spec => InOrder
<1> DEFINE Fair == Undisturbed =>
             \A w \in Waiters : op[w] = "ready" /\ op'[w] = "done" => w = Head(line)
<1>1. Inv /\ [Next]_vars => [Fair]_vars
  BY Step
<1>2. QED  BY <1>1, Invariance, PTL DEF Spec, InOrder
===============================================================================
