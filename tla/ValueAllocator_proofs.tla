------------------------- MODULE ValueAllocator_proofs -------------------------
(***************************************************************************)
(* Proofs about ValueAllocator for every range of values whose highest     *)
(* value is not the last one of its type, so that v + 1 never wraps.       *)
(***************************************************************************)
EXTENDS ValueAllocator, TLAPS

\* The value type is promoted to int, as the two byte packet ids are.
Promoted == Highest + 1 < Modulus

\* Both conjuncts are needed together: the neighbours of a released value are joined
\* correctly only when the intervals are non-empty, disjoint and maximal.
IInv == TypeOK /\ Maximal

\* Below the highest value of the type, v + 1 is the next value.
LEMMA IncIsSuccessor ==
  ASSUME Promoted, NEW v \in Values
  PROVE  Inc(v) = v + 1
  BY AllocatorAssumption DEF Promoted, Values, Inc

\* A well-formed interval.
Proper(i) ==
  i = Interval(i.low, i.high) /\ i.low \in Values /\ i.high \in Values /\ i.low <= i.high

\* Two ordered values make a well-formed interval.
LEMMA IntervalProper ==
  ASSUME NEW l \in Values, NEW h \in Values, l <= h
  PROVE  /\ Proper(Interval(l, h))
         /\ Interval(l, h).low = l /\ Interval(l, h).high = h
  BY DEF Proper, Interval

\* The intervals of the pool are well-formed.
LEMMA ProperInPool ==
  ASSUME TypeOK, NEW i \in pool
  PROVE  Proper(i) /\ i.low \in Int /\ i.high \in Int
  BY AllocatorAssumption DEF TypeOK, Proper, Values

\* An interval that keeps its distance from all others may join them.
LEMMA AddInterval ==
  ASSUME NEW p, NEW i, Proper(i), \A j \in p : Proper(j),
         \A j, k \in p : j # k => j.high + 1 < k.low \/ k.high + 1 < j.low,
         \A j \in p : j.high + 1 < i.low \/ i.high + 1 < j.low
  PROVE  /\ Emplace(p, i) = p \cup {i}
         /\ \A j \in Emplace(p, i) : Proper(j)
         /\ \A j, k \in Emplace(p, i) :
              j # k => j.high + 1 < k.low \/ k.high + 1 < j.low
<1>1. ASSUME NEW j \in p PROVE ~Equal(i, j)
  <2>1. /\ j.low \in Int /\ j.high \in Int /\ j.low <= j.high
        /\ i.low \in Int /\ i.high \in Int /\ i.low <= i.high
    BY AllocatorAssumption DEF Proper, Values
  <2>2. j.high + 1 < i.low \/ i.high + 1 < j.low
    OBVIOUS
  <2> QED
    BY <2>1, <2>2 DEF Equal, Before
<1>2. Emplace(p, i) = p \cup {i}
  BY <1>1 DEF Emplace
<1> QED
  BY <1>2

\* The one interval that an allocator starts with is well-formed.
LEMMA InitIInv == Init => IInv
<1> SUFFICES ASSUME Init PROVE IInv
  OBVIOUS
<1>1. Lowest \in Values /\ Highest \in Values /\ Lowest <= Highest
  BY AllocatorAssumption DEF Values
<1>2. TypeOK
  BY <1>1 DEF Init, TypeOK, Interval
<1>3. Maximal
  BY DEF Init, Maximal
<1> QED
  BY <1>2, <1>3 DEF IInv

\* The intervals left when some are taken out.
LEMMA SubPool ==
  ASSUME IInv, NEW p, p \subseteq pool
  PROVE  /\ \A j \in p : Proper(j)
         /\ \A j, k \in p : j # k => j.high + 1 < k.low \/ k.high + 1 < j.low
<1>1. \A j \in p : Proper(j)
  BY ProperInPool DEF IInv
<1> QED
  BY <1>1 DEF IInv, Maximal

\* What a step has to establish: the invariant, said of the new pool.
LEMMA IInvFromPool ==
  ASSUME \A j \in pool' : Proper(j),
         \A j, k \in pool' : j # k => j.high + 1 < k.low \/ k.high + 1 < j.low,
         got' \subseteq Values
  PROVE  IInv'
  BY DEF IInv, TypeOK, Maximal, Proper

\* LeftOf and RightOf are single intervals at most.
LEMMA OneNeighbour ==
  ASSUME IInv, NEW v \in Values
  PROVE  /\ \A i, j \in LeftOf(v) : i = j
         /\ \A i, j \in RightOf(v) : i = j
<1>1. ASSUME NEW i \in pool, NEW j \in pool, i.low <= j.low, j.low <= i.low
      PROVE  i = j
  <2>1. Proper(i) /\ i.low \in Int /\ i.high \in Int /\ Proper(j) /\ j.low \in Int /\ j.high \in Int
    BY ProperInPool DEF IInv
  <2>2. i # j => i.high + 1 < j.low \/ j.high + 1 < i.low
    BY DEF IInv, Maximal
  <2> QED
    BY <1>1, <2>1, <2>2 DEF Proper
<1>2. ASSUME NEW i \in LeftOf(v), NEW j \in LeftOf(v) PROVE i = j
  BY <1>1 DEF LeftOf
<1>3. ASSUME NEW i \in RightOf(v), NEW j \in RightOf(v) PROVE i = j
  BY <1>1 DEF RightOf
<1> QED
  BY <1>2, <1>3

\* The neighbours that deallocate joins with v.
JoinLeft(v) == {i \in LeftOf(v) : Inc(i.high) = v}
JoinRight(v) == {i \in RightOf(v) : Inc(v) = i.low}

\* What the joined interval looks like on its left and on its right.
LEMMA Joined ==
  ASSUME Promoted, IInv, NEW v \in Values
  PROVE  LET new == Merged(v, JoinLeft(v), JoinRight(v))
         IN /\ new = Interval(new.low, new.high)
            /\ \/ JoinLeft(v) = {} /\ new.low = v
               \/ \E k \in pool : /\ JoinLeft(v) = {k} /\ k.high + 1 = v
                                 /\ new.low = k.low
            /\ \/ JoinRight(v) = {} /\ new.high = v
               \/ \E k \in pool : /\ JoinRight(v) = {k} /\ v + 1 = k.low
                                 /\ new.high = k.high
<1> DEFINE l == JoinLeft(v)
           r == JoinRight(v)
           new == Merged(v, l, r)
<1>1. l = {} \/ \E k \in pool : l = {k} /\ k.high + 1 = v
  <2> SUFFICES ASSUME l # {} PROVE \E k \in pool : l = {k} /\ k.high + 1 = v
    OBVIOUS
  <2>1. PICK k : k \in l
    OBVIOUS
  <2>2. k \in pool /\ k \in LeftOf(v) /\ Inc(k.high) = v
    BY <2>1 DEF JoinLeft, LeftOf
  <2>3. k.high \in Values
    BY <2>2, ProperInPool DEF IInv, Proper
  <2>4. k.high + 1 = v
    BY <2>2, <2>3, IncIsSuccessor
  <2>5. l = {k}
    BY <2>1, <2>2, OneNeighbour DEF JoinLeft
  <2> QED
    BY <2>2, <2>4, <2>5
<1>2. r = {} \/ \E k \in pool : r = {k} /\ v + 1 = k.low
  <2> SUFFICES ASSUME r # {} PROVE \E k \in pool : r = {k} /\ v + 1 = k.low
    OBVIOUS
  <2>1. PICK k : k \in r
    OBVIOUS
  <2>2. k \in pool /\ k \in RightOf(v) /\ v + 1 = k.low
    BY <2>1, IncIsSuccessor DEF JoinRight, RightOf
  <2>3. r = {k}
    BY <2>1, <2>2, OneNeighbour DEF JoinRight
  <2> QED
    BY <2>2, <2>3
<1>3. /\ new.low = IF l = {} THEN v ELSE (CHOOSE i \in l : TRUE).low
      /\ new.high = IF r = {} THEN v ELSE (CHOOSE i \in r : TRUE).high
      /\ new = Interval(new.low, new.high)
  BY DEF Merged, Interval
<1>4. ASSUME NEW k, l = {k} PROVE (CHOOSE i \in l : TRUE) = k
  BY <1>4
<1>5. ASSUME NEW k, r = {k} PROVE (CHOOSE i \in r : TRUE) = k
  BY <1>5
<1> HIDE DEF l, r, new
<1>6. \/ l = {} /\ new.low = v
      \/ \E k \in pool : l = {k} /\ k.high + 1 = v /\ new.low = k.low
  <2>1. CASE l = {}
    BY <1>3, <2>1
  <2>2. ASSUME NEW k \in pool, l = {k}, k.high + 1 = v PROVE l = {k} /\ k.high + 1 = v /\ new.low = k.low
    BY <1>3, <1>4, <2>2
  <2> QED
    BY <1>1, <2>1, <2>2
<1>7. \/ r = {} /\ new.high = v
      \/ \E k \in pool : r = {k} /\ v + 1 = k.low /\ new.high = k.high
  <2>1. CASE r = {}
    BY <1>3, <2>1
  <2>2. ASSUME NEW k \in pool, r = {k}, v + 1 = k.low PROVE r = {k} /\ v + 1 = k.low /\ new.high = k.high
    BY <1>3, <1>5, <2>2
  <2> QED
    BY <1>2, <2>1, <2>2
<1> QED
  BY <1>3, <1>6, <1>7 DEF l, r, new

\* Releasing a value that is free changes nothing: it has no neighbour to join, and
\* the container already holds an interval equal to it.
LEMMA DeallocateFree ==
  ASSUME Promoted, IInv, NEW v \in Values, v \in FreeValues, Deallocate(v)
  PROVE  pool' = pool
<1> DEFINE new == Merged(v, JoinLeft(v), JoinRight(v))
<1>1. PICK i \in pool : i.low <= v /\ v <= i.high
  BY DEF FreeValues
<1>2. v \in Int /\ i.low \in Int /\ i.high \in Int
  BY ProperInPool, AllocatorAssumption DEF IInv, Values
<1>3. ASSUME NEW k \in pool
      PROVE  /\ k.low \in Int /\ k.high \in Int /\ k.low <= k.high
             /\ k # i => i.high + 1 < k.low \/ k.high + 1 < i.low
  BY ProperInPool DEF IInv, Maximal, Proper
<1>4. JoinLeft(v) = {}
  <2> SUFFICES ASSUME NEW k \in pool, JoinLeft(v) = {k}, k.high + 1 = v PROVE FALSE
    BY Joined
  <2>1. k.low <= v /\ i.low <= k.low
    BY <1>1 DEF JoinLeft, LeftOf
  <2> QED
    BY <1>1, <1>2, <1>3, <2>1
<1>5. JoinRight(v) = {}
  <2> SUFFICES ASSUME NEW k \in pool, JoinRight(v) = {k}, v + 1 = k.low PROVE FALSE
    BY Joined
  <2> QED
    BY <1>1, <1>2, <1>3
<1>6. new.low = v /\ new.high = v
  BY <1>4, <1>5, Joined
<1>7. Equal(new, i)
  BY <1>1, <1>2, <1>3, <1>6 DEF Equal, Before
<1>8. pool' = Emplace(pool \ (JoinLeft(v) \cup JoinRight(v)), new)
  BY DEF Deallocate, JoinLeft, JoinRight
<1>9. pool' = Emplace(pool, new)
  BY <1>4, <1>5, <1>8
<1> QED
  BY <1>7, <1>9 DEF Emplace

\* The joined interval keeps its distance from the intervals that were not joined.
LEMMA JoinedApart ==
  ASSUME Promoted, IInv, NEW v \in Values, v \notin FreeValues,
         NEW j \in pool, j \notin JoinLeft(v), j \notin JoinRight(v)
  PROVE  LET new == Merged(v, JoinLeft(v), JoinRight(v))
         IN  j.high + 1 < new.low \/ new.high + 1 < j.low
<1> DEFINE new == Merged(v, JoinLeft(v), JoinRight(v))
<1>1. v \in Int
  BY AllocatorAssumption DEF Values
<1>2. ASSUME NEW k \in pool
      PROVE  /\ k.low \in Int /\ k.high \in Int /\ k.low <= k.high
             /\ k.low \in Values /\ k.high \in Values
             /\ k # j => j.high + 1 < k.low \/ k.high + 1 < j.low
  BY ProperInPool DEF IInv, Maximal, Proper
<1>3. j.high < v \/ v < j.low
  BY <1>1, <1>2 DEF FreeValues
<1>4. CASE j.high < v
  <2>1. CASE JoinLeft(v) = {} /\ new.low = v
    <3>1. j.high + 1 # v
      <4> SUFFICES ASSUME j.high + 1 = v PROVE FALSE
        OBVIOUS
      <4>1. \A m \in pool : m.low <= v => m.low <= j.low
        <5> SUFFICES ASSUME NEW m \in pool, m.low <= v PROVE m.low <= j.low
          OBVIOUS
        <5> QED
          BY <1>1, <1>2
      <4>2. j \in LeftOf(v)
        BY <1>1, <1>2, <1>4, <4>1 DEF LeftOf
      <4>3. Inc(j.high) = v
        BY <1>2, IncIsSuccessor
      <4> QED
        BY <4>2, <4>3 DEF JoinLeft
    <3> QED
      BY <1>1, <1>2, <1>4, <2>1, <3>1
  <2>2. ASSUME NEW k \in pool, JoinLeft(v) = {k}, k.high + 1 = v, new.low = k.low
        PROVE  j.high + 1 < new.low
    BY <1>1, <1>2, <1>4, <2>2
  <2> HIDE DEF new
  <2>3. \/ JoinLeft(v) = {} /\ new.low = v
        \/ \E k \in pool : /\ JoinLeft(v) = {k} /\ k.high + 1 = v
                          /\ new.low = k.low
    BY Joined DEF new
  <2> QED
    BY <2>1, <2>2, <2>3 DEF new
<1>5. CASE v < j.low
  <2>1. CASE JoinRight(v) = {} /\ new.high = v
    <3>1. v + 1 # j.low
      <4> SUFFICES ASSUME v + 1 = j.low PROVE FALSE
        OBVIOUS
      <4>1. \A m \in pool : v < m.low => j.low <= m.low
        BY <1>1, <1>2
      <4>2. j \in RightOf(v)
        BY <1>5, <4>1 DEF RightOf
      <4>3. Inc(v) = j.low
        BY IncIsSuccessor
      <4> QED
        BY <4>2, <4>3 DEF JoinRight
    <3> QED
      BY <1>1, <1>2, <1>5, <2>1, <3>1
  <2>2. ASSUME NEW k \in pool, JoinRight(v) = {k}, v + 1 = k.low, new.high = k.high
        PROVE  new.high + 1 < j.low
    BY <1>1, <1>2, <1>5, <2>2
  <2> HIDE DEF new
  <2>3. \/ JoinRight(v) = {} /\ new.high = v
        \/ \E k \in pool : /\ JoinRight(v) = {k} /\ v + 1 = k.low
                          /\ new.high = k.high
    BY Joined DEF new
  <2> QED
    BY <2>1, <2>2, <2>3 DEF new
<1> QED
  BY <1>3, <1>4, <1>5

\* Releasing a value in use: the joined interval takes the place of the neighbours it
\* was joined with, and stands for their values and v.
LEMMA DeallocateUsed ==
  ASSUME Promoted, IInv, NEW v \in Values, v \notin FreeValues, Deallocate(v)
  PROVE  IInv' /\ FreeValues' = FreeValues \cup {v}
<1> DEFINE l == JoinLeft(v)
           r == JoinRight(v)
           new == Merged(v, l, r)
           p == pool \ (l \cup r)
<1>1. v \in Int
  BY AllocatorAssumption DEF Values
<1>2. ASSUME NEW k \in pool
      PROVE  /\ k.low \in Int /\ k.high \in Int /\ k.low <= k.high
             /\ k.low \in Values /\ k.high \in Values
  BY ProperInPool DEF IInv, Proper
<1>3. /\ new = Interval(new.low, new.high)
      /\ \/ l = {} /\ new.low = v
         \/ \E k \in pool : l = {k} /\ k.high + 1 = v /\ new.low = k.low
      /\ \/ r = {} /\ new.high = v
         \/ \E k \in pool : r = {k} /\ v + 1 = k.low /\ new.high = k.high
  BY Joined
<1>4. \A j \in p : j.high + 1 < new.low \/ new.high + 1 < j.low
  BY JoinedApart
<1>5. pool' = Emplace(p, new) /\ got' = {}
  BY DEF Deallocate, JoinLeft, JoinRight
<1>6. l \subseteq pool /\ r \subseteq pool
  BY DEF JoinLeft, JoinRight, LeftOf, RightOf
<1> HIDE DEF l, r, new, p
<1>7. new.low \in Values /\ new.low \in Int /\ new.low <= v
  BY <1>1, <1>2, <1>3
<1>8. new.high \in Values /\ new.high \in Int /\ v <= new.high
  BY <1>1, <1>2, <1>3
<1>9. Proper(new)
  BY <1>1, <1>3, <1>7, <1>8 DEF Proper
<1>10. /\ \A j \in p : Proper(j)
       /\ \A j, k \in p : j # k => j.high + 1 < k.low \/ k.high + 1 < j.low
  BY SubPool DEF p
<1>11. /\ Emplace(p, new) = p \cup {new}
       /\ \A j \in Emplace(p, new) : Proper(j)
       /\ \A j, k \in Emplace(p, new) :
            j # k => j.high + 1 < k.low \/ k.high + 1 < j.low
  BY <1>4, <1>9, <1>10, AddInterval
<1>12. IInv'
  BY <1>5, <1>11, IInvFromPool
<1>13. ASSUME NEW w \in Values
       PROVE  /\ \A k \in l \cup r : k.low <= w /\ w <= k.high => new.low <= w /\ w <= new.high
              /\ new.low <= w /\ w <= new.high =>
                   w = v \/ \E k \in l \cup r : k.low <= w /\ w <= k.high
  <2>1. w \in Int
    BY AllocatorAssumption DEF Values
  <2>2. ASSUME NEW k \in l, k.low <= w, w <= k.high PROVE new.low <= w /\ w <= new.high
    BY <1>1, <1>2, <1>3, <1>8, <2>1, <2>2
  <2>3. ASSUME NEW k \in r, k.low <= w, w <= k.high PROVE new.low <= w /\ w <= new.high
    BY <1>1, <1>2, <1>3, <1>7, <2>1, <2>3
  <2>4. ASSUME new.low <= w, w < v PROVE \E k \in l : k.low <= w /\ w <= k.high
    BY <1>1, <1>2, <1>3, <2>1, <2>4
  <2>5. ASSUME w <= new.high, v < w PROVE \E k \in r : k.low <= w /\ w <= k.high
    BY <1>1, <1>2, <1>3, <2>1, <2>5
  <2> QED
    BY <1>1, <2>1, <2>2, <2>3, <2>4, <2>5
<1>14. ASSUME NEW w \in Values
       PROVE  (\E i \in pool' : i.low <= w /\ w <= i.high)
                <=> (\E i \in pool : i.low <= w /\ w <= i.high) \/ w = v
  <2>1. pool' = p \cup {new} /\ pool = p \cup (l \cup r)
    BY <1>5, <1>6, <1>11 DEF p
  <2>2. new.low <= v /\ v <= new.high
    BY <1>7, <1>8
  <2> QED
    BY <1>13, <2>1, <2>2
<1>15. FreeValues' = FreeValues \cup {v}
  BY <1>14 DEF FreeValues
<1> QED
  BY <1>12, <1>15

\* deallocate() adds its value to the free ones, whether it was in use or not.
LEMMA DeallocateIInv ==
  ASSUME Promoted, IInv, NEW v \in Values, Deallocate(v)
  PROVE  IInv' /\ FreeValues' = FreeValues \cup {v}
<1>1. CASE v \in FreeValues
  <2>1. pool' = pool /\ got' = {}
    BY <1>1, DeallocateFree DEF Deallocate
  <2>2. FreeValues' = FreeValues
    BY <2>1 DEF FreeValues
  <2>3. IInv'
    BY <2>1 DEF IInv, TypeOK, Maximal
  <2> QED
    BY <1>1, <2>2, <2>3
<1>2. CASE v \notin FreeValues
  BY <1>2, DeallocateUsed
<1> QED
  BY <1>1, <1>2

\* find(v) gives the interval that holds v, when one does.
LEMMA FindHolds ==
  ASSUME IInv, NEW v \in Values
  PROVE  Find(v) = {i \in pool : i.low <= v /\ v <= i.high}
<1>1. v \in Int
  BY AllocatorAssumption DEF Values
<1>2. ASSUME NEW i \in pool
      PROVE  Equal(i, Interval(v, v)) <=> i.low <= v /\ v <= i.high
  <2>1. i.low \in Int /\ i.high \in Int /\ i.low <= i.high
    BY ProperInPool DEF IInv, Proper
  <2> QED
    BY <1>1, <2>1, IntervalProper DEF Equal, Before, Interval
<1> QED
  BY <1>2 DEF Find

\* use(v) splits the interval that holds v.
LEMMA UseSplits ==
  ASSUME Promoted, IInv, NEW v \in Values, NEW iv \in Find(v),
         pool' = Above(Below(pool \ {iv}, iv, v), iv, v), got' = {v}
  PROVE  IInv' /\ v \in FreeValues /\ FreeValues' = FreeValues \ {v}
<1> DEFINE p == pool \ {iv}
           lower == Interval(iv.low, v - 1)
           upper == Interval(v + 1, iv.high)
           q == Below(p, iv, v)
<1>1. iv \in pool /\ iv.low <= v /\ v <= iv.high
  BY FindHolds
<1>2. v \in Int /\ v + 1 \in Int /\ v - 1 \in Int /\ Lowest \in Int /\ Highest \in Int
  BY AllocatorAssumption DEF Values
<1>3. ASSUME NEW k \in pool
      PROVE  /\ k.low \in Int /\ k.high \in Int /\ k.low <= k.high
             /\ k.low \in Values /\ k.high \in Values
             /\ k # iv => iv.high + 1 < k.low \/ k.high + 1 < iv.low
  BY <1>1, ProperInPool DEF IInv, Maximal, Proper
<1>4. iv.low < v => /\ Proper(lower) /\ lower.low = iv.low /\ lower.high = v - 1
  <2>1. iv.low < v => v - 1 \in Values /\ iv.low <= v - 1
    BY <1>1, <1>2, <1>3 DEF Values
  <2> QED
    BY <1>1, <1>3, <2>1, IntervalProper
<1>5. v + 1 <= iv.high => /\ Proper(upper) /\ upper.low = v + 1 /\ upper.high = iv.high
  <2>1. v + 1 <= iv.high => v + 1 \in Values
    BY <1>1, <1>2, <1>3 DEF Values
  <2> QED
    BY <1>1, <1>3, <2>1, IntervalProper
<1>6. /\ \A j \in p : Proper(j)
      /\ \A j, k \in p : j # k => j.high + 1 < k.low \/ k.high + 1 < j.low
  BY SubPool
<1>7. Inc(v) = v + 1
  BY IncIsSuccessor
<1>8. /\ q = IF iv.low < v THEN Emplace(p, lower) ELSE p
      /\ pool' = IF v + 1 <= iv.high THEN Emplace(q, upper) ELSE q
  BY <1>7 DEF Below, Above
<1>9. \A j \in p : iv.low < v => j.high + 1 < lower.low \/ lower.high + 1 < j.low
  BY <1>1, <1>2, <1>3, <1>4
<1>10. \A j \in p : v + 1 <= iv.high => j.high + 1 < upper.low \/ upper.high + 1 < j.low
  BY <1>1, <1>2, <1>3, <1>5
<1>11. iv.low < v /\ v + 1 <= iv.high => lower.high + 1 < upper.low
  BY <1>2, <1>4, <1>5
<1>12. pool = p \cup {iv}
  BY <1>1
<1>13. \A j \in p : iv.high + 1 < j.low \/ j.high + 1 < iv.low
  BY <1>3
<1>14. \A j \in p : j.low \in Int /\ j.high \in Int
  BY <1>3
<1> HIDE DEF p, lower, upper, q
<1>15. /\ q = p \cup (IF iv.low < v THEN {lower} ELSE {})
       /\ \A j \in q : Proper(j)
       /\ \A j, k \in q : j # k => j.high + 1 < k.low \/ k.high + 1 < j.low
  <2>1. CASE iv.low < v
    <3>1. /\ Emplace(p, lower) = p \cup {lower}
          /\ \A j \in Emplace(p, lower) : Proper(j)
          /\ \A j, k \in Emplace(p, lower) :
               j # k => j.high + 1 < k.low \/ k.high + 1 < j.low
      BY <1>4, <1>6, <1>9, <2>1, AddInterval
    <3> QED
      BY <1>8, <2>1, <3>1
  <2>2. CASE ~(iv.low < v)
    BY <1>6, <1>8, <2>2
  <2> QED
    BY <2>1, <2>2
<1>16. /\ pool' = q \cup (IF v + 1 <= iv.high THEN {upper} ELSE {})
       /\ \A j \in pool' : Proper(j)
       /\ \A j, k \in pool' : j # k => j.high + 1 < k.low \/ k.high + 1 < j.low
  <2>1. CASE v + 1 <= iv.high
    <3>1. \A j \in q : j.high + 1 < upper.low \/ upper.high + 1 < j.low
      BY <1>10, <1>11, <1>15, <2>1
    <3>2. /\ Emplace(q, upper) = q \cup {upper}
          /\ \A j \in Emplace(q, upper) : Proper(j)
          /\ \A j, k \in Emplace(q, upper) :
               j # k => j.high + 1 < k.low \/ k.high + 1 < j.low
      BY <1>5, <1>15, <2>1, <3>1, AddInterval
    <3> QED
      BY <1>8, <2>1, <3>2
  <2>2. CASE ~(v + 1 <= iv.high)
    BY <1>8, <1>15, <2>2
  <2> QED
    BY <2>1, <2>2
<1>17. IInv'
  BY <1>16, IInvFromPool
<1>18. ASSUME NEW w \in Values
       PROVE  (\E i \in pool' : i.low <= w /\ w <= i.high)
                <=> (\E i \in pool : i.low <= w /\ w <= i.high) /\ w # v
  <2>1. w \in Int
    BY AllocatorAssumption DEF Values
  <2>2. iv.low \in Int /\ iv.high \in Int
    BY <1>1, <1>3
  <2>3. ASSUME NEW i \in p, i.low <= w, w <= i.high PROVE w # v
    BY <1>1, <1>2, <1>13, <1>14, <2>1, <2>2, <2>3
  <2>4. ASSUME iv.low < v
        PROVE  lower.low <= w /\ w <= lower.high <=> iv.low <= w /\ w < v
    BY <1>2, <1>4, <2>1, <2>4
  <2>5. ASSUME v + 1 <= iv.high
        PROVE  upper.low <= w /\ w <= upper.high <=> v < w /\ w <= iv.high
    BY <1>2, <1>5, <2>1, <2>5
  <2>6. ASSUME NEW i \in pool', i.low <= w, w <= i.high
        PROVE  (\E k \in pool : k.low <= w /\ w <= k.high) /\ w # v
    <3>1. CASE i \in p
      BY <1>12, <2>3, <2>6, <3>1
    <3>2. CASE i = lower /\ iv.low < v
      BY <1>1, <1>2, <2>1, <2>2, <2>4, <2>6, <3>2
    <3>3. CASE i = upper /\ v + 1 <= iv.high
      BY <1>1, <1>2, <2>1, <2>2, <2>5, <2>6, <3>3
    <3> QED
      BY <1>15, <1>16, <2>6, <3>1, <3>2, <3>3
  <2>7. ASSUME NEW i \in pool, i.low <= w, w <= i.high, w # v
        PROVE  \E k \in pool' : k.low <= w /\ w <= k.high
    <3>1. CASE i \in p
      BY <1>15, <1>16, <2>7, <3>1
    <3>2. CASE i = iv /\ w < v
      <4>1. iv.low <= w /\ w < v
        BY <2>7, <3>2
      <4>2. iv.low < v
        BY <1>2, <2>1, <2>2, <4>1
      <4>3. lower \in pool'
        BY <1>15, <1>16, <4>2
      <4> QED
        BY <2>4, <4>1, <4>2, <4>3
    <3>3. CASE i = iv /\ v < w
      <4>1. v < w /\ w <= iv.high
        BY <2>7, <3>3
      <4>2. v + 1 <= iv.high
        BY <1>2, <2>1, <2>2, <4>1
      <4>3. upper \in pool'
        BY <1>16, <4>2
      <4> QED
        BY <2>5, <4>1, <4>2, <4>3
    <3>4. i \in p \/ i = iv
      BY <1>12
    <3>5. w < v \/ v < w
      BY <1>2, <2>1, <2>7
    <3> QED
      BY <3>1, <3>2, <3>3, <3>4, <3>5
  <2> QED
    BY <2>6, <2>7
<1>19. FreeValues' = FreeValues \ {v}
  BY <1>18 DEF FreeValues
<1>20. v \in FreeValues
  BY <1>1 DEF FreeValues
<1> QED
  BY <1>17, <1>19, <1>20

\* use() takes its value out of the free ones, or finds it in use.
LEMMA UseIInv ==
  ASSUME Promoted, IInv, NEW v \in Values, Use(v)
  PROVE  /\ IInv'
         /\ FreeValues' = FreeValues \ {v}
         /\ got' = {v} \cap FreeValues
<1>1. ASSUME NEW iv \in Find(v), pool' = Above(Below(pool \ {iv}, iv, v), iv, v), got' = {v}
      PROVE  IInv' /\ FreeValues' = FreeValues \ {v} /\ got' = {v} \cap FreeValues
  BY <1>1, UseSplits
<1>2. CASE Find(v) = {} /\ got' = {} /\ UNCHANGED pool
  <2>1. v \notin FreeValues
    BY <1>2, FindHolds DEF FreeValues
  <2>2. FreeValues' = FreeValues
    BY <1>2 DEF FreeValues
  <2>3. IInv'
    BY <1>2 DEF IInv, TypeOK, Maximal
  <2> QED
    BY <1>2, <2>1, <2>2, <2>3
<1> QED
  BY <1>1, <1>2 DEF Use

\* clear() brings the allocator back to its first state.
LEMMA ClearIInv ==
  ASSUME Clear
  PROVE  IInv' /\ FreeValues' = Values /\ got' = {}
<1>1. Lowest \in Values /\ Highest \in Values /\ Lowest <= Highest
  BY AllocatorAssumption DEF Values
<1>2. pool' = {Interval(Lowest, Highest)} /\ got' = {}
  BY DEF Clear
<1>3. TypeOK'
  BY <1>1, <1>2 DEF TypeOK, Interval
<1>4. Maximal'
  BY <1>2 DEF Maximal
<1>5. FreeValues' = Values
  BY <1>2, AllocatorAssumption DEF FreeValues, Interval, Values
<1> QED
  BY <1>2, <1>3, <1>4, <1>5 DEF IInv

\* allocate() takes the lowest of the values the intervals stand for: it is use() of
\* the low end of the first interval.
LEMMA AllocateTakes ==
  ASSUME Promoted, IInv, Allocate
  PROVE  /\ IInv'
         /\ \/ \E v \in FreeValues : /\ \A w \in FreeValues : v <= w
                                   /\ got' = {v}
                                   /\ FreeValues' = FreeValues \ {v}
            \/ FreeValues = {} /\ got' = {} /\ FreeValues' = FreeValues
<1>1. CASE pool = {} /\ got' = {} /\ UNCHANGED pool
  <2>1. FreeValues = {} /\ FreeValues' = FreeValues
    BY <1>1 DEF FreeValues
  <2>2. IInv'
    BY <1>1, IInvFromPool
  <2> QED
    BY <1>1, <2>1, <2>2
<1>2. ASSUME NEW it \in pool, \A j \in pool : it.low <= j.low, got' = {it.low},
             pool' = IF Inc(it.low) <= it.high
                     THEN Emplace(pool \ {it}, Interval(Inc(it.low), it.high))
                     ELSE pool \ {it}
      PROVE  /\ IInv'
             /\ \E v \in FreeValues : /\ \A w \in FreeValues : v <= w
                                    /\ got' = {v}
                                    /\ FreeValues' = FreeValues \ {v}
  <2> DEFINE v == it.low
  <2>1. /\ it.low \in Values /\ it.low \in Int /\ it.high \in Int /\ it.low <= it.high
        /\ v \in Values
    BY ProperInPool DEF IInv, Proper
  <2>2. Below(pool \ {it}, it, v) = pool \ {it}
    BY <2>1 DEF Below
  <2>3. pool' = Above(Below(pool \ {it}, it, v), it, v)
    BY <1>2, <2>2 DEF Above
  <2>4. it \in Find(v)
    BY <2>1, FindHolds
  <2>5. IInv' /\ v \in FreeValues /\ FreeValues' = FreeValues \ {v}
    BY <1>2, <2>1, <2>3, <2>4, UseSplits
  <2>6. ASSUME NEW w \in FreeValues PROVE v <= w
    <3>1. PICK j \in pool : j.low <= w
      BY DEF FreeValues
    <3>2. w \in Int /\ j.low \in Int
      BY ProperInPool, AllocatorAssumption DEF IInv, FreeValues, Values
    <3> QED
      BY <1>2, <2>1, <3>1, <3>2
  <2> QED
    BY <1>2, <2>5, <2>6
<1> QED
  BY <1>1, <1>2 DEF Allocate

\* One step of the allocator preserves the invariant and is a step of the plain set
\* of free values.
LEMMA StepIInv ==
  ASSUME Promoted, IInv, [Next]_vars
  PROVE  IInv' /\ [Abstract!IdNext]_(Abstract!idVars)
<1>1. CASE Allocate
  <2>1. Abstract!Take
    BY <1>1, AllocateTakes DEF Abstract!Take
  <2> QED
    BY <1>1, <2>1, AllocateTakes DEF Abstract!IdNext
<1>2. ASSUME NEW v \in Values, Deallocate(v)
      PROVE  IInv' /\ [Abstract!IdNext]_(Abstract!idVars)
  <2>1. Abstract!Give(v)
    BY <1>2, DeallocateIInv DEF Abstract!Give, Deallocate
  <2> QED
    BY <1>2, <2>1, DeallocateIInv DEF Abstract!IdNext, Values, Abstract!Values
<1>3. ASSUME NEW v \in Values, Use(v)
      PROVE  IInv' /\ [Abstract!IdNext]_(Abstract!idVars)
  <2>1. Abstract!Claim(v)
    BY <1>3, UseIInv DEF Abstract!Claim
  <2> QED
    BY <1>3, <2>1, UseIInv DEF Abstract!IdNext, Values, Abstract!Values
<1>4. CASE Clear
  <2>1. Abstract!Reset
    BY <1>4, ClearIInv DEF Abstract!Reset, Values, Abstract!Values
  <2> QED
    BY <1>4, <2>1, ClearIInv DEF Abstract!IdNext
<1>5. CASE UNCHANGED vars
  <2>1. pool' = pool /\ got' = got
    BY <1>5 DEF vars
  <2>2. FreeValues' = FreeValues
    BY <2>1 DEF FreeValues
  <2>3. IInv'
    BY <2>1 DEF IInv, TypeOK, Maximal
  <2> QED
    BY <2>1, <2>2, <2>3 DEF Abstract!idVars
<1> QED
  BY <1>1, <1>2, <1>3, <1>4, <1>5 DEF Next

\* The first state is the one of the plain set: every value is free.
LEMMA InitRefines == Init => Abstract!IdInit
<1> SUFFICES ASSUME Init PROVE Abstract!IdInit
  OBVIOUS
<1>1. FreeValues = Values
  BY AllocatorAssumption DEF Init, FreeValues, Interval, Values
<1> QED
  BY <1>1 DEF Init, Abstract!IdInit, Values, Abstract!Values

\* The intervals answer is_used() and first_vacant() for the set they stand for.
LEMMA IInvQueries == IInv => QueriesAgree
<1> SUFFICES ASSUME IInv PROVE QueriesAgree
  OBVIOUS
<1>1. ASSUME NEW v \in Values PROVE IsUsed(v) <=> v \notin FreeValues
  BY FindHolds DEF IsUsed, FreeValues
<1>2. ASSUME NEW i \in pool PROVE i.low \in FreeValues /\ i.low \in Int
  BY ProperInPool DEF IInv, Proper, FreeValues
<1>3. ASSUME NEW w \in FreeValues PROVE w \in Int /\ \E j \in pool : j.low <= w
  BY AllocatorAssumption DEF FreeValues, Values
<1>4. ASSUME NEW v \in FirstVacant PROVE v \in FreeValues /\ \A w \in FreeValues : v <= w
  <2>1. PICK i \in pool : v = i.low /\ \A k \in pool : i.low <= k.low
    BY DEF FirstVacant
  <2> QED
    BY <1>2, <1>3, <2>1
<1>5. ASSUME NEW v \in FreeValues, \A w \in FreeValues : v <= w PROVE v \in FirstVacant
  <2>1. PICK i \in pool : i.low <= v
    BY <1>3
  <2>2. v = i.low
    BY <1>2, <1>3, <1>5, <2>1
  <2>3. \A k \in pool : i.low <= k.low
    BY <1>2, <1>5, <2>2
  <2> QED
    BY <2>2, <2>3 DEF FirstVacant
<1> QED
  BY <1>1, <1>4, <1>5 DEF QueriesAgree
-------------------------------------------------------------------------------
\* The inductive invariant holds in every reachable state.
THEOREM Invariance == ASSUME Promoted PROVE Spec => []IInv
<1>1. IInv /\ [Next]_vars => IInv'
  BY StepIInv
<1> QED
  BY <1>1, InitIInv, PTL DEF Spec

\* Every interval of the pool is non-empty and lies inside [lowest_, highest_], and
\* what allocate() and use() hand out does.
THEOREM TypeCorrect == ASSUME Promoted PROVE Spec => []TypeOK
<1>1. IInv => TypeOK
  BY DEF IInv
<1> QED
  BY <1>1, Invariance, PTL

\* No two intervals touch: deallocate() always joins what can be joined.
THEOREM IntervalsMaximal == ASSUME Promoted PROVE Spec => []Maximal
<1>1. IInv => Maximal
  BY DEF IInv
<1> QED
  BY <1>1, Invariance, PTL

\* is_used() and first_vacant() agree with what allocate() and use() would do.
THEOREM QueriesCorrect == ASSUME Promoted PROVE Spec => []QueriesAgree
  BY Invariance, IInvQueries, PTL

\* The interval container implements a plain set of free values: no value is given
\* to two callers, none is lost, and allocate() gives the lowest.
THEOREM Refinement == ASSUME Promoted PROVE Spec => ImplementsIdPool
<1>1. IInv /\ [Next]_vars => [Abstract!IdNext]_(Abstract!idVars)
  BY StepIInv
<1> QED
  BY <1>1, InitRefines, Invariance, PTL DEF Spec, ImplementsIdPool, Abstract!IdSpec
===============================================================================
