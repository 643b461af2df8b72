---------------------------- MODULE ValueAllocator ----------------------------
(***************************************************************************)
(* util/value_allocator.hpp, and util/packet_id_manager.hpp that forwards  *)
(* to it: the free values are kept as intervals in an ordered unique       *)
(* container whose comparator treats overlapping intervals as equal.       *)
(***************************************************************************)
EXTENDS Integers

CONSTANTS
  Lowest, Highest,    \* constructor arguments; 1 and numeric_limits::max() for packet ids
  Modulus             \* v + 1 is computed modulo Modulus: 2^32 for the 4 byte ids,
                      \* larger than Highest + 1 for the types that promote to int

ASSUME AllocatorAssumption ==
  /\ Lowest \in Nat /\ Highest \in Nat /\ Lowest <= Highest
  /\ Modulus \in Nat /\ Highest < Modulus

VARIABLES
  pool,    \* pool_, the set of value_intervals
  got      \* what the latest call returned: {v} for a value or use() = true, else {}

vars == <<pool, got>>

Values == Lowest..Highest
Interval(l, h) == [low |-> l, high |-> h]
Inc(v) == (v + 1) % Modulus

\* The comparator calls two intervals equal when neither lies before the other.
Before(i, j) == i.low < j.low /\ i.high < j.low
Equal(i, j) == ~Before(i, j) /\ ~Before(j, i)

\* emplace: dropped when the container already holds an equal interval.
Emplace(p, i) == IF \E j \in p : Equal(i, j) THEN p ELSE p \cup {i}
Find(v) == {i \in pool : Equal(i, Interval(v, v))}

\* The neighbours of v: upper_bound(v), and the interval before it.
RightOf(v) == {i \in pool : /\ v < i.low
                            /\ \A j \in pool : v < j.low => i.low <= j.low}
LeftOf(v) == {i \in pool : /\ i.low <= v
                           /\ \A j \in pool : j.low <= v => j.low <= i.low}

IsUsed(v) == Find(v) = {}
FirstVacant == {i.low : i \in {j \in pool : \A k \in pool : j.low <= k.low}}
-------------------------------------------------------------------------------
Init == pool = {Interval(Lowest, Highest)} /\ got = {}

Allocate ==
  \/ \E it \in pool :
       /\ \A j \in pool : it.low <= j.low
       /\ got' = {it.low}
       /\ pool' = IF Inc(it.low) <= it.high
                  THEN Emplace(pool \ {it}, Interval(Inc(it.low), it.high))
                  ELSE pool \ {it}
  \/ pool = {} /\ got' = {} /\ UNCHANGED pool

\* Mutant of Merged: "concat both" that keeps the left interval's extension only.
MergedLeftOnly(v, l, r) ==
  Interval(IF l = {} THEN v ELSE (CHOOSE i \in l : TRUE).low,
           IF r = {} \/ l # {} THEN v ELSE (CHOOSE i \in r : TRUE).high)

\* The interval that replaces the joined neighbours l and r (sets of at most one).
Merged(v, l, r) ==
  Interval(IF l = {} THEN v ELSE (CHOOSE i \in l : TRUE).low,
           IF r = {} THEN v ELSE (CHOOSE i \in r : TRUE).high)

Deallocate(v) ==
  LET l == {i \in LeftOf(v) : Inc(i.high) = v}
      r == {i \in RightOf(v) : Inc(v) = i.low}
  IN /\ pool' = Emplace(pool \ (l \cup r), Merged(v, l, r))
     /\ got' = {}

\* The part of iv below value, and the one above it.
Below(p, iv, v) == IF iv.low < v THEN Emplace(p, Interval(iv.low, v - 1)) ELSE p
Above(p, iv, v) == IF Inc(v) <= iv.high THEN Emplace(p, Interval(Inc(v), iv.high)) ELSE p

Use(v) ==
  \/ \E iv \in Find(v) : /\ pool' = Above(Below(pool \ {iv}, iv, v), iv, v)
                         /\ got' = {v}
  \/ Find(v) = {} /\ got' = {} /\ UNCHANGED pool

Clear == pool' = {Interval(Lowest, Highest)} /\ got' = {}

Next == Allocate \/ (\E v \in Values : Deallocate(v) \/ Use(v)) \/ Clear

Spec == Init /\ [][Next]_vars
-------------------------------------------------------------------------------
\* Every interval is non-empty and inside [lowest_, highest_], and what a call
\* returned is one of the values the allocator was built with.
TypeOK ==
  /\ \A i \in pool : /\ i = Interval(i.low, i.high)
                     /\ i.low \in Values /\ i.high \in Values
                     /\ i.low <= i.high
  /\ got \subseteq Values

\* The intervals are pairwise disjoint and maximal: between two of them at least
\* one value is in use.  deallocate relies on it: it looks at the two neighbours
\* of a value only, and a value released twice must find no neighbour to join.
Maximal ==
  \A i, j \in pool : i # j => i.high + 1 < j.low \/ j.high + 1 < i.low

\* The set of values the intervals stand for.
FreeValues == {v \in Values : \E i \in pool : i.low <= v /\ v <= i.high}

\* is_used() and first_vacant() answer for the set the intervals stand for:
\* a value is reported vacant exactly when allocate() or use() would give it.
QueriesAgree ==
  /\ \A v \in Values : IsUsed(v) <=> v \notin FreeValues
  /\ FirstVacant = {v \in FreeValues : \A w \in FreeValues : v <= w}

Abstract == INSTANCE IdPool WITH free <- FreeValues

\* The interval bookkeeping implements a plain set of free values: no value is
\* handed out while somebody holds it, none is lost, allocate() gives the lowest.
ImplementsIdPool == Abstract!IdSpec

===============================================================================
