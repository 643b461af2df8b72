-------------------------- MODULE BrokerTopics_proofs --------------------------
(***************************************************************************)
(* The tree of topic filters is at every moment the tree of the handles    *)
(* that the sessions hold: a node is there when a subscription's filter    *)
(* goes through it, it counts those subscriptions, has a flag for each     *)
(* wildcard below it and holds the clients with a handle.  The search,     *)
(* level by level, leads to the nodes that fit the levels of a topic name, *)
(* hence to the filters that match it.                                     *)
(*                                                                         *)
(* The two maps of the rules hold, for a topic filter and a name, what a   *)
(* rule in the list says: the numbers of the rules need not be distinct.   *)
(*                                                                         *)
(* What a topic filter of a rule and a subscription's have in common is a  *)
(* statement about two sequences, proved for all of them.                  *)
(*                                                                         *)
(* The nodes of retained messages are those of the topics that have one;   *)
(* the search goes level by level, through lists of nodes.                 *)
(*                                                                         *)
(* The end of a session, the rules of the file, the turns of a publish and *)
(* the choice of nodes from a list are folds.  Each is the value of a      *)
(* recursive function; what it is at every set or number is shown by       *)
(* induction, with the set of those at which it is so.                     *)
(***************************************************************************)
EXTENDS BrokerTopics, SequenceTheorems, FiniteSetTheorems, WellFoundedInduction, TLAPS

--------------------------------------------------------------------------------
\* The list of rules and the two maps.

\* The entries of the map for a kind of rights are as a rule has them.
Backing(rules, k, names, type, entry) ==
  \E i \in DOMAIN rules :
    /\ k = <<k[1], k[2]>> /\ rules[i].filter = k[1] /\ k[2] \in rules[i][names]
    /\ entry = [type |-> rules[i][type], nr |-> rules[i].nr]

\* The rules are about topic filters, and both maps are backed by them.
Backed(a) ==
  /\ a.rules \in Seq(ToSet(a.rules))
  /\ \A i \in DOMAIN a.rules : IsFilter(a.rules[i].filter)
  /\ \A k \in DOMAIN a.sub : Backing(a.rules, k, "sub", "subType", a.sub[k])
  /\ \A k \in DOMAIN a.pub : Backing(a.rules, k, "pub", "pubType", a.pub[k])

\* The natural numbers are well-ordered.
LEMMA NaturalsWellFounded == IsWellFoundedOn({p \in Nat \X Nat : p[1] < p[2]}, Nat)
  BY NatLessThanWellFounded DEF OpToRel

\* A set of natural numbers that is not empty has a least member.
LEMMA LeastOf ==
  ASSUME NEW S \in SUBSET Nat, S # {}
  PROVE  \E i \in S : \A j \in S : i <= j
  <1> DEFINE R == {p \in Nat \X Nat : p[1] < p[2]}
  <1>1. IsWellFoundedOn(R, Nat)
    BY NaturalsWellFounded
  <1> HIDE DEF R
  <1>2. PICK i \in S : \A j \in S : ~(<<j, i>> \in R)
    BY <1>1, WFMin
  <1>3. ASSUME NEW j \in S PROVE i <= j
    <2>1. \A a, b \in Nat : a < b => <<a, b>> \in R
      BY DEF R
    <2>2. ~(j < i)
      BY <1>2, <2>1
    <2> QED BY <2>2
  <1> QED BY <1>3

\* A sequence whatever its elements are.
LEMMA OwnElements == ASSUME NEW S, NEW s \in Seq(S) PROVE s \in Seq(ToSet(s))
  BY DEF ToSet

\* What is left of a sequence without one element.
LEMMA Removing ==
  ASSUME NEW S, NEW s \in Seq(S), NEW i \in DOMAIN s
  PROVE  /\ RemoveAt(s, i) \in Seq(S)
         /\ \A j \in DOMAIN s \ {i} : \E k \in DOMAIN RemoveAt(s, i) : RemoveAt(s, i)[k] = s[j]
  <1>1. i \in 1..Len(s) /\ Len(s) \in Nat
    OBVIOUS
  <1> DEFINE a == SubSeq(s, 1, i - 1)
             b == SubSeq(s, i + 1, Len(s))
  <1>2. a \in Seq(S) /\ Len(a) = i - 1 /\ \A k \in 1..(i - 1) : a[k] = s[k]
    BY <1>1
  <1>3. b \in Seq(S) /\ Len(b) = Len(s) - i /\ \A k \in 1..(Len(s) - i) : b[k] = s[i + k]
    BY <1>1
  <1>4. RemoveAt(s, i) = a \o b
    BY DEF RemoveAt
  <1> HIDE DEF a, b
  <1>5. a \o b \in Seq(S) /\ Len(a \o b) = Len(s) - 1
    BY <1>1, <1>2, <1>3
  <1>6. ASSUME NEW j \in DOMAIN s \ {i} PROVE \E k \in DOMAIN (a \o b) : (a \o b)[k] = s[j]
    <2>1. CASE j < i
      <3>1. j \in DOMAIN (a \o b) /\ (a \o b)[j] = s[j]
        BY <1>1, <1>2, <1>3, <1>5, <2>1
      <3> QED BY <3>1
    <2>2. CASE j > i
      <3>1. j - 1 \in DOMAIN (a \o b) /\ (a \o b)[j - 1] = b[j - i]
        BY <1>1, <1>2, <1>3, <1>5, <2>2
      <3>2. b[j - i] = s[j]
        BY <1>1, <1>3, <2>2
      <3> QED BY <3>1, <3>2
    <2> QED BY <2>1, <2>2, <1>1
  <1> QED BY <1>4, <1>5, <1>6

\* add_auth(): the new entries are backed by the new rule, the others as before.
LEMMA AddIsBacked ==
  ASSUME NEW a, Backed(a), NEW filter, IsFilter(filter), NEW pub, NEW pubType, NEW sub, NEW subType
  PROVE  Backed(AddAuth(a, filter, pub, pubType, sub, subType))
  <1> DEFINE nr == NextRuleNr(a)
             r == [filter |-> filter, nr |-> nr, sub |-> sub, subType |-> subType,
                   pub |-> pub, pubType |-> pubType]
             b == AddAuth(a, filter, pub, pubType, sub, subType)
             rules == Append(a.rules, r)
             n == Len(a.rules) + 1
  <1>1. b.rules = rules /\ b.sub = Assigned(a.sub, filter, sub, subType, nr)
        /\ b.pub = Assigned(a.pub, filter, pub, pubType, nr)
    BY DEF AddAuth
  <1> HIDE DEF b
  <1> DEFINE S == ToSet(a.rules) \cup {r}
  <1>2. a.rules \in Seq(S) /\ r \in S
    BY DEF Backed
  <1> HIDE DEF r, nr, S
  <1>3. rules \in Seq(S) /\ n \in DOMAIN rules /\ rules[n] = r
        /\ \A i \in DOMAIN a.rules : i \in DOMAIN rules /\ rules[i] = a.rules[i]
    BY <1>2
  <1>4. r.filter = filter /\ r.nr = nr /\ r["sub"] = sub /\ r["subType"] = subType
        /\ r["pub"] = pub /\ r["pubType"] = pubType
    BY DEF r
  <1> HIDE DEF rules, n
  <1>5. ASSUME NEW k \in DOMAIN b.sub PROVE Backing(rules, k, "sub", "subType", b.sub[k])
    <2>1. CASE k \in {<<filter, name>> : name \in sub}
      <3>1. b.sub[k] = [type |-> subType, nr |-> nr]
        BY <1>1, <2>1 DEF Assigned
      <3>2. k = <<k[1], k[2]>> /\ k[1] = filter /\ k[2] \in sub
        BY <2>1
      <3> QED BY <1>3, <1>4, <3>1, <3>2 DEF Backing
    <2>2. CASE k \notin {<<filter, name>> : name \in sub}
      <3>1. k \in DOMAIN a.sub /\ b.sub[k] = a.sub[k]
        BY <1>1, <2>2 DEF Assigned
      <3>2. Backing(a.rules, k, "sub", "subType", a.sub[k])
        BY <3>1 DEF Backed
      <3> QED BY <1>3, <3>1, <3>2 DEF Backing
    <2> QED BY <2>1, <2>2
  <1>6. ASSUME NEW k \in DOMAIN b.pub PROVE Backing(rules, k, "pub", "pubType", b.pub[k])
    <2>1. CASE k \in {<<filter, name>> : name \in pub}
      <3>1. b.pub[k] = [type |-> pubType, nr |-> nr]
        BY <1>1, <2>1 DEF Assigned
      <3>2. k = <<k[1], k[2]>> /\ k[1] = filter /\ k[2] \in pub
        BY <2>1
      <3> QED BY <1>3, <1>4, <3>1, <3>2 DEF Backing
    <2>2. CASE k \notin {<<filter, name>> : name \in pub}
      <3>1. k \in DOMAIN a.pub /\ b.pub[k] = a.pub[k]
        BY <1>1, <2>2 DEF Assigned
      <3>2. Backing(a.rules, k, "pub", "pubType", a.pub[k])
        BY <3>1 DEF Backed
      <3> QED BY <1>3, <3>1, <3>2 DEF Backing
    <2> QED BY <2>1, <2>2
  <1>7. b.rules \in Seq(ToSet(b.rules))
    BY <1>1, <1>3, OwnElements
  <1>9. \A i \in DOMAIN rules : IsFilter(rules[i].filter)
    <2> SUFFICES ASSUME NEW i \in DOMAIN rules PROVE IsFilter(rules[i].filter)
      OBVIOUS
    <2>1. (i \in DOMAIN a.rules /\ rules[i] = a.rules[i]) \/ rules[i] = r
      BY <1>2 DEF rules
    <2> QED BY <1>4, <2>1 DEF Backed
  <1>8. Backed(b)
    BY <1>1, <1>5, <1>6, <1>7, <1>9 DEF Backed
  <1> QED BY <1>8 DEF b

\* remove_auth(): what the maps keep was not the removed rule's.
LEMMA RemoveIsBacked ==
  ASSUME NEW a, Backed(a), NEW nr
  PROVE  Backed(WithoutRule(a, nr))
  <1> DEFINE found == {i \in DOMAIN a.rules : a.rules[i].nr = nr}
             m == Min(found)
             gone == a.rules[m]
             b == WithoutRule(a, nr)
  <1>1. CASE found = {}
    <2>1. b = a
      BY <1>1 DEF WithoutRule
    <2> QED BY <2>1
  <1>2. CASE found # {}
    <2>1. found \in SUBSET Nat
      BY DEF Backed
    <2>2. m \in found
      BY <1>2, <2>1, LeastOf DEF Min
    <2>3. b.rules = RemoveAt(a.rules, m)
          /\ b.sub = Restrict(a.sub, DOMAIN a.sub \ {<<gone.filter, name>> : name \in gone.sub})
          /\ b.pub = Restrict(a.pub, DOMAIN a.pub \ {<<gone.filter, name>> : name \in gone.pub})
      BY <1>2 DEF WithoutRule
    <2> HIDE DEF b
    <2>4. m \in DOMAIN a.rules
      BY <2>2
    <2> HIDE DEF found, m
    <2>5. b.rules \in Seq(ToSet(a.rules))
          /\ \A j \in DOMAIN a.rules \ {m} : \E k \in DOMAIN b.rules : b.rules[k] = a.rules[j]
      BY <2>3, <2>4, Removing DEF Backed
    <2>6. ASSUME NEW k \in DOMAIN b.sub PROVE Backing(b.rules, k, "sub", "subType", b.sub[k])
      <3>1. k \in DOMAIN a.sub /\ b.sub[k] = a.sub[k]
            /\ k \notin {<<gone.filter, name>> : name \in gone.sub}
        BY <2>3 DEF Restrict
      <3>2. PICK j \in DOMAIN a.rules :
              /\ a.rules[j].filter = k[1] /\ k[2] \in a.rules[j]["sub"]
              /\ a.sub[k] = [type |-> a.rules[j]["subType"], nr |-> a.rules[j].nr]
        BY <3>1 DEF Backed, Backing
      <3>3. k = <<k[1], k[2]>>
        BY <3>1 DEF Backed, Backing
      <3>4. j # m
        BY <3>1, <3>2, <3>3
      <3>5. PICK i \in DOMAIN b.rules : b.rules[i] = a.rules[j]
        BY <2>5, <3>4
      <3> QED BY <3>1, <3>2, <3>3, <3>5 DEF Backing
    <2>7. ASSUME NEW k \in DOMAIN b.pub PROVE Backing(b.rules, k, "pub", "pubType", b.pub[k])
      <3>1. k \in DOMAIN a.pub /\ b.pub[k] = a.pub[k]
            /\ k \notin {<<gone.filter, name>> : name \in gone.pub}
        BY <2>3 DEF Restrict
      <3>2. PICK j \in DOMAIN a.rules :
              /\ a.rules[j].filter = k[1] /\ k[2] \in a.rules[j]["pub"]
              /\ a.pub[k] = [type |-> a.rules[j]["pubType"], nr |-> a.rules[j].nr]
        BY <3>1 DEF Backed, Backing
      <3>3. k = <<k[1], k[2]>>
        BY <3>1 DEF Backed, Backing
      <3>4. j # m
        BY <3>1, <3>2, <3>3
      <3>5. PICK i \in DOMAIN b.rules : b.rules[i] = a.rules[j]
        BY <2>5, <3>4
      <3> QED BY <3>1, <3>2, <3>3, <3>5 DEF Backing
    <2>8. b.rules \in Seq(ToSet(b.rules))
      BY <2>5, OwnElements
    <2>10. \A i \in DOMAIN b.rules : IsFilter(b.rules[i].filter)
      <3>1. \A i \in DOMAIN b.rules : b.rules[i] \in ToSet(a.rules)
        BY <2>5
      <3>2. \A r \in ToSet(a.rules) : IsFilter(r.filter)
        BY DEF Backed, ToSet
      <3> QED BY <3>1, <3>2
    <2>9. Backed(b)
      BY <2>6, <2>7, <2>8, <2>10 DEF Backed
    <2> QED BY <2>9 DEF b
  <1> QED BY <1>1, <1>2

--------------------------------------------------------------------------------
\* The rules of the file: induction, and the fold.

\* Induction over the natural numbers, for a set of them.
LEMMA NaturalsFrom0 ==
  ASSUME NEW B \in SUBSET Nat, 0 \in B, \A n \in B : n + 1 \in B
  PROVE  Nat \subseteq B
  <1> SUFFICES ASSUME Nat \ B # {} PROVE FALSE
    OBVIOUS
  <1>1. PICK m \in Nat \ B : \A n \in Nat \ B : m <= n
    BY LeastOf
  <1>2. m - 1 \in Nat
    BY <1>1
  <1>3. m - 1 \in B
    BY <1>1, <1>2
  <1>4. (m - 1) + 1 \in B
    BY <1>3
  <1> QED BY <1>1, <1>4

\* Induction over the subsets of a finite set, for a set of them.
LEMMA SubsetsFromEmpty ==
  ASSUME NEW D, IsFiniteSet(D), NEW B,
         {} \in B,
         \A s \in SUBSET D : s # {} /\ (\A x \in s : s \ {x} \in B) => s \in B
  PROVE  SUBSET D \subseteq B
  <1> DEFINE N == {n \in Nat : \A s \in SUBSET D : Cardinality(s) = n => s \in B}
  <1>0. \A s \in SUBSET D : IsFiniteSet(s) /\ Cardinality(s) \in Nat
    BY FS_Subset, FS_CardinalityType
  <1>1. 0 \in N
    <2>1. ASSUME NEW s \in SUBSET D, Cardinality(s) = 0 PROVE s \in B
      <3>1. s = {}
        BY <1>0, <2>1, FS_EmptySet
      <3> QED BY <3>1
    <2> QED BY <2>1
  <1>2. ASSUME NEW n \in N PROVE n + 1 \in N
    <2> SUFFICES ASSUME NEW s \in SUBSET D, Cardinality(s) = n + 1 PROVE s \in B
      OBVIOUS
    <2>1. s # {}
      <3>1. n \in Nat
        OBVIOUS
      <3>2. Cardinality({}) = 0
        BY FS_EmptySet
      <3>3. Cardinality(s) = n + 1
        OBVIOUS
      <3>4. Cardinality(s) # 0
        BY <3>1, <3>3
      <3> QED BY <3>2, <3>4
    <2>2. ASSUME NEW x \in s PROVE s \ {x} \in B
      <3>1. Cardinality(s \ {x}) = n
        BY <1>0, FS_RemoveElement
      <3> QED BY <3>1
    <2> QED BY <2>1, <2>2
  <1> HIDE DEF N
  <1>3. Nat \subseteq N
    <2>1. N \in SUBSET Nat
      BY DEF N
    <2> QED BY <1>1, <1>2, <2>1, NaturalsFrom0
  <1> QED BY <1>0, <1>3 DEF N

\* A set of natural numbers that is finite and not empty has a greatest member.
LEMMA GreatestOf ==
  ASSUME NEW n \in Nat, NEW S \in SUBSET (1..n), S # {}
  PROVE  Max(S) \in S
  <1> DEFINE T == {n - i : i \in S}
  <1>1. T \in SUBSET Nat /\ T # {}
    <2>1. \A i \in S : n - i \in Nat
      OBVIOUS
    <2> QED BY <2>1
  <1>2. PICK j \in T : \A k \in T : j <= k
    BY <1>1, LeastOf
  <1>3. PICK i \in S : j = n - i
    BY <1>2
  <1>4. \A k \in S : i >= k
    BY <1>2, <1>3
  <1> QED BY <1>4 DEF Max

\* The rules of the file, added one by one: of the first entries, up to the greatest.
Loading(g) ==
  g = [s \in SUBSET DOMAIN Entries |->
        IF s = {} THEN NoRules ELSE AddEntry(g[s \ {Max(s)}], Entries[Max(s)])]

\* The fold over the entries of the file is well defined.
LEMMA LoadingExists == \E g : Loading(g)
  <1> DEFINE D == DOMAIN Entries
             Body(h, s) == IF s = {} THEN NoRules ELSE AddEntry(h[s \ {Max(s)}], Entries[Max(s)])
             Upto(h, n) == \A s \in SUBSET D : Cardinality(s) <= n => h[s] = Body(h, s)
             N == {n \in Nat : \E h : Upto(h, n)}
  <1>1. D = 1..Len(Entries) /\ Len(Entries) \in Nat /\ IsFiniteSet(D)
    BY SecurityAssumption, FS_Interval
  <1>2. \A s \in SUBSET D : IsFiniteSet(s) /\ Cardinality(s) \in Nat
    BY <1>1, FS_Subset, FS_CardinalityType
  <1>3. ASSUME NEW s \in SUBSET D, s # {}
        PROVE  s \ {Max(s)} \in SUBSET D /\ Cardinality(s \ {Max(s)}) = Cardinality(s) - 1
    BY <1>1, <1>2, <1>3, GreatestOf, FS_RemoveElement
  <1> HIDE DEF D
  <1>4. 0 \in N
    <2> DEFINE h == [s \in SUBSET D |-> NoRules]
    <2>1. Upto(h, 0)
      BY <1>2, FS_EmptySet
    <2> QED BY <2>1
  <1>5. ASSUME NEW n \in N PROVE n + 1 \in N
    <2>1. PICK h : Upto(h, n)
      OBVIOUS
    <2> DEFINE k == [s \in SUBSET D |-> IF Cardinality(s) <= n THEN h[s] ELSE Body(h, s)]
    <2>2. ASSUME NEW s \in SUBSET D, Cardinality(s) <= n + 1 PROVE k[s] = Body(k, s)
      <3>1. k[s] = Body(h, s)
        BY <2>1
      <3>2. CASE s = {}
        BY <3>1, <3>2
      <3>3. CASE s # {}
        <4>1. k[s \ {Max(s)}] = h[s \ {Max(s)}]
          BY <1>2, <1>3, <2>2, <3>3
        <4> QED BY <3>1, <3>3, <4>1
      <3> QED BY <3>2, <3>3
    <2>3. Upto(k, n + 1)
      BY <2>2
    <2> HIDE DEF k, Upto
    <2> QED BY <2>3
  <1>6. Nat \subseteq N
    <2> HIDE DEF N
    <2>1. N \in SUBSET Nat
      BY DEF N
    <2> QED BY <1>4, <1>5, <2>1, NaturalsFrom0
  <1>7. PICK h : Upto(h, Cardinality(D))
    BY <1>1, <1>2, <1>6
  <1> DEFINE g == [s \in SUBSET D |-> h[s]]
  <1>8. ASSUME NEW s \in SUBSET D PROVE g[s] = Body(g, s)
    <2>1. Cardinality(s) <= Cardinality(D)
      BY <1>1, FS_Subset
    <2>2. s # {} => g[s \ {Max(s)}] = h[s \ {Max(s)}]
      BY <1>3
    <2> QED BY <1>7, <2>1, <2>2
  <1>9. Loading(g)
    BY <1>8 DEF Loading, D
  <1> QED BY <1>9

\* The rules of the file are in the list as the maps have them (load_json).
LEMMA LoadedIsBacked == Backed(Loaded)
  <1> DEFINE D == DOMAIN Entries
             g == CHOOSE h : Loading(h)
             B == {s \in SUBSET D : Backed(g[s])}
  <1>1. Loaded = g[D]
    BY DEF Loaded, FoldLeft, MapThenFoldSet, Loading
  <1>2. Loading(g)
    BY LoadingExists
  <1>3. D = 1..Len(Entries) /\ Len(Entries) \in Nat /\ IsFiniteSet(D)
    BY SecurityAssumption, FS_Interval
  <1> HIDE DEF g
  <1>4. g[{}] = NoRules
        /\ \A s \in SUBSET D : s # {} => g[s] = AddEntry(g[s \ {Max(s)}], Entries[Max(s)])
    BY <1>2 DEF Loading
  <1> HIDE DEF D
  <1>5. {} \in B
    <2>1. NoRules.rules = <<>> /\ NoRules.sub = <<>> /\ NoRules.pub = <<>>
      BY DEF NoRules
    <2>2. NoRules.rules \in Seq(ToSet(NoRules.rules))
      BY <2>1
    <2>3. DOMAIN NoRules.sub = {} /\ DOMAIN NoRules.pub = {}
      BY <2>1
    <2>4. Backed(NoRules)
      BY <2>1, <2>2, <2>3 DEF Backed
    <2> QED BY <1>4, <2>4
  <1>6. ASSUME NEW s \in SUBSET D, s # {}, \A x \in s : s \ {x} \in B PROVE s \in B
    <2>1. Max(s) \in s
      BY <1>3, <1>6, GreatestOf
    <2>2. Backed(g[s \ {Max(s)}])
      BY <1>6, <2>1
    <2>3. Backed(AddEntry(g[s \ {Max(s)}], Entries[Max(s)]))
      <3>1. IsFilter(Entries[Max(s)].topic)
        BY <2>1, SecurityAssumption DEF D
      <3> QED BY <2>2, <3>1, AddIsBacked DEF AddEntry
    <2> QED BY <1>4, <1>6, <2>3
  <1>7. D \in B
    <2> HIDE DEF B
    <2>1. \A s \in SUBSET D : s # {} /\ (\A x \in s : s \ {x} \in B) => s \in B
      BY <1>6
    <2>0. IsFiniteSet(D)
      BY <1>3
    <2>2. SUBSET D \subseteq B
      BY ONLY <2>0, <1>5, <2>1, SubsetsFromEmpty, Zenon
    <2> QED BY <2>2
  <1> QED BY <1>1, <1>7

--------------------------------------------------------------------------------
\* The nodes of the tree, and one handle more or less.

\* The subscriptions the sessions have handles for, and those below a node of the tree.
Pairs(h) == {x \in Clients \X Filters : x[2] \in h[x[1]]}
Through(h, p) == {x \in Pairs(h) : p \in Paths(x[2])}
Every == UNION {Paths(f) : f \in Filters}

\* What a node may hold.
Nodes == [count : Nat, plus : BOOLEAN, hash : BOOLEAN,
          value : UNION {[cs -> Shares \cup {NoShare}] : cs \in SUBSET Clients}]

\* The handles: finitely many.
Handles(h) ==
  /\ h \in [Clients -> SUBSET Filters]
  /\ IsFiniteSet(Pairs(h))
  /\ \A c \in Clients : IsFiniteSet(h[c])

\* One subscription more, and one less.
More(h, c, f) == [h EXCEPT ![c] = @ \cup {f}]
Less(h, c, f) == [h EXCEPT ![c] = @ \ {f}]

\* The tree t is the one of the handles h.
TreeOf(t, h) ==
  /\ t \in [{<<>>} \cup {p \in Every : Through(h, p) # {}} -> Nodes]
  /\ \A p \in DOMAIN t :
      /\ p # <<>> => t[p].count = Cardinality(Through(h, p))
      /\ t[p].plus <=> Child(p, "+") \in DOMAIN t
      /\ t[p].hash <=> Child(p, "#") \in DOMAIN t
      /\ DOMAIN t[p].value = {c \in Clients : p \in h[c]}

\* The paths of a filter: not the root, closed under parents, the filter is the longest one.
LEMMA PathsOf ==
  ASSUME NEW f \in Filters
  PROVE  /\ f \in Seq(Levels) /\ Len(f) \in Nat \ {0}
         /\ f \in Paths(f)
         /\ <<>> \notin Paths(f)
         /\ \A p \in Paths(f) : p \in Seq(Levels) /\ Len(p) \in Nat \ {0}
  <1>1. f \in Seq(Levels) /\ f # <<>>
    BY TopicsAssumption
  <1>2. Len(f) \in Nat \ {0}
    BY <1>1
  <1>3. SubSeq(f, 1, Len(f)) = f
    BY <1>1
  <1>4. \A i \in 1..Len(f) : SubSeq(f, 1, i) \in Seq(Levels) /\ Len(SubSeq(f, 1, i)) = i
    BY <1>1
  <1>5. ASSUME NEW p \in Paths(f) PROVE p \in Seq(Levels) /\ Len(p) \in Nat \ {0}
    BY <1>2, <1>4 DEF Paths
  <1>6. f \in Paths(f)
    <2>1. Len(f) \in 1..Len(f)
      BY <1>2
    <2> QED BY <1>3, <2>1 DEF Paths
  <1>7. <<>> \notin Paths(f)
    <2>1. Len(<<>>) = 0
      OBVIOUS
    <2> QED BY <1>5, <2>1
  <1> QED BY <1>1, <1>2, <1>5, <1>6, <1>7

\* The parent of a node of a path is the root or a node of the path too.
LEMMA ParentOf ==
  ASSUME NEW f \in Filters, NEW p \in Seq(Levels), NEW level, Child(p, level) \in Paths(f)
  PROVE  p = <<>> \/ p \in Paths(f)
  <1>1. f \in Seq(Levels) /\ Len(f) \in Nat
    BY PathsOf
  <1>2. PICK i \in 1..Len(f) : Append(p, level) = SubSeq(f, 1, i)
    BY DEF Paths, Child
  <1>3. Len(p) = i - 1
    <2>1. Len(SubSeq(f, 1, i)) = i
      BY <1>1
    <2>2. Len(Append(p, level)) = Len(p) + 1
      OBVIOUS
    <2> QED BY <1>2, <2>1, <2>2
  <1>4. ASSUME NEW j \in 1..(i - 1) PROVE p[j] = f[j]
    <2>1. Append(p, level)[j] = p[j]
      BY <1>3
    <2>2. SubSeq(f, 1, i)[j] = f[j]
      BY <1>1
    <2> QED BY <1>2, <2>1, <2>2
  <1>5. CASE i = 1
    BY <1>3, <1>5
  <1>6. CASE i # 1
    <2>1. i - 1 \in 1..Len(f)
      BY <1>1, <1>6
    <2>2. SubSeq(f, 1, i - 1) \in Seq(Levels) /\ Len(SubSeq(f, 1, i - 1)) = i - 1
          /\ \A j \in 1..(i - 1) : SubSeq(f, 1, i - 1)[j] = f[j]
      BY <1>1, <2>1
    <2>3. p = SubSeq(f, 1, i - 1)
      BY <1>3, <1>4, <2>2, SeqEqual
    <2> QED BY <2>1, <2>3 DEF Paths
  <1> QED BY <1>5, <1>6

\* A child is neither the root nor the child of another node or level.
LEMMA ChildDiffers ==
  ASSUME NEW p \in Seq(Levels), NEW level
  PROVE  Child(p, level) # <<>>
  <1>1. Len(Append(p, level)) = Len(p) + 1 /\ Len(p) \in Nat
    OBVIOUS
  <1> QED BY <1>1 DEF Child

\* The nodes of all topic filters.
LEMMA EveryNode ==
  /\ Filters \subseteq Every
  /\ \A p \in Every : p \in Seq(Levels) /\ p # <<>>
  /\ \A p \in {<<>>} \cup Every : p \in Seq(Levels)
<1>1. \A f \in Filters : f \in Paths(f) /\ \A p \in Paths(f) : p \in Seq(Levels) /\ p # <<>>
  BY PathsOf
<1>2. <<>> \in Seq(Levels)
  OBVIOUS
<1> QED BY <1>1, <1>2 DEF Every

\* A node of the tree has its parent there.
LEMMA ParentIsThere ==
  ASSUME NEW h, NEW p \in Seq(Levels), NEW level,
         Child(p, level) \in Every, Through(h, Child(p, level)) # {}
  PROVE  p = <<>> \/ (p \in Every /\ Through(h, p) # {})
  <1>1. PICK x \in Pairs(h) : Child(p, level) \in Paths(x[2])
    BY DEF Through
  <1>2. x[2] \in Filters
    BY DEF Pairs
  <1> QED BY <1>1, <1>2, ParentOf DEF Every, Through

\* What that does to the subscriptions through a node.
LEMMA OneMore ==
  ASSUME NEW h, Handles(h), NEW c \in Clients, NEW f \in Filters, f \notin h[c]
  PROVE  /\ Handles(More(h, c, f))
         /\ \A p \in Paths(f) :
              /\ Through(More(h, c, f), p) = Through(h, p) \cup {<<c, f>>}
              /\ Cardinality(Through(More(h, c, f), p)) = Cardinality(Through(h, p)) + 1
              /\ Through(More(h, c, f), p) # {}
         /\ \A p : p \notin Paths(f) => Through(More(h, c, f), p) = Through(h, p)
  <1> DEFINE k == More(h, c, f)
  <1>1. h \in [Clients -> SUBSET Filters]
    BY DEF Handles
  <1>2. k \in [Clients -> SUBSET Filters] /\ \A d \in Clients : k[d] = IF d = c THEN h[d] \cup {f} ELSE h[d]
    BY <1>1 DEF More
  <1> HIDE DEF k
  <1>3. Pairs(k) = Pairs(h) \cup {<<c, f>>} /\ <<c, f>> \notin Pairs(h)
    BY <1>1, <1>2 DEF Pairs
  <1>4. \A d \in Clients : IsFiniteSet(k[d])
    BY <1>2, FS_AddElement DEF Handles
  <1>5. IsFiniteSet(Pairs(h)) /\ IsFiniteSet(Pairs(k))
    <2>1. IsFiniteSet(Pairs(h))
      BY DEF Handles
    <2>2. IsFiniteSet(Pairs(h) \cup {<<c, f>>})
      BY <2>1, FS_AddElement
    <2> QED BY <1>3, <2>1, <2>2
  <1>0. ASSUME NEW p, NEW x
        PROVE  x \in Through(k, p) <=> x \in Through(h, p) \/ (x = <<c, f>> /\ p \in Paths(f))
    <2>1. x \in Through(k, p) <=> x \in Pairs(k) /\ p \in Paths(x[2])
      BY DEF Through
    <2>2. x \in Through(h, p) <=> x \in Pairs(h) /\ p \in Paths(x[2])
      BY DEF Through
    <2>3. x \in Pairs(k) <=> x \in Pairs(h) \/ x = <<c, f>>
      BY <1>3
    <2>4. x = <<c, f>> => x[2] = f
      OBVIOUS
    <2> QED BY <2>1, <2>2, <2>3, <2>4
  <1>6. ASSUME NEW p \in Paths(f)
        PROVE  /\ Through(k, p) = Through(h, p) \cup {<<c, f>>}
               /\ Cardinality(Through(k, p)) = Cardinality(Through(h, p)) + 1
               /\ Through(k, p) # {}
    <2>1. Through(k, p) = Through(h, p) \cup {<<c, f>>} /\ <<c, f>> \notin Through(h, p)
      <3>1. <<c, f>> \notin Through(h, p)
        BY <1>3 DEF Through
      <3> QED BY <1>0, <3>1
    <2>2. IsFiniteSet(Through(h, p))
      BY FS_Subset DEF Through, Handles
    <2> QED BY <2>1, <2>2, FS_AddElement
  <1>7. ASSUME NEW p, p \notin Paths(f) PROVE Through(k, p) = Through(h, p)
    BY <1>0, <1>7
  <1> QED BY <1>2, <1>4, <1>5, <1>6, <1>7 DEF Handles, k

\* What a handle less changes.
LEMMA OneLess ==
  ASSUME NEW h, Handles(h), NEW c \in Clients, NEW f \in Filters, f \in h[c]
  PROVE  /\ Handles(Less(h, c, f))
         /\ \A p \in Paths(f) :
              /\ Cardinality(Through(h, p)) \in Nat \ {0}
              /\ Cardinality(Through(Less(h, c, f), p)) = Cardinality(Through(h, p)) - 1
              /\ Through(Less(h, c, f), p) = {} <=> Cardinality(Through(h, p)) = 1
         /\ \A p : p \notin Paths(f) => Through(Less(h, c, f), p) = Through(h, p)
         /\ \A p : Through(Less(h, c, f), p) # {} => Through(h, p) # {}
  <1> DEFINE k == Less(h, c, f)
  <1>1. h \in [Clients -> SUBSET Filters]
    BY DEF Handles
  <1>2. k \in [Clients -> SUBSET Filters] /\ \A d \in Clients : k[d] = IF d = c THEN h[d] \ {f} ELSE h[d]
    BY <1>1 DEF Less
  <1> HIDE DEF k
  <1>3. Pairs(k) = Pairs(h) \ {<<c, f>>} /\ <<c, f>> \in Pairs(h)
    BY <1>1, <1>2 DEF Pairs
  <1>4. \A d \in Clients : IsFiniteSet(k[d])
    BY <1>2, FS_RemoveElement DEF Handles
  <1>5. IsFiniteSet(Pairs(k))
    BY <1>3, FS_RemoveElement DEF Handles
  <1>0. ASSUME NEW p, NEW x
        PROVE  x \in Through(k, p) <=> x \in Through(h, p) /\ x # <<c, f>>
    <2>1. x \in Through(k, p) <=> x \in Pairs(k) /\ p \in Paths(x[2])
      BY DEF Through
    <2>2. x \in Through(h, p) <=> x \in Pairs(h) /\ p \in Paths(x[2])
      BY DEF Through
    <2> QED BY <1>3, <2>1, <2>2
  <1>6. ASSUME NEW p \in Paths(f)
        PROVE  /\ Cardinality(Through(h, p)) \in Nat \ {0}
               /\ Cardinality(Through(k, p)) = Cardinality(Through(h, p)) - 1
               /\ Through(k, p) = {} <=> Cardinality(Through(h, p)) = 1
    <2>1. Through(k, p) = Through(h, p) \ {<<c, f>>} /\ <<c, f>> \in Through(h, p)
      <3>1. <<c, f>> \in Through(h, p)
        BY <1>3 DEF Through
      <3> QED BY <1>0, <3>1
    <2>2. IsFiniteSet(Through(h, p)) /\ IsFiniteSet(Through(k, p))
      BY <1>5, FS_Subset DEF Through, Handles
    <2>3. Cardinality(Through(h, p)) \in Nat /\ Cardinality(Through(k, p)) \in Nat
      BY <2>2, FS_CardinalityType
    <2>4. Cardinality(Through(k, p)) = Cardinality(Through(h, p)) - 1
      BY <2>1, <2>2, FS_RemoveElement
    <2>5. Through(k, p) = {} <=> Cardinality(Through(k, p)) = 0
      BY <2>2, FS_EmptySet
    <2>6. Cardinality(Through(h, p)) # 0
      BY <2>3, <2>4
    <2>7. Cardinality(Through(k, p)) = 0 <=> Cardinality(Through(h, p)) = 1
      BY <2>3, <2>4
    <2> QED BY <2>3, <2>4, <2>5, <2>6, <2>7
  <1>7. ASSUME NEW p, p \notin Paths(f) PROVE Through(k, p) = Through(h, p)
    <2>1. <<c, f>> \notin Through(h, p)
      BY <1>7 DEF Through
    <2> QED BY <1>0, <2>1
  <1>8. ASSUME NEW p, Through(k, p) # {} PROVE Through(h, p) # {}
    BY <1>3, <1>8 DEF Through
  <1> QED BY <1>2, <1>4, <1>5, <1>6, <1>7, <1>8 DEF Handles, k

--------------------------------------------------------------------------------
\* A subscription is added to the tree.

\* A subscription at its node.
Put(t, f, c, share) ==
  [t EXCEPT ![f].value = [d \in DOMAIN @ \cup {c} |-> IF d = c THEN share ELSE @[d]]]

\* A new node.
LEMMA NodeIsNode == Node \in Nodes
  <1>1. <<>> \in [{} -> Shares \cup {NoShare}]
    OBVIOUS
  <1>2. <<>> \in UNION {[cs -> Shares \cup {NoShare}] : cs \in SUBSET Clients}
    BY <1>1
  <1> QED BY <1>2 DEF Node, Nodes

\* create_topic_filter(): a subscription more, and the nodes it needs.
LEMMA GrownIsTree ==
  ASSUME Handles(handles), TreeOf(tree, handles), NEW c \in Clients, NEW f \in Filters,
         f \notin handles[c], NEW share \in Shares \cup {NoShare}
  PROVE  TreeOf(Put(Grown(f), f, c, share), More(handles, c, f))
  <1> DEFINE k == More(handles, c, f)
             D == DOMAIN tree
             E == D \cup Paths(f)
             g == Grown(f)
             u == Put(g, f, c, share)
             old(p) == IF p \in DOMAIN tree THEN tree[p] ELSE Node
             val(p) == [d \in DOMAIN g[p].value \cup {c} |-> IF d = c THEN share ELSE g[p].value[d]]
  <1>0. /\ \A p \in Paths(f) :
              /\ Cardinality(Through(k, p)) = Cardinality(Through(handles, p)) + 1
              /\ Through(k, p) # {}
        /\ \A p : p \notin Paths(f) => Through(k, p) = Through(handles, p)
        /\ handles \in [Clients -> SUBSET Filters]
        /\ \A d \in Clients : k[d] = IF d = c THEN handles[d] \cup {f} ELSE handles[d]
    <2>1. handles \in [Clients -> SUBSET Filters]
      BY DEF Handles
    <2>2. /\ \A p \in Paths(f) :
              /\ Cardinality(Through(k, p)) = Cardinality(Through(handles, p)) + 1
              /\ Through(k, p) # {}
          /\ \A p : p \notin Paths(f) => Through(k, p) = Through(handles, p)
      BY OneMore
    <2>3. \A d \in Clients : k[d] = IF d = c THEN handles[d] \cup {f} ELSE handles[d]
      BY <2>1 DEF More
    <2> QED BY <2>1, <2>2, <2>3
  <1> HIDE DEF k
  <1>1. D = {<<>>} \cup {p \in Every : Through(handles, p) # {}} /\ tree \in [D -> Nodes]
    BY DEF TreeOf
  <1>2. E = {<<>>} \cup {p \in Every : Through(k, p) # {}}
    <2>1. Paths(f) \subseteq Every
      BY DEF Every
    <2> HIDE DEF D
    <2>2. \A p \in Every : Through(k, p) # {} <=> Through(handles, p) # {} \/ p \in Paths(f)
      BY <1>0
    <2>3. \A p : p \in E <=> p = <<>> \/ (p \in Every /\ Through(handles, p) # {}) \/ p \in Paths(f)
      BY <1>1
    <2> HIDE DEF E
    <2> QED BY <2>1, <2>2, <2>3
  <1>3. f \in Paths(f) /\ <<>> \notin Paths(f) /\ Paths(f) \subseteq Every
    BY PathsOf DEF Every
  <1>4. DOMAIN g = E /\ \A p \in E :
          /\ old(p) \in Nodes
          /\ g[p] = [count |-> old(p).count + (IF p \in Paths(f) THEN 1 ELSE 0),
                     plus |-> old(p).plus \/ Child(p, "+") \in Paths(f) \ D,
                     hash |-> old(p).hash \/ Child(p, "#") \in Paths(f) \ D,
                     value |-> old(p).value]
    <2>1. Node \in Nodes
      BY NodeIsNode
    <2>2. \A p \in E : old(p) \in Nodes
      BY <1>1, <2>1
    <2>3. DOMAIN g = E
      BY DEF Grown
    <2> SUFFICES ASSUME NEW p \in E
                 PROVE  g[p] = [count |-> old(p).count + (IF p \in Paths(f) THEN 1 ELSE 0),
                     plus |-> old(p).plus \/ Child(p, "+") \in Paths(f) \ D,
                     hash |-> old(p).hash \/ Child(p, "#") \in Paths(f) \ D,
                     value |-> old(p).value]
      BY <2>2, <2>3
    <2>4. g[p] = [old(p) EXCEPT !.count = @ + (IF p \in Paths(f) THEN 1 ELSE 0),
                           !.plus = @ \/ Child(p, "+") \in Paths(f) \ D,
                           !.hash = @ \/ Child(p, "#") \in Paths(f) \ D]
      BY DEF Grown
    <2> QED BY <2>2, <2>4 DEF Nodes
  <1> HIDE DEF D, E, g
  <1>01. \A p : /\ p \in D => old(p) = tree[p]
                /\ p \notin D => old(p) = Node
    BY DEF D
  <1> HIDE DEF old
  <1>02. \A p \in E :
          /\ g[p].count = old(p).count + (IF p \in Paths(f) THEN 1 ELSE 0)
          /\ g[p].plus <=> (old(p).plus \/ Child(p, "+") \in Paths(f) \ D)
          /\ g[p].hash <=> (old(p).hash \/ Child(p, "#") \in Paths(f) \ D)
          /\ g[p].value = old(p).value
          /\ g[p] \in Nodes
    <2> SUFFICES ASSUME NEW p \in E
                 PROVE  /\ g[p].count = old(p).count + (IF p \in Paths(f) THEN 1 ELSE 0)
                        /\ g[p].plus <=> (old(p).plus \/ Child(p, "+") \in Paths(f) \ D)
                        /\ g[p].hash <=> (old(p).hash \/ Child(p, "#") \in Paths(f) \ D)
                        /\ g[p].value = old(p).value
                        /\ g[p] \in Nodes
      OBVIOUS
    <2>1. old(p) \in Nodes
      BY <1>4
    <2>2. /\ old(p).count \in Nat /\ old(p).plus \in BOOLEAN /\ old(p).hash \in BOOLEAN
          /\ old(p).value \in UNION {[cs -> Shares \cup {NoShare}] : cs \in SUBSET Clients}
      BY <2>1 DEF Nodes
    <2> DEFINE n == old(p).count + (IF p \in Paths(f) THEN 1 ELSE 0)
               plus == old(p).plus \/ Child(p, "+") \in Paths(f) \ D
               hash == old(p).hash \/ Child(p, "#") \in Paths(f) \ D
    <2>3. g[p] = [count |-> n, plus |-> plus, hash |-> hash, value |-> old(p).value]
      BY <1>4
    <2>4. n \in Nat /\ plus \in BOOLEAN /\ hash \in BOOLEAN
      BY <2>2
    <2> HIDE DEF n, plus, hash
    <2>5. /\ g[p] \in Nodes /\ g[p].count = n /\ g[p].value = old(p).value
          /\ g[p].plus = plus /\ g[p].hash = hash
      BY <2>2, <2>3, <2>4 DEF Nodes
    <2>6. /\ plus <=> (old(p).plus \/ Child(p, "+") \in Paths(f) \ D)
          /\ hash <=> (old(p).hash \/ Child(p, "#") \in Paths(f) \ D)
      BY DEF plus, hash
    <2>7. n = old(p).count + (IF p \in Paths(f) THEN 1 ELSE 0)
      BY DEF n
    <2> QED BY <2>5, <2>6, <2>7
  <1>5. \A p \in E : /\ p \in D => g[p].count = tree[p].count + (IF p \in Paths(f) THEN 1 ELSE 0)
                     /\ p \notin D => g[p].count = 1 /\ p \in Paths(f)
    <2> SUFFICES ASSUME NEW p \in E
                 PROVE  /\ p \in D => g[p].count = tree[p].count + (IF p \in Paths(f) THEN 1 ELSE 0)
                        /\ p \notin D => g[p].count = 1 /\ p \in Paths(f)
      OBVIOUS
    <2>1. p \notin D => p \in Paths(f) /\ old(p).count = 0
      BY <1>01 DEF E, Node
    <2> QED BY <1>01, <1>02, <2>1
  <1>6. \A p \in E : p # <<>> => g[p].count = Cardinality(Through(k, p))
    <2> SUFFICES ASSUME NEW p \in E, p # <<>> PROVE g[p].count = Cardinality(Through(k, p))
      OBVIOUS
    <2>1. CASE p \in D
      <3>1. tree[p].count = Cardinality(Through(handles, p))
        BY <2>1 DEF TreeOf, D
      <3>2. CASE p \in Paths(f)
        BY <1>0, <1>5, <2>1, <3>1, <3>2
      <3>3. CASE p \notin Paths(f)
        <4>1. tree[p].count \in Nat
          BY <1>1, <2>1 DEF Nodes
        <4> QED BY <1>0, <1>5, <2>1, <3>1, <3>3, <4>1
      <3> QED BY <3>2, <3>3
    <2>2. CASE p \notin D
      <3>1. Through(handles, p) = {}
        BY <1>1, <1>3, <1>5, <2>2
      <3>2. Cardinality(Through(handles, p)) = 0
        BY <3>1, FS_EmptySet
      <3> QED BY <1>0, <1>5, <2>2, <3>2
    <2> QED BY <2>1, <2>2
  <1>7. \A p \in E, l \in {"+", "#"} : p \notin D => Child(p, l) \notin D
    <2> SUFFICES ASSUME NEW p \in E, NEW l \in {"+", "#"}, Child(p, l) \in D PROVE p \in D
      OBVIOUS
    <2>1. p \in Seq(Levels)
      BY <1>2, EveryNode
    <2>2. Child(p, l) # <<>>
      BY <2>1, ChildDiffers
    <2> QED BY <1>1, <2>1, <2>2, ParentIsThere
  <1>8. \A p \in E : /\ g[p].plus <=> Child(p, "+") \in E
                     /\ g[p].hash <=> Child(p, "#") \in E
    <2> SUFFICES ASSUME NEW p \in E
                 PROVE  /\ g[p].plus <=> Child(p, "+") \in E
                        /\ g[p].hash <=> Child(p, "#") \in E
      OBVIOUS
    <2>1. CASE p \in D
      <3>1. /\ tree[p].plus <=> Child(p, "+") \in D
            /\ tree[p].hash <=> Child(p, "#") \in D
        BY <2>1 DEF TreeOf, D
      <3> QED BY <1>01, <1>02, <2>1, <3>1 DEF E
    <2>2. CASE p \notin D
      <3>1. g[p].plus = (Child(p, "+") \in Paths(f) \ D)
            /\ g[p].hash = (Child(p, "#") \in Paths(f) \ D)
        BY <1>01, <1>02, <2>2 DEF Node, Nodes
      <3> QED BY <1>7, <2>2, <3>1 DEF E
    <2> QED BY <2>1, <2>2
  <1>9. \A p \in E : g[p] \in Nodes /\ DOMAIN g[p].value = {d \in Clients : p \in handles[d]}
    <2> SUFFICES ASSUME NEW p \in E
                 PROVE  g[p] \in Nodes /\ DOMAIN g[p].value = {d \in Clients : p \in handles[d]}
      OBVIOUS
    <2>1. CASE p \in D
      <3>1. tree[p] \in Nodes /\ DOMAIN tree[p].value = {d \in Clients : p \in handles[d]}
        BY <1>1, <2>1 DEF TreeOf, D
      <3> QED BY <1>01, <1>02, <2>1, <3>1
    <2>2. CASE p \notin D
      <3>1. {d \in Clients : p \in handles[d]} = {}
        <4> SUFFICES ASSUME NEW d \in Clients, p \in handles[d] PROVE FALSE
          OBVIOUS
        <4>1. p \in Filters /\ <<d, p>> \in Through(handles, p)
          BY PathsOf DEF Handles, Through, Pairs
        <4> QED BY <1>1, <2>2, <4>1, EveryNode
      <3>2. g[p].value = <<>>
        BY <1>01, <1>02, <2>2 DEF Node
      <3> QED BY <1>02, <3>1, <3>2
    <2> QED BY <2>1, <2>2
  <1>10. f \in E /\ g \in [E -> Nodes]
    <2>1. f \in E
      BY <1>3 DEF E
    <2>2. DOMAIN g = E /\ g = [p \in DOMAIN g |-> g[p]]
      BY <1>4 DEF g, Grown
    <2> QED BY <1>9, <2>1, <2>2
  <1>11. u = [g EXCEPT ![f] = [g[f] EXCEPT !.value = val(f)]]
    BY DEF Put
  <1> HIDE DEF u
  <1>12. val(f) \in [DOMAIN g[f].value \cup {c} -> Shares \cup {NoShare}]
    BY <1>9, <1>10 DEF Nodes
  <1>13. DOMAIN g[f].value \cup {c} \in SUBSET Clients
    BY <1>9, <1>10
  <1>14. u \in [E -> Nodes]
    <2>1. val(f) \in UNION {[cs -> Shares \cup {NoShare}] : cs \in SUBSET Clients}
      BY <1>12, <1>13
    <2> HIDE DEF val
    <2>2. [g[f] EXCEPT !.value = val(f)] \in Nodes
      BY <1>10, <2>1 DEF Nodes
    <2> QED BY <1>10, <1>11, <2>2
  <1>15. \A p \in E : /\ u[p].count = g[p].count /\ u[p].plus = g[p].plus /\ u[p].hash = g[p].hash
                      /\ p # f => u[p].value = g[p].value
    BY <1>10, <1>11 DEF Nodes
  <1>16. DOMAIN u[f].value = DOMAIN g[f].value \cup {c}
    <2> DEFINE v == val(f)
    <2>1. DOMAIN v = DOMAIN g[f].value \cup {c}
      OBVIOUS
    <2> HIDE DEF v
    <2>2. [g[f] EXCEPT !.value = v].value = v
      BY <1>10 DEF Nodes
    <2>3. u[f].value = v
      BY <1>10, <1>11, <2>2 DEF v
    <2> QED BY <2>1, <2>3
  <1>17. \A p \in E : DOMAIN u[p].value = {d \in Clients : p \in k[d]}
    <2> SUFFICES ASSUME NEW p \in E, NEW d
                 PROVE  d \in DOMAIN u[p].value <=> d \in Clients /\ p \in k[d]
      OBVIOUS
    <2>1. d \in Clients => (p \in k[d] <=> p \in handles[d] \/ (p = f /\ d = c))
      BY <1>0
    <2> QED BY <1>9, <1>15, <1>16, <2>1
  <1> HIDE DEF val
  <1>18. DOMAIN u = E
    BY <1>14
  <1>19. ASSUME NEW p \in E
         PROVE  /\ p # <<>> => u[p].count = Cardinality(Through(k, p))
                /\ u[p].plus <=> Child(p, "+") \in E
                /\ u[p].hash <=> Child(p, "#") \in E
                /\ DOMAIN u[p].value = {d \in Clients : p \in k[d]}
    BY <1>6, <1>8, <1>15, <1>17
  <1> QED BY <1>2, <1>14, <1>18, <1>19 DEF TreeOf, k, u, g

--------------------------------------------------------------------------------
\* A subscription is renewed or removed.

\* A filter that someone subscribes to is in the tree, and so are its paths.
LEMMA FilterIsThere ==
  ASSUME NEW h, Handles(h), NEW t, TreeOf(t, h), NEW c \in Clients, NEW f \in h[c]
  PROVE  f \in Filters /\ Paths(f) \subseteq DOMAIN t /\ f \in DOMAIN t /\ c \in DOMAIN t[f].value
  <1>1. f \in Filters
    BY DEF Handles
  <1>2. \A p \in Paths(f) : p \in Every /\ <<c, f>> \in Through(h, p)
    BY <1>1 DEF Every, Through, Pairs
  <1>3. DOMAIN t = {<<>>} \cup {p \in Every : Through(h, p) # {}}
    BY DEF TreeOf
  <1>4. Paths(f) \subseteq DOMAIN t /\ f \in DOMAIN t
    BY <1>1, <1>2, <1>3, PathsOf
  <1>5. c \in DOMAIN t[f].value
    BY <1>4 DEF TreeOf
  <1> QED BY <1>1, <1>4, <1>5

\* The clients at a node are those with a handle for its topic filter.
LEMMA SubscribersAre ==
  ASSUME Handles(handles), TreeOf(tree, handles), NEW c \in Clients, NEW f \in Filters
  PROVE  /\ c \in DOMAIN Subscribers(f) <=> f \in handles[c]
         /\ Held(f) => f \in DOMAIN tree
  <1>1. CASE Held(f)
    <2>1. f \in DOMAIN tree /\ Subscribers(f) = tree[f].value
      BY <1>1, PathsOf DEF Held, Subscribers
    <2>2. DOMAIN tree[f].value = {d \in Clients : f \in handles[d]}
      BY <2>1 DEF TreeOf
    <2> QED BY <2>1, <2>2
  <1>2. CASE ~Held(f)
    <2>1. DOMAIN Subscribers(f) = {}
      BY <1>2 DEF Subscribers
    <2>2. f \notin handles[c]
      BY <1>2, FilterIsThere DEF Held
    <2> QED BY <1>2, <2>1, <2>2
  <1> QED BY <1>1, <1>2

\* A client that subscribes again gets the share name of its last subscription.
LEMMA RenewedIsTree ==
  ASSUME NEW h, Handles(h), NEW t, TreeOf(t, h), NEW c \in Clients, NEW f \in h[c],
         NEW share \in Shares \cup {NoShare}
  PROVE  TreeOf(Put(t, f, c, share), h)
  <1> DEFINE u == Put(t, f, c, share)
             v == [d \in DOMAIN t[f].value \cup {c} |-> IF d = c THEN share ELSE t[f].value[d]]
             D == DOMAIN t
             n == [t[f] EXCEPT !.value = v]
  <1>1. f \in D /\ c \in DOMAIN t[f].value
    BY FilterIsThere
  <1>2. t \in [D -> Nodes] /\ D = {<<>>} \cup {p \in Every : Through(h, p) # {}}
    BY DEF TreeOf
  <1>3. u = [t EXCEPT ![f] = n]
    BY DEF Put
  <1> HIDE DEF u
  <1>4. t[f].value \in [DOMAIN t[f].value -> Shares \cup {NoShare}]
        /\ DOMAIN t[f].value \in SUBSET Clients
    BY <1>1, <1>2 DEF Nodes
  <1>5. v \in [DOMAIN t[f].value -> Shares \cup {NoShare}]
    BY <1>1, <1>4
  <1> HIDE DEF v
  <1>6. n \in Nodes /\ n.value = v /\ n.count = t[f].count /\ n.plus = t[f].plus
        /\ n.hash = t[f].hash
    <2>1. v \in UNION {[cs -> Shares \cup {NoShare}] : cs \in SUBSET Clients}
      BY <1>4, <1>5
    <2>2. t[f] \in Nodes
      BY <1>1, <1>2
    <2> QED BY <2>1, <2>2 DEF Nodes
  <1>7. DOMAIN n.value = DOMAIN t[f].value
    BY <1>5, <1>6
  <1> HIDE DEF n
  <1>8. u \in [D -> Nodes]
    BY <1>1, <1>2, <1>3, <1>6
  <1>9. \A p \in D : /\ u[p].count = t[p].count /\ u[p].plus = t[p].plus /\ u[p].hash = t[p].hash
                     /\ DOMAIN u[p].value = DOMAIN t[p].value
    BY <1>1, <1>2, <1>3, <1>6, <1>7
  <1>10. DOMAIN u = D
    BY <1>8
  <1>11. ASSUME NEW p \in D
         PROVE  /\ p # <<>> => u[p].count = Cardinality(Through(h, p))
                /\ u[p].plus <=> Child(p, "+") \in D
                /\ u[p].hash <=> Child(p, "#") \in D
                /\ DOMAIN u[p].value = {d \in Clients : p \in h[d]}
    BY <1>9 DEF TreeOf
  <1> QED BY <1>2, <1>8, <1>10, <1>11 DEF TreeOf, u

\* session_state::unsubscribe() of a client that holds a handle: the nodes that only
\* its subscription needed go, and their parents lose the flags.
LEMMA ErasedIsTree ==
  ASSUME NEW h, Handles(h), NEW t, TreeOf(t, h), NEW c \in Clients, NEW f \in h[c]
  PROVE  TreeOf(Erased(t, f, c), Less(h, c, f))
  <1> DEFINE k == Less(h, c, f)
             D == DOMAIN t
             v == [d \in DOMAIN t[f].value \ {c} |-> t[f].value[d]]
             n == [t[f] EXCEPT !.value = v]
             g == [t EXCEPT ![f] = n]
             gone == {p \in Paths(f) : g[p].count = 1}
             E == D \ gone
             u == Pruned(g, f)
  <1>1. f \in Filters /\ Paths(f) \subseteq D /\ f \in D /\ c \in DOMAIN t[f].value
    BY FilterIsThere
  <1>2. t \in [D -> Nodes] /\ D = {<<>>} \cup {p \in Every : Through(h, p) # {}}
    BY DEF TreeOf
  <1>3. Erased(t, f, c) = u
    BY <1>1 DEF Erased
  <1>4. /\ Handles(k)
        /\ \A p \in Paths(f) :
              /\ Cardinality(Through(h, p)) \in Nat \ {0}
              /\ Cardinality(Through(k, p)) = Cardinality(Through(h, p)) - 1
              /\ Through(k, p) = {} <=> Cardinality(Through(h, p)) = 1
        /\ \A p : p \notin Paths(f) => Through(k, p) = Through(h, p)
        /\ \A p : Through(k, p) # {} => Through(h, p) # {}
    BY <1>1, OneLess
  <1>5. \A d \in Clients : k[d] = IF d = c THEN h[d] \ {f} ELSE h[d]
    BY DEF Handles, Less
  <1> HIDE DEF k
  <1>6. t[f].value \in [DOMAIN t[f].value -> Shares \cup {NoShare}]
        /\ DOMAIN t[f].value \in SUBSET Clients
    BY <1>1, <1>2 DEF Nodes
  <1>7. v \in [DOMAIN t[f].value \ {c} -> Shares \cup {NoShare}]
    BY <1>6
  <1> HIDE DEF v
  <1>8. n \in Nodes /\ n.value = v /\ n.count = t[f].count /\ n.plus = t[f].plus
        /\ n.hash = t[f].hash
    <2>1. v \in UNION {[cs -> Shares \cup {NoShare}] : cs \in SUBSET Clients}
      BY <1>6, <1>7
    <2>2. t[f] \in Nodes
      BY <1>1, <1>2
    <2> QED BY <2>1, <2>2 DEF Nodes
  <1> HIDE DEF n
  <1>9. g \in [D -> Nodes]
    BY <1>1, <1>2, <1>8
  <1>10. \A p \in D : /\ g[p].count = t[p].count /\ g[p].plus = t[p].plus /\ g[p].hash = t[p].hash
                      /\ p # f => g[p].value = t[p].value
                      /\ p = f => g[p].value = v
    BY <1>1, <1>2, <1>8
  <1> HIDE DEF g
  <1>11. \A p \in Paths(f) : p \in gone <=> Through(k, p) = {}
    <2>1. \A p \in Paths(f) : p # <<>> /\ g[p].count = Cardinality(Through(h, p))
      BY <1>1, <1>10, PathsOf DEF TreeOf
    <2> QED BY <1>4, <2>1
  <1>12. E = {<<>>} \cup {p \in Every : Through(k, p) # {}}
    <2>1. \A p \in gone : p \in Paths(f) /\ p # <<>> /\ Through(k, p) = {}
      BY <1>1, <1>11, PathsOf
    <2> HIDE DEF gone
    <2>2. \A p : p \in D <=> p = <<>> \/ (p \in Every /\ Through(h, p) # {})
      BY <1>2
    <2> HIDE DEF D
    <2>3. \A p : p \in E <=> p = <<>> \/ (p \in Every /\ Through(k, p) # {})
      BY <1>4, <1>11, <2>1, <2>2
    <2> HIDE DEF E
    <2> QED BY <2>3
  <1>13. DOMAIN u = E /\ \A p \in E :
           u[p] = [g[p] EXCEPT !.count = @ - (IF p \in Paths(f) THEN 1 ELSE 0),
                               !.plus = @ /\ Child(p, "+") \notin gone,
                               !.hash = @ /\ Child(p, "#") \notin gone]
    <2>1. DOMAIN g = D
      BY <1>9
    <2> HIDE DEF D
    <2> QED BY <2>1 DEF Pruned
  <1>0. u = [p \in DOMAIN u |-> u[p]]
    BY DEF Pruned
  <1> HIDE DEF u, gone
  <1>14. ASSUME NEW p \in E
         PROVE  /\ u[p] \in Nodes
                /\ p # <<>> => u[p].count = Cardinality(Through(k, p))
                /\ u[p].plus <=> Child(p, "+") \in E
                /\ u[p].hash <=> Child(p, "#") \in E
                /\ DOMAIN u[p].value = {d \in Clients : p \in k[d]}
    <2>1. p \in D /\ p \notin gone /\ g[p] \in Nodes
      BY <1>9
    <2> DEFINE m == g[p].count - (IF p \in Paths(f) THEN 1 ELSE 0)
               plus == g[p].plus /\ Child(p, "+") \notin gone
               hash == g[p].hash /\ Child(p, "#") \notin gone
    <2>2. u[p] = [g[p] EXCEPT !.count = m, !.plus = plus, !.hash = hash]
      BY <1>13
    <2>3. /\ p # <<>> => g[p].count = Cardinality(Through(h, p))
          /\ g[p].plus <=> Child(p, "+") \in D
          /\ g[p].hash <=> Child(p, "#") \in D
          /\ DOMAIN t[p].value = {d \in Clients : p \in h[d]}
      BY <1>10, <2>1 DEF TreeOf
    <2>4. m \in Nat /\ (p # <<>> => m = Cardinality(Through(k, p)))
      <3>1. g[p].count \in Nat
        BY <2>1 DEF Nodes
      <3>2. CASE p \in Paths(f)
        <4>1. p # <<>>
          BY <1>1, <3>2, PathsOf
        <4> QED BY <1>4, <2>3, <3>1, <3>2, <4>1
      <3>3. CASE p \notin Paths(f)
        BY <1>4, <2>3, <3>1, <3>3
      <3> QED BY <3>2, <3>3
    <2>5. /\ plus \in BOOLEAN /\ hash \in BOOLEAN
          /\ plus <=> Child(p, "+") \in E
          /\ hash <=> Child(p, "#") \in E
      BY <2>1, <2>3 DEF Nodes
    <2> HIDE DEF m, plus, hash
    <2>6. /\ u[p] \in Nodes /\ u[p].count = m /\ u[p].plus = plus /\ u[p].hash = hash
          /\ u[p].value = g[p].value
      BY <2>1, <2>2, <2>4, <2>5 DEF Nodes
    <2>7. DOMAIN g[p].value = {d \in Clients : p \in k[d]}
      <3>1. CASE p = f
        <4>1. DOMAIN g[p].value = DOMAIN t[f].value \ {c}
          BY <1>7, <1>10, <2>1, <3>1
        <4>2. DOMAIN t[f].value = {d \in Clients : f \in h[d]}
          BY <2>3, <3>1
        <4>3. {d \in Clients : f \in k[d]} = {d \in Clients : f \in h[d]} \ {c}
          BY <1>5
        <4> QED BY <3>1, <4>1, <4>2, <4>3
      <3>2. CASE p # f
        <4>1. {d \in Clients : p \in k[d]} = {d \in Clients : p \in h[d]}
          BY <1>5, <3>2
        <4> QED BY <1>10, <2>1, <2>3, <3>2, <4>1
      <3> QED BY <3>1, <3>2
    <2> QED BY <2>4, <2>5, <2>6, <2>7
  <1>15. u \in [E -> Nodes]
    <2>1. u = [p \in E |-> u[p]]
      <3>1. DOMAIN u = E
        BY <1>13
      <3> HIDE DEF E
      <3> QED BY <1>0, <3>1
    <2>2. \A p \in E : u[p] \in Nodes
      BY <1>14
    <2> HIDE DEF E
    <2> QED BY <2>1, <2>2
  <1> HIDE DEF E
  <1>16. TreeOf(u, k)
    BY <1>12, <1>13, <1>14, <1>15 DEF TreeOf
  <1> QED BY <1>3, <1>16 DEF k

\* No subscription that remains gets another share name.
Remain(t, u) ==
  \A p \in DOMAIN u : \A d \in DOMAIN u[p].value :
    p \in DOMAIN t /\ d \in DOMAIN t[p].value /\ u[p].value[d] = t[p].value[d]

\* One after the other.
LEMMA RemainOn == ASSUME NEW t, NEW u, NEW v, Remain(t, u), Remain(u, v) PROVE Remain(t, v)
  BY DEF Remain

\* remove_topic_filter(): the nodes that stay keep their subscriptions.
LEMMA ErasedRemain ==
  ASSUME NEW h, Handles(h), NEW t, TreeOf(t, h), NEW c \in Clients, NEW f \in h[c]
  PROVE  Remain(t, Erased(t, f, c))
  <1> DEFINE D == DOMAIN t
             v == [d \in DOMAIN t[f].value \ {c} |-> t[f].value[d]]
             n == [t[f] EXCEPT !.value = v]
             g == [t EXCEPT ![f] = n]
             gone == {p \in Paths(f) : g[p].count = 1}
             u == Pruned(g, f)
  <1>1. f \in D /\ c \in DOMAIN t[f].value
    BY FilterIsThere
  <1>2. t \in [D -> Nodes]
    BY DEF TreeOf
  <1>3. Erased(t, f, c) = u
    BY <1>1 DEF Erased
  <1>4. n.value = v /\ "value" \in DOMAIN n
    <2>1. t[f] \in Nodes
      BY <1>1, <1>2
    <2> HIDE DEF v
    <2> QED BY <2>1 DEF Nodes
  <1>5. DOMAIN v \subseteq DOMAIN t[f].value /\ \A d \in DOMAIN v : v[d] = t[f].value[d]
    OBVIOUS
  <1> HIDE DEF v, n
  <1>6. DOMAIN g = D /\ \A p \in D : "value" \in DOMAIN g[p]
                                     /\ g[p].value = IF p = f THEN v ELSE t[p].value
    <2>1. \A p \in D : "value" \in DOMAIN t[p]
      BY <1>2 DEF Nodes
    <2> QED BY <1>1, <1>2, <1>4, <2>1
  <1> HIDE DEF g
  <1>7. DOMAIN u \subseteq D /\ \A p \in DOMAIN u : u[p].value = g[p].value
    <2>1. DOMAIN u = D \ gone
      BY <1>6 DEF Pruned
    <2>2. ASSUME NEW p \in D \ gone PROVE u[p].value = g[p].value
      <3>1. u[p] = [g[p] EXCEPT !.count = @ - (IF p \in Paths(f) THEN 1 ELSE 0),
                                !.plus = @ /\ Child(p, "+") \notin gone,
                                !.hash = @ /\ Child(p, "#") \notin gone]
        BY <1>6 DEF Pruned
      <3> HIDE DEF gone, u
      <3> QED BY <1>6, <3>1
    <2> HIDE DEF gone, u
    <2> QED BY <2>1, <2>2
  <1> HIDE DEF u
  <1>8. Remain(t, u)
    BY <1>5, <1>6, <1>7 DEF Remain
  <1> QED BY <1>3, <1>8

--------------------------------------------------------------------------------
\* All subscriptions of a session are removed.

\* The subscriptions of c are erased one by one, in some order.
Cleaning(c, S, base, g) ==
  g = [s \in SUBSET S |->
        IF s = {} THEN base
        ELSE LET f == CHOOSE f \in s : TRUE IN Erased(g[s \ {f}], f, c)]

\* The fold over a client's handles is well defined, in whichever order it takes them.
LEMMA CleaningExists ==
  ASSUME NEW c, NEW S, IsFiniteSet(S), NEW base
  PROVE  \E g : Cleaning(c, S, base, g)
  <1> DEFINE f(s) == CHOOSE x \in s : TRUE
             Body(h, s) == IF s = {} THEN base ELSE Erased(h[s \ {f(s)}], f(s), c)
             Upto(h, n) == \A s \in SUBSET S : Cardinality(s) <= n => h[s] = Body(h, s)
             N == {n \in Nat : \E h : Upto(h, n)}
  <1>2. \A s \in SUBSET S : IsFiniteSet(s) /\ Cardinality(s) \in Nat
    BY FS_Subset, FS_CardinalityType
  <1>3. ASSUME NEW s \in SUBSET S, s # {}
        PROVE  s \ {f(s)} \in SUBSET S /\ Cardinality(s \ {f(s)}) = Cardinality(s) - 1
    BY <1>2, <1>3, FS_RemoveElement
  <1> HIDE DEF f
  <1>4. 0 \in N
    <2> DEFINE h == [s \in SUBSET S |-> base]
    <2>1. Upto(h, 0)
      BY <1>2, FS_EmptySet
    <2> QED BY <2>1
  <1>5. ASSUME NEW n \in N PROVE n + 1 \in N
    <2>1. PICK h : Upto(h, n)
      OBVIOUS
    <2> DEFINE k == [s \in SUBSET S |-> IF Cardinality(s) <= n THEN h[s] ELSE Body(h, s)]
    <2>2. ASSUME NEW s \in SUBSET S, Cardinality(s) <= n + 1 PROVE k[s] = Body(k, s)
      <3>1. k[s] = Body(h, s)
        BY <2>1
      <3>2. CASE s = {}
        BY <3>1, <3>2
      <3>3. CASE s # {}
        <4>1. k[s \ {f(s)}] = h[s \ {f(s)}]
          BY <1>2, <1>3, <2>2, <3>3
        <4> QED BY <3>1, <3>3, <4>1
      <3> QED BY <3>2, <3>3
    <2>3. Upto(k, n + 1)
      BY <2>2
    <2> HIDE DEF k, Upto
    <2> QED BY <2>3
  <1>6. Nat \subseteq N
    <2> HIDE DEF N
    <2>1. N \in SUBSET Nat
      BY DEF N
    <2> QED BY <1>4, <1>5, <2>1, NaturalsFrom0
  <1>7. PICK h : Upto(h, Cardinality(S))
    BY <1>2, <1>6
  <1> DEFINE g == [s \in SUBSET S |-> h[s]]
  <1>8. ASSUME NEW s \in SUBSET S PROVE g[s] = Body(g, s)
    <2>1. Cardinality(s) <= Cardinality(S)
      BY FS_Subset
    <2>2. s # {} => g[s \ {f(s)}] = h[s \ {f(s)}]
      BY <1>3
    <2> QED BY <1>7, <2>1, <2>2
  <1>9. Cleaning(c, S, base, g)
    BY <1>8 DEF Cleaning, f
  <1> QED BY <1>9

\* A session that is cleaned leaves the tree of the others' handles.
LEMMA CleanIsTree ==
  ASSUME NEW h, Handles(h), NEW t, TreeOf(t, h), NEW c \in Clients
  PROVE  /\ Handles([h EXCEPT ![c] = {}])
         /\ TreeOf(FoldSet(LAMBDA f, u : Erased(u, f, c), t, h[c]), [h EXCEPT ![c] = {}])
         /\ Remain(t, FoldSet(LAMBDA f, u : Erased(u, f, c), t, h[c]))
  <1> DEFINE S == h[c]
             g == CHOOSE x : Cleaning(c, S, t, x)
             but(s) == [h EXCEPT ![c] = S \ s]
             B == {s \in SUBSET S : Handles(but(s)) /\ TreeOf(g[s], but(s)) /\ Remain(t, g[s])}
  <1>1. FoldSet(LAMBDA f, u : Erased(u, f, c), t, S) = g[S]
    BY DEF FoldSet, MapThenFoldSet, Cleaning
  <1>2. IsFiniteSet(S) /\ h \in [Clients -> SUBSET Filters]
    BY DEF Handles
  <1>3. Cleaning(c, S, t, g)
    BY <1>2, CleaningExists
  <1> HIDE DEF g
  <1> DEFINE f(s) == CHOOSE x \in s : TRUE
  <1>4. g[{}] = t /\ \A s \in SUBSET S : s # {} => g[s] = Erased(g[s \ {f(s)}], f(s), c)
    BY <1>3 DEF Cleaning
  <1>5. {} \in B
    <2>1. but({}) = h
      BY <1>2
    <2>2. Remain(t, t)
      BY DEF Remain
    <2> QED BY <1>4, <2>1, <2>2
  <1>6. ASSUME NEW s \in SUBSET S, s # {}, \A x \in s : s \ {x} \in B PROVE s \in B
    <2> DEFINE x == f(s)
    <2>1. x \in s
      BY <1>6
    <2> HIDE DEF f
    <2> DEFINE r == s \ {x}
    <2>2. Handles(but(r)) /\ TreeOf(g[r], but(r)) /\ Remain(t, g[r])
      BY <1>6, <2>1
    <2>3. g[s] = Erased(g[r], x, c)
      BY <1>4, <1>6
    <2>4. x \in but(r)[c]
      BY <1>2, <2>1
    <2>5. Less(but(r), c, x) = but(s)
      <3>1. (S \ r) \ {x} = S \ s
        BY <2>1
      <3> QED BY <1>2, <3>1 DEF Less
    <2> HIDE DEF r, x, but
    <2>6. x \in Filters
      BY <2>2, <2>4 DEF Handles
    <2>7. Handles(but(s)) /\ TreeOf(g[s], but(s))
      BY <2>2, <2>3, <2>4, <2>5, <2>6, ErasedIsTree, OneLess
    <2>8. Remain(t, g[s])
      BY <2>2, <2>3, <2>4, ErasedRemain, RemainOn
    <2> QED BY <2>7, <2>8
  <1>7. S \in B
    <2> HIDE DEF B
    <2>1. \A s \in SUBSET S : s # {} /\ (\A x \in s : s \ {x} \in B) => s \in B
      BY <1>6
    <2>2. IsFiniteSet(S)
      BY <1>2
    <2>3. SUBSET S \subseteq B
      BY ONLY <1>5, <2>1, <2>2, SubsetsFromEmpty, Zenon
    <2> QED BY <2>3
  <1>8. but(S) = [h EXCEPT ![c] = {}]
    OBVIOUS
  <1> QED BY <1>1, <1>7, <1>8

--------------------------------------------------------------------------------
\* The search, one level and all of them.

\* The first i levels of a topic name lead to the node p.
Fits(p, t, i) ==
  /\ Len(p) = i
  /\ \A j \in 1..i : p[j] \in {"+", t[j]}
  /\ i > 0 /\ p[1] = "+" => t[1] \notin System


\* The nodes that the search reaches level by level, and those that fit.
Walk(g, t) ==
  g = [i \in 0..Len(t) |-> IF i = 0 THEN {<<>>} ELSE UNION {Step(p, t[i]) : p \in g[i - 1]}]
Fitting(t, i) == {p \in DOMAIN tree : Fits(p, t, i)}

\* A topic name has a level, and no wildcard.
LEMMA TopicIs ==
  ASSUME NEW t \in Topics
  PROVE  t \in Seq(Levels) /\ Len(t) \in Nat \ {0} /\ \A i \in 1..Len(t) : t[i] \notin {"+", "#"}
  <1>1. t \in Seq(Levels) /\ t # <<>>
    BY TopicsAssumption
  <1>2. \A i \in 1..Len(t) : t[i] \notin {"+", "#"}
    BY <1>1, TopicsAssumption
  <1> QED BY <1>1, <1>2

\* "#" is the last level of a topic filter that has it.
LEMMA FilterIs ==
  ASSUME NEW f \in Filters
  PROVE  \A i \in 1..Len(f) : f[i] = "#" => i = Len(f)
  <1>1. f \in Seq(Levels) /\ DOMAIN f = 1..Len(f)
    BY PathsOf
  <1>2. IsFilter(f)
    BY TopicsAssumption
  <1> QED BY <1>1, <1>2 DEF IsFilter

\* What the parent of a node is.
LEMMA FrontIs ==
  ASSUME NEW q \in Seq(Levels), NEW n \in Nat, Len(q) = n + 1
  PROVE  LET p == SubSeq(q, 1, n)
         IN  /\ p \in Seq(Levels) /\ Len(p) = n /\ q = Child(p, q[n + 1])
             /\ \A j \in 1..n : p[j] = q[j]
  <1> DEFINE p == SubSeq(q, 1, n)
  <1>1. p \in Seq(Levels) /\ Len(p) = n /\ \A j \in 1..n : p[j] = q[j]
    OBVIOUS
  <1> HIDE DEF p
  <1>2. q[n + 1] \in Levels
    OBVIOUS
  <1> DEFINE a == Append(p, q[n + 1])
  <1>3. a \in Seq(Levels) /\ Len(a) = n + 1 /\ a[n + 1] = q[n + 1] /\ \A j \in 1..n : a[j] = p[j]
    BY <1>1, <1>2
  <1> HIDE DEF a
  <1>4. \A j \in 1..(n + 1) : a[j] = q[j]
    BY <1>1, <1>3
  <1>5. a = q
    BY <1>3, <1>4, SeqEqual
  <1> QED BY <1>1, <1>5 DEF a, Child, p

\* The child of a node.
LEMMA ChildIs ==
  ASSUME NEW p \in Seq(Levels), NEW level
  PROVE  /\ Len(Child(p, level)) = Len(p) + 1 /\ Len(p) \in Nat
         /\ Child(p, level)[Len(p) + 1] = level
         /\ \A j \in 1..Len(p) : Child(p, level)[j] = p[j]
  BY DEF Child

\* The parent of a node is a node, and its flags say which wildcards are below it.
LEMMA NodesOfTree ==
  ASSUME Handles(handles), TreeOf(tree, handles)
  PROVE  /\ <<>> \in DOMAIN tree
         /\ \A p \in DOMAIN tree : p \in Seq(Levels)
         /\ \A p \in Seq(Levels) : \A l : Child(p, l) \in DOMAIN tree => p \in DOMAIN tree
         /\ \A p \in DOMAIN tree : /\ tree[p].plus <=> Child(p, "+") \in DOMAIN tree
                                   /\ tree[p].hash <=> Child(p, "#") \in DOMAIN tree
  <1>1. DOMAIN tree = {<<>>} \cup {p \in Every : Through(handles, p) # {}}
    BY DEF TreeOf
  <1>2. \A p \in DOMAIN tree : p \in Seq(Levels)
    BY <1>1, EveryNode
  <1>3. ASSUME NEW p \in Seq(Levels), NEW l, Child(p, l) \in DOMAIN tree PROVE p \in DOMAIN tree
    <2>1. Child(p, l) # <<>>
      BY ChildDiffers
    <2>2. Child(p, l) \in Every /\ Through(handles, Child(p, l)) # {}
      BY <1>1, <1>3, <2>1
    <2>3. p = <<>> \/ (p \in Every /\ Through(handles, p) # {})
      BY <2>2, ParentIsThere
    <2> QED BY <1>1, <2>3
  <1>4. \A p \in DOMAIN tree : /\ tree[p].plus <=> Child(p, "+") \in DOMAIN tree
                               /\ tree[p].hash <=> Child(p, "#") \in DOMAIN tree
    BY DEF TreeOf
  <1> QED BY <1>1, <1>2, <1>3, <1>4

\* One level of the search.
LEMMA OneLevel ==
  ASSUME Handles(handles), TreeOf(tree, handles), NEW t \in Topics, NEW i \in 1..Len(t)
  PROVE  Fitting(t, i) = UNION {Step(p, t[i]) : p \in Fitting(t, i - 1)}
  <1>1. t \in Seq(Levels) /\ Len(t) \in Nat /\ i \in Nat \ {0} /\ i - 1 \in Nat
    BY TopicIs
  <1>2. ASSUME NEW q \in Fitting(t, i) PROVE \E p \in Fitting(t, i - 1) : q \in Step(p, t[i])
    <2> DEFINE p == SubSeq(q, 1, i - 1)
    <2>1. q \in DOMAIN tree /\ Fits(q, t, i) /\ q \in Seq(Levels)
      BY NodesOfTree DEF Fitting
    <2>2. p \in Seq(Levels) /\ Len(p) = i - 1 /\ q = Child(p, q[i]) /\ \A j \in 1..(i - 1) : p[j] = q[j]
      <3>1. Len(q) = (i - 1) + 1
        BY <1>1, <2>1 DEF Fits
      <3>2. (i - 1) + 1 = i
        BY <1>1
      <3> QED BY <1>1, <2>1, <3>1, <3>2, FrontIs
    <2> HIDE DEF p
    <2>3. p \in DOMAIN tree
      BY <2>1, <2>2, NodesOfTree
    <2>4. Fits(p, t, i - 1)
      BY <1>1, <2>1, <2>2 DEF Fits
    <2>5. q[i] \in {"+", t[i]}
      BY <1>1, <2>1 DEF Fits
    <2>6. q[i] = "+" => tree[p].plus /\ Covers(p, t[i])
      <3>1. q[i] = "+" => tree[p].plus
        BY <2>1, <2>2, <2>3, NodesOfTree
      <3>2. q[i] = "+" /\ p = <<>> => t[i] \notin System
        <4>1. p = <<>> => i = 1
          BY <1>1, <2>2
        <4> QED BY <2>1, <4>1 DEF Fits
      <3> QED BY <3>1, <3>2 DEF Covers
    <2>7. q \in Step(p, t[i])
      BY <2>1, <2>2, <2>5, <2>6 DEF Step
    <2> QED BY <2>3, <2>4, <2>7 DEF Fitting
  <1>3. ASSUME NEW p \in Fitting(t, i - 1), NEW q \in Step(p, t[i]) PROVE q \in Fitting(t, i)
    <2>1. p \in DOMAIN tree /\ Fits(p, t, i - 1) /\ p \in Seq(Levels) /\ Len(p) = i - 1
      BY NodesOfTree DEF Fitting, Fits
    <2>2. q \in DOMAIN tree
      BY DEF Step
    <2>3. PICK l : q = Child(p, l) /\ l \in {"+", t[i]} /\ (l = t[i] \/ Covers(p, t[i]))
      BY DEF Step
    <2>4. Len(q) = i /\ q[i] = l /\ \A j \in 1..(i - 1) : q[j] = p[j]
      BY <1>1, <2>1, <2>3, ChildIs
    <2>5. \A j \in 1..i : q[j] \in {"+", t[j]}
      <3> SUFFICES ASSUME NEW j \in 1..i PROVE q[j] \in {"+", t[j]}
        OBVIOUS
      <3>1. CASE j = i
        BY <2>3, <2>4, <3>1
      <3>2. CASE j # i
        <4>1. j \in 1..(i - 1)
          BY <1>1, <3>2
        <4> QED BY <2>1, <2>4, <4>1 DEF Fits
      <3> QED BY <3>1, <3>2
    <2>6. q[1] = "+" => t[1] \notin System
      <3>1. CASE i = 1
        <4>1. p = <<>>
          BY <2>1, <3>1
        <4>2. t[1] # "+"
          BY <1>1, <3>1, TopicIs
        <4> QED BY <2>3, <2>4, <3>1, <4>1, <4>2 DEF Covers
      <3>2. CASE i # 1
        BY <1>1, <2>1, <2>4, <3>2 DEF Fits
      <3> QED BY <3>1, <3>2
    <2> QED BY <2>2, <2>4, <2>5, <2>6 DEF Fitting, Fits
  <1> QED BY <1>2, <1>3

\* The search level by level finds the nodes that fit.
LEMMA WalkFits ==
  ASSUME Handles(handles), TreeOf(tree, handles), NEW t \in Topics
  PROVE  LET g == CHOOSE g : Walk(g, t) IN \A i \in 0..Len(t) : g[i] = Fitting(t, i)
  <1> DEFINE n == Len(t)
             g == CHOOSE g : Walk(g, t)
             c == [i \in 0..n |-> Fitting(t, i)]
  <1>0. n \in Nat
    BY TopicIs
  <1>1. Fitting(t, 0) = {<<>>}
    <2>1. ASSUME NEW p \in Fitting(t, 0) PROVE p = <<>>
      <3>1. p \in Seq(Levels) /\ Len(p) = 0
        BY NodesOfTree DEF Fitting, Fits
      <3> QED BY <3>1
    <2>2. <<>> \in Fitting(t, 0)
      BY NodesOfTree DEF Fitting, Fits
    <2> QED BY <2>1, <2>2
  <1>2. Walk(c, t)
    <2>1. \A i \in 0..n : c[i] = IF i = 0 THEN {<<>>} ELSE UNION {Step(p, t[i]) : p \in c[i - 1]}
      <3> SUFFICES ASSUME NEW i \in 0..n
                   PROVE  c[i] = IF i = 0 THEN {<<>>} ELSE UNION {Step(p, t[i]) : p \in c[i - 1]}
        OBVIOUS
      <3>1. CASE i = 0
        BY <1>1, <3>1
      <3>2. CASE i # 0
        <4>1. i \in 1..n /\ i - 1 \in 0..n
          BY <1>0, <3>2
        <4>2. c[i] = Fitting(t, i) /\ c[i - 1] = Fitting(t, i - 1)
          BY <4>1
        <4> HIDE DEF c
        <4> QED BY <3>2, <4>1, <4>2, OneLevel
      <3> QED BY <3>1, <3>2
    <2>2. c = [i \in 0..n |-> c[i]]
      OBVIOUS
    <2> HIDE DEF c
    <2> QED BY <2>1, <2>2 DEF Walk
  <1>3. Walk(g, t)
    <2> HIDE DEF c
    <2> QED BY <1>2
  <1> HIDE DEF g
  <1>4. \A i \in 0..n : g[i] = IF i = 0 THEN {<<>>} ELSE UNION {Step(p, t[i]) : p \in g[i - 1]}
    BY <1>3 DEF Walk
  <1> DEFINE N == {i \in Nat : i \in 0..n => g[i] = Fitting(t, i)}
  <1>5. 0 \in N
    BY <1>0, <1>1, <1>4
  <1>6. ASSUME NEW i \in N PROVE i + 1 \in N
    <2> SUFFICES ASSUME i + 1 \in 0..n PROVE g[i + 1] = Fitting(t, i + 1)
      OBVIOUS
    <2>1. i \in Nat /\ i \in 0..n /\ i + 1 \in 1..n /\ i + 1 # 0 /\ (i + 1) - 1 = i
      BY <1>0
    <2>2. g[i] = Fitting(t, i)
      BY <2>1
    <2>3. g[i + 1] = UNION {Step(p, t[i + 1]) : p \in g[(i + 1) - 1]}
      BY <1>4, <2>1
    <2>4. Fitting(t, i + 1) = UNION {Step(p, t[i + 1]) : p \in Fitting(t, (i + 1) - 1)}
      BY <2>1, OneLevel
    <2> QED BY <2>1, <2>2, <2>3, <2>4
  <1>7. Nat \subseteq N
    <2>1. N \in SUBSET Nat
      OBVIOUS
    <2> HIDE DEF N
    <2> QED BY <1>5, <1>6, <2>1, NaturalsFrom0
  <1>8. \A i \in 0..n : g[i] = Fitting(t, i)
    BY <1>0, <1>7
  <1> QED BY <1>8 DEF g

--------------------------------------------------------------------------------
\* The search finds the subscriptions that match.

\* A filter someone subscribes to is reached just if it matches.
LEMMA ReachedMatches ==
  ASSUME Handles(handles), TreeOf(tree, handles), NEW t \in Topics,
         NEW f \in Filters, f \in DOMAIN tree
  PROVE  f \in Reached(t) <=> Match(f, t)
  <1> DEFINE n == Len(t)
             g == CHOOSE g : Walk(g, t)
             m == Len(f)
             hashes(i) == {Child(p, "#") : p \in {q \in g[i - 1] :
                        /\ tree[q].hash
                        /\ HasChild(DOMAIN tree, q, "#")
                        /\ Covers(q, t[i])}}
  <1>1. t \in Seq(Levels) /\ n \in Nat \ {0} /\ \A i \in 1..n : t[i] \notin {"+", "#"}
    BY TopicIs
  <1>2. f \in Seq(Levels) /\ m \in Nat \ {0} /\ \A i \in 1..m : f[i] = "#" => i = m
    BY PathsOf, FilterIs
  <1>3. Reached(t) = g[n] \cup UNION {hashes(i) : i \in 1..n}
    BY DEF Reached, Walk
  <1>4. \A i \in 0..n : g[i] = Fitting(t, i)
    BY WalkFits
  <1> HIDE DEF g
  <1>5. f \in g[n] <=> f \in Fitting(t, n)
    BY <1>1, <1>4
  <1>6. ASSUME NEW i \in 1..n
        PROVE  f \in hashes(i) <=>
                 \E p \in Fitting(t, i - 1) :
                    f = Child(p, "#") /\ tree[p].hash /\ Covers(p, t[i])
    <2>1. g[i - 1] = Fitting(t, i - 1)
      BY <1>1, <1>4
    <2> QED BY <2>1 DEF HasChild
  <1> HIDE DEF hashes
  <1>7. Last(f) = f[m]
    BY DEF Last
  <1>8. CASE Last(f) # "#"
    <2>1. \A i \in 1..m : f[i] # "#"
      BY <1>2, <1>7, <1>8
    <2>2. ASSUME NEW i \in 1..n PROVE f \notin hashes(i)
      <3> SUFFICES ASSUME f \in hashes(i) PROVE FALSE
        OBVIOUS
      <3>1. PICK p \in Fitting(t, i - 1) : f = Child(p, "#")
        BY <1>6
      <3>2. p \in Seq(Levels)
        BY NodesOfTree DEF Fitting
      <3>3. f[Len(p) + 1] = "#" /\ m = Len(p) + 1
        BY <3>1, <3>2, ChildIs
      <3> QED BY <1>7, <1>8, <3>3
    <2>3. f \in Reached(t) <=> Fits(f, t, n)
      BY <1>3, <1>5, <2>2 DEF Fitting
    <2>4. Match(f, t) <=> /\ n = m
                          /\ \A i \in 1..m : f[i] \in {"+", t[i]}
                          /\ f[1] \in {"+", "#"} => t[1] \notin System
      BY <1>8 DEF Match
    <2>5. f[1] # "#"
      BY <1>2, <2>1
    <2> QED BY <1>1, <1>2, <2>3, <2>4, <2>5 DEF Fits
  <1>9. CASE Last(f) = "#"
    <2>1. f[m] = "#"
      BY <1>7, <1>9
    <2>2. f \notin g[n]
      <3> SUFFICES ASSUME Fits(f, t, n) PROVE FALSE
        BY <1>5 DEF Fitting
      <3>1. m = n /\ f[n] \in {"+", t[n]}
        BY <1>1 DEF Fits
      <3> QED BY <1>1, <2>1, <3>1
    <2> DEFINE p == SubSeq(f, 1, m - 1)
    <2>3. /\ p \in Seq(Levels) /\ Len(p) = m - 1 /\ f = Child(p, "#")
          /\ \A j \in 1..(m - 1) : p[j] = f[j]
      <3>1. m - 1 \in Nat /\ Len(f) = (m - 1) + 1 /\ (m - 1) + 1 = m
        BY <1>2
      <3> HIDE DEF m
      <3> QED BY <1>2, <2>1, <3>1, FrontIs
    <2> HIDE DEF p
    <2>4. p \in DOMAIN tree /\ tree[p].hash
      BY <2>3, NodesOfTree
    <2>5. ASSUME NEW i \in 1..n
          PROVE  f \in hashes(i) <=> i = m /\ Fits(p, t, m - 1) /\ Covers(p, t[m])
      <3>1. ASSUME NEW q \in Fitting(t, i - 1), f = Child(q, "#") PROVE i = m /\ q = p
        <4>1. q \in Seq(Levels) /\ Len(q) = i - 1
          BY NodesOfTree DEF Fitting, Fits
        <4>2. m = Len(q) + 1 /\ \A j \in 1..Len(q) : f[j] = q[j]
          BY <3>1, <4>1, ChildIs
        <4>3. i = m
          BY <4>1, <4>2
        <4>4. Len(q) = Len(p) /\ \A j \in 1..Len(q) : q[j] = p[j]
          BY <2>3, <4>1, <4>2, <4>3
        <4>5. q = p
          BY <2>3, <4>1, <4>4, SeqEqual
        <4> QED BY <4>3, <4>5
      <3>2. f \in hashes(i) => i = m /\ Fits(p, t, m - 1) /\ Covers(p, t[m])
        <4> SUFFICES ASSUME f \in hashes(i) PROVE i = m /\ Fits(p, t, m - 1) /\ Covers(p, t[m])
          OBVIOUS
        <4>1. PICK q \in Fitting(t, i - 1) : f = Child(q, "#") /\ Covers(q, t[i])
          BY <1>6
        <4>2. i = m /\ q = p
          BY <3>1, <4>1
        <4> QED BY <4>1, <4>2 DEF Fitting
      <3>3. i = m /\ Fits(p, t, m - 1) /\ Covers(p, t[m]) => f \in hashes(i)
        BY <1>6, <2>3, <2>4 DEF Fitting
      <3> QED BY <3>2, <3>3
    <2>6. f \in Reached(t) <=> m \in 1..n /\ Fits(p, t, m - 1) /\ Covers(p, t[m])
      BY <1>3, <2>2, <2>5
    <2>7. Match(f, t) <=> /\ n > m - 1
                          /\ \A i \in 1..(m - 1) : f[i] \in {"+", t[i]}
                          /\ f[1] \in {"+", "#"} => t[1] \notin System
      BY <1>9 DEF Match
    <2>8. Fits(p, t, m - 1) <=> /\ \A i \in 1..(m - 1) : f[i] \in {"+", t[i]}
                                /\ m # 1 /\ f[1] = "+" => t[1] \notin System
      <3>1. m - 1 \in Nat /\ (m - 1 > 0 <=> m # 1)
        <4>1. m \in Nat \ {0}
          BY <1>2
        <4> HIDE DEF m
        <4>2. m - 1 \in Nat
          BY <4>1
        <4>3. m - 1 > 0 <=> m # 1
          BY <4>1
        <4> QED BY <4>2, <4>3
      <3>2. \A i \in 1..(m - 1) : p[i] = f[i]
        BY <2>3
      <3>3. m # 1 => p[1] = f[1]
        <4>1. m # 1 => 1 \in 1..(m - 1)
          BY <1>2
        <4> QED BY <3>2, <4>1
      <3>4. Len(p) = m - 1
        BY <2>3
      <3> HIDE DEF m
      <3> QED BY <3>1, <3>2, <3>3, <3>4 DEF Fits
    <2>9. Covers(p, t[m]) <=> (m = 1 => t[1] \notin System)
      <3>1. p = <<>> <=> m = 1
        <4>1. p = <<>> <=> Len(p) = 0
          <5>1. p \in Seq(Levels)
            BY <2>3
          <5> QED BY <5>1, EmptySeq
        <4> QED BY <1>2, <2>3, <4>1
      <3> QED BY <3>1 DEF Covers
    <2>10. CASE m = 1
      <3>1. f[1] = "#"
        BY <2>1, <2>10
      <3>2. (n > m - 1) <=> m \in 1..n
        BY <1>1, <2>10
      <3> QED BY <2>6, <2>7, <2>8, <2>9, <2>10, <3>1, <3>2
    <2>11. CASE m # 1
      <3>1. f[1] # "#"
        <4>1. 1 \in 1..m
          BY <1>2
        <4> HIDE DEF m
        <4> QED BY <1>2, <2>11, <4>1
      <3>2. (n > m - 1) <=> m \in 1..n
        BY <1>1, <1>2, <2>11
      <3> QED BY <2>6, <2>7, <2>8, <2>9, <2>11, <3>1, <3>2
    <2> QED BY <2>10, <2>11
  <1> QED BY <1>8, <1>9

\* The search through the tree of the handles finds the matching handles.
LEMMA TreeAgrees ==
  ASSUME Handles(handles), TreeOf(tree, handles)
  PROVE  SearchAgrees
  <1> SUFFICES ASSUME NEW t \in Topics
               PROVE  {<<m[1], m[3]>> : m \in Matched(t)}
                        = {h \in Clients \X Filters : h[2] \in handles[h[1]] /\ Match(h[2], t)}
    BY DEF SearchAgrees
  <1>1. ASSUME NEW m \in Matched(t)
        PROVE  m[1] \in Clients /\ m[3] \in Filters /\ m[3] \in handles[m[1]] /\ Match(m[3], t)
    <2>0. PICK p \in Reached(t) : m \in {<<c, tree[p].value[c], p>> : c \in DOMAIN tree[p].value}
      BY DEF Matched
    <2>1. PICK c \in DOMAIN tree[p].value : m = <<c, tree[p].value[c], p>>
      BY <2>0
    <2>2. p \in DOMAIN tree
      <3>1. \A i \in 0..Len(t) : (CHOOSE g : Walk(g, t))[i] = Fitting(t, i)
        BY WalkFits
      <3>2. Len(t) \in Nat
        BY TopicIs
      <3> DEFINE g == CHOOSE g : Walk(g, t)
                 hashes(i) == {Child(q, "#") : q \in {r \in g[i - 1] :
                        /\ tree[r].hash
                        /\ HasChild(DOMAIN tree, r, "#")
                        /\ Covers(r, t[i])}}
      <3>3. Reached(t) = g[Len(t)] \cup UNION {hashes(i) : i \in 1..Len(t)}
        BY DEF Reached, Walk
      <3> HIDE DEF g
      <3>4. g[Len(t)] \subseteq DOMAIN tree
        BY <3>1, <3>2 DEF g, Fitting
      <3>5. \A i \in 1..Len(t) : hashes(i) \subseteq DOMAIN tree
        BY DEF HasChild
      <3> QED BY <3>3, <3>4, <3>5
    <2>3. DOMAIN tree[p].value = {d \in Clients : p \in handles[d]}
      BY <2>2 DEF TreeOf
    <2>4. c \in Clients /\ p \in handles[c] /\ p \in Filters
      BY <2>3 DEF Handles
    <2>5. Match(p, t)
      BY <2>1, <2>2, <2>4, ReachedMatches
    <2> QED BY <2>1, <2>4, <2>5
  <1>2. ASSUME NEW c \in Clients, NEW f \in Filters, f \in handles[c], Match(f, t)
        PROVE  \E m \in Matched(t) : m[1] = c /\ m[3] = f
    <2>1. f \in DOMAIN tree /\ c \in DOMAIN tree[f].value
      BY <1>2, FilterIsThere
    <2>2. f \in Reached(t)
      BY <1>2, <2>1, ReachedMatches
    <2>3. <<c, tree[f].value[c], f>> \in Matched(t)
      BY <2>1, <2>2 DEF Matched
    <2> QED BY <2>3
  <1> QED BY <1>1, <1>2

--------------------------------------------------------------------------------
\* What two topic filters are, level by level.

\* What Match says of a topic filter that is valid: level by level, and the length.
LEMMA MatchIs ==
  ASSUME NEW f, IsFilter(f), NEW t \in Topics
  PROVE  Match(f, t) <=>
           /\ \A i \in 1..Len(f) : f[i] \in {"+", "#", t[i]}
           /\ IF f[Len(f)] = "#" THEN Len(t) >= Len(f) ELSE Len(t) = Len(f)
           /\ f[1] \in {"+", "#"} => t[1] \notin System
  <1> DEFINE m == Len(f)
  <1>1. m \in Nat \ {0} /\ DOMAIN f = 1..m /\ \A i \in 1..m : f[i] = "#" => i = m
    BY DEF IsFilter
  <1>2. Len(t) \in Nat
    BY TopicIs
  <1>3. Last(f) = f[m]
    BY DEF Last
  <1> HIDE DEF m
  <1>4. CASE f[m] = "#"
    <2>1. \A i \in 1..m : i = m \/ (i \in 1..(m - 1) /\ f[i] # "#")
      BY <1>1
    <2>2. \A i \in 1..(m - 1) : i \in 1..m
      BY <1>1
    <2>3. Match(f, t) <=> /\ Len(t) > m - 1
                          /\ \A i \in 1..(m - 1) : f[i] \in {"+", t[i]}
                          /\ f[1] \in {"+", "#"} => t[1] \notin System
      BY <1>3, <1>4 DEF Match, m
    <2>4. Len(t) > m - 1 <=> Len(t) >= m
      BY <1>1, <1>2
    <2> QED BY <1>4, <2>1, <2>2, <2>3, <2>4 DEF m
  <1>5. CASE f[m] # "#"
    <2>1. \A i \in 1..m : f[i] # "#"
      BY <1>1, <1>5
    <2>2. Match(f, t) <=> /\ Len(t) = m
                          /\ \A i \in 1..m : f[i] \in {"+", t[i]}
                          /\ f[1] \in {"+", "#"} => t[1] \notin System
      BY <1>3, <1>5 DEF Match, m
    <2> QED BY <1>5, <2>1, <2>2 DEF m
  <1> QED BY <1>4, <1>5

\* The positions of two sequences at which one of them is in a set, and the
\* first such position.
OneOfBoth(H, m, n, A, B) ==
  \A i : i \in H <=> i \in 1..m /\ i \in 1..n /\ (i \in A \/ i \in B)

FirstOfBoth(H, m, n, A, B) ==
  /\ H = {} => \A i \in 1..m : i <= n => i \notin A /\ i \notin B
  /\ H # {} => /\ Min(H) \in 1..m /\ Min(H) \in 1..n /\ (Min(H) \in A \/ Min(H) \in B)
               /\ \A i \in 1..(Min(H) - 1) : i \notin A /\ i \notin B

\* The least of the positions in both at which either has a property.
LEMMA FirstOf ==
  ASSUME NEW m \in Nat, NEW n \in Nat, NEW A, NEW B, NEW H, OneOfBoth(H, m, n, A, B)
  PROVE  FirstOfBoth(H, m, n, A, B)
  <1> USE DEF OneOfBoth
  <1>1. ASSUME H = {}, NEW i \in 1..m, i <= n PROVE i \notin A /\ i \notin B
    <2>1. i \in 1..n
      BY <1>1
    <2> QED BY <1>1, <2>1
  <1>2. ASSUME H # {}
        PROVE  /\ Min(H) \in 1..m /\ Min(H) \in 1..n /\ (Min(H) \in A \/ Min(H) \in B)
               /\ \A i \in 1..(Min(H) - 1) : i \notin A /\ i \notin B
    <2>1. H \in SUBSET Nat
      OBVIOUS
    <2>2. Min(H) \in H /\ \A j \in H : Min(H) <= j
      BY <1>2, <2>1, LeastOf DEF Min
    <2> DEFINE k == Min(H)
    <2>3. k \in 1..m /\ k \in 1..n /\ (k \in A \/ k \in B) /\ \A j \in H : k <= j
      BY <2>2
    <2> HIDE DEF k
    <2>4. ASSUME NEW i \in 1..(k - 1) PROVE i \notin A /\ i \notin B
      <3>1. i \in 1..m /\ i \in 1..n /\ ~(k <= i)
        BY <2>3
      <3>2. i \notin H
        BY <2>3, <3>1
      <3> QED BY <3>1, <3>2
    <2> QED BY <2>3, <2>4 DEF k
  <1> QED BY <1>1, <1>2 DEF FirstOfBoth

\* What FirstHash yields.
FirstIs(a, f, k) ==
  /\ k \in Nat /\ k <= Len(a) /\ k <= Len(f)
  /\ k = 0 => \A i \in 1..Len(a) : i <= Len(f) => a[i] # "#" /\ f[i] # "#"
  /\ k # 0 => /\ "#" \in {a[k], f[k]}
              /\ a[k] = "#" => k = Len(a)
              /\ f[k] = "#" => k = Len(f)
              /\ \A i \in 1..(k - 1) : a[i] # "#" /\ f[i] # "#"

\* FirstHash is the first level at which either has "#", or 0 where none has.
LEMMA FirstHashIs ==
  ASSUME NEW a, IsFilter(a), NEW f, IsFilter(f)
  PROVE  FirstIs(a, f, FirstHash(a, f))
  <1> DEFINE m == Len(a)
             n == Len(f)
             H == {i \in DOMAIN a \cap DOMAIN f : "#" \in {a[i], f[i]}}
             A == {i \in 1..m : a[i] = "#"}
             B == {i \in 1..n : f[i] = "#"}
  <1>1. /\ m \in Nat /\ DOMAIN a = 1..m
        /\ n \in Nat /\ DOMAIN f = 1..n
        /\ \A i \in 1..m : a[i] = "#" => i = m
        /\ \A i \in 1..n : f[i] = "#" => i = n
    BY DEF IsFilter
  <1> HIDE DEF m, n
  <1>2. \A i : i \in H <=> i \in 1..m /\ i \in 1..n /\ (i \in A \/ i \in B)
    BY <1>1
  <1>3. A \in SUBSET (1..m) /\ B \in SUBSET (1..n)
    OBVIOUS
  <1>4. FirstHash(a, f) = IF H = {} THEN 0 ELSE Min(H)
    BY DEF FirstHash
  <1>5. \A i : (i \in A <=> i \in 1..m /\ a[i] = "#") /\ (i \in B <=> i \in 1..n /\ f[i] = "#")
    OBVIOUS
  <1> HIDE DEF H, A, B
  <1>9. m \in Nat /\ n \in Nat
    BY <1>1
  <1>8. FirstOfBoth(H, m, n, A, B)
    BY <1>2, <1>9, FirstOf DEF OneOfBoth
  <1>6. CASE H = {}
    <2>1. FirstHash(a, f) = 0
      BY <1>4, <1>6
    <2>2. ASSUME NEW i \in 1..m, i <= n PROVE a[i] # "#" /\ f[i] # "#"
      <3>1. i \in 1..n /\ i \notin A /\ i \notin B
        BY <1>1, <1>6, <1>8, <2>2 DEF FirstOfBoth
      <3> QED BY <1>5, <3>1
    <2>3. \A i \in 1..m : i <= n => a[i] # "#" /\ f[i] # "#"
      BY <2>2
    <2>4. 0 \in Nat /\ 0 <= m /\ 0 <= n
      BY <1>1
    <2> QED BY <2>1, <2>3, <2>4 DEF FirstIs, m, n
  <1>7. CASE H # {}
    <2> DEFINE k == FirstHash(a, f)
    <2>1. k = Min(H)
      BY <1>4, <1>7
    <2>2. k \in 1..m /\ k \in 1..n /\ (k \in A \/ k \in B)
      /\ \A i \in 1..(k - 1) : i \notin A /\ i \notin B
      BY <1>7, <1>8, <2>1 DEF FirstOfBoth
    <2> HIDE DEF k
    <2>3. "#" \in {a[k], f[k]} /\ (a[k] = "#" => k = m) /\ (f[k] = "#" => k = n)
      BY <1>1, <1>5, <2>2
    <2>4. ASSUME NEW i \in 1..(k - 1) PROVE a[i] # "#" /\ f[i] # "#"
      <3>1. i \in 1..m /\ i \in 1..n
        BY <1>1, <2>2
      <3> QED BY <1>5, <2>2, <3>1
    <2>5. k \in Nat /\ k <= m /\ k <= n /\ k # 0
      BY <1>1, <2>2
    <2> QED BY <2>3, <2>4, <2>5 DEF FirstIs, m, n, k
  <1> QED BY <1>6, <1>7

\* What two topic filters have in common, as IsSubscribeAllowed puts it together.
IsCommon(a, f, k, rest, b) ==
  /\ b \in Seq(ToSet(a) \cup ToSet(f)) /\ Len(b) = Len(rest)
  /\ \A i \in 1..(k - 1) : b[i] = IF a[i] = "+" THEN f[i] ELSE a[i]
  /\ \A i \in k..Len(rest) : b[i] = rest[i]

\* What is_subscribe_allowed() puts together: the levels in common, then the rest.
LEMMA CommonIs ==
  ASSUME NEW a, IsFilter(a), NEW f, IsFilter(f), NEW k \in Nat, k <= Len(a), k <= Len(f),
         k # 0, NEW rest, rest \in {a, f}
  PROVE  IsCommon(a, f, k, rest, Common(a, f, k - 1) \o SubSeq(rest, k, Len(rest)))
  <1> DEFINE S == ToSet(a) \cup ToSet(f)
             c == Common(a, f, k - 1)
             d == SubSeq(rest, k, Len(rest))
  <1>1. a \in Seq(S) /\ f \in Seq(S) /\ Len(a) \in Nat /\ Len(f) \in Nat
    <2>1. a \in Seq(ToSet(a)) /\ f \in Seq(ToSet(f))
      BY DEF IsFilter
    <2> HIDE DEF IsFilter
    <2> QED BY <2>1, SeqMonotonic
  <1> HIDE DEF S
  <1>2. c \in Seq(S) /\ Len(c) = k - 1 /\ \A i \in 1..(k - 1) : c[i] = IF a[i] = "+" THEN f[i] ELSE a[i]
    <2>1. \A i \in 1..(k - 1) : (IF a[i] = "+" THEN f[i] ELSE a[i]) \in S
      BY <1>1
    <2>2. c \in [1..(k - 1) -> S]
      BY <2>1 DEF Common
    <2> QED BY <2>2 DEF Common
  <1>3. rest \in Seq(S) /\ Len(rest) \in Nat /\ k <= Len(rest)
    BY <1>1
  <1>4. d \in Seq(S) /\ Len(d) = Len(rest) - k + 1 /\ \A j \in 1..(Len(rest) - k + 1) : d[j] = rest[k + j - 1]
    BY <1>3
  <1> HIDE DEF c, d
  <1> DEFINE b == c \o d
  <1>5. b \in Seq(S) /\ Len(b) = Len(rest)
    BY <1>2, <1>3, <1>4
  <1>6. \A i \in 1..(k - 1) : b[i] = c[i]
    BY <1>2, <1>3, <1>4
  <1>7. ASSUME NEW i \in k..Len(rest) PROVE b[i] = rest[i]
    <2>1. b[i] = d[i - (k - 1)]
      BY <1>2, <1>3, <1>4
    <2>2. i - (k - 1) \in 1..(Len(rest) - k + 1) /\ k + (i - (k - 1)) - 1 = i
      BY <1>3
    <2> QED BY <1>4, <2>1, <2>2
  <1> QED BY <1>2, <1>5, <1>6, <1>7 DEF S, c, d, IsCommon

--------------------------------------------------------------------------------
\* Topic names that fit a topic filter, or two.

\* What a topic name of n levels and a topic filter of m have to do with each other.
Fitted(f, m, t, n) ==
  /\ \A i \in 1..m : f[i] \in {"+", "#", t[i]}
  /\ IF f[m] = "#" THEN n >= m ELSE n = m
  /\ f[1] \in {"+", "#"} => t[1] \notin System

\* A sequence that is a topic filter, of m levels.
Shaped(f, m) == m \in Nat \ {0} /\ \A i \in 1..m : f[i] = "#" => i = m

\* Match is Fitted.
LEMMA FittedIs ==
  ASSUME NEW f, IsFilter(f), NEW t \in Topics
  PROVE  /\ Match(f, t) <=> Fitted(f, Len(f), t, Len(t))
         /\ Shaped(f, Len(f))
  BY MatchIs DEF Fitted, Shaped, IsFilter

\* From k on, b goes on as c, of m levels.
AsFrom(b, c, k, m) == \A i \in k..m : b[i] = c[i]

\* The levels b that a of m and f of n levels have in common, when k is the
\* first one at which either has "#".
Joining(a, m, f, n, k, b, h) ==
  /\ k \in 1..m /\ k \in 1..n
  /\ \A i \in 1..(k - 1) : a[i] # "#" /\ f[i] # "#" /\ b[i] = IF a[i] = "+" THEN f[i] ELSE a[i]
  /\ \/ a[k] = "#" /\ k = m /\ h = n /\ AsFrom(b, f, k, n)
     \/ f[k] = "#" /\ k = n /\ h = m /\ AsFrom(b, a, k, m)

\* A topic name that fits both fits what they have in common, which then is something.
LEMMA BothJoin ==
  ASSUME NEW a, NEW m, Shaped(a, m), NEW f, NEW n, Shaped(f, n), NEW k, NEW b, NEW h,
         Joining(a, m, f, n, k, b, h), NEW t, NEW l \in Nat,
         \A i \in 1..l : t[i] \notin {"+", "#"},
         Fitted(a, m, t, l), Fitted(f, n, t, l)
  PROVE  Fitted(b, h, t, l) /\ Meets(a, f, k - 1)
  <1>1. m \in Nat \ {0} /\ n \in Nat \ {0} /\ k \in 1..m /\ k \in 1..n /\ h \in {m, n} /\ k <= h
    BY DEF Shaped, Joining
  <1>2. ASSUME NEW i \in 1..(k - 1) PROVE a[i] \in {"+", t[i]} /\ f[i] \in {"+", t[i]}
    <2>1. i \in 1..m /\ i \in 1..n
      BY <1>1
    <2>2. a[i] # "#" /\ f[i] # "#"
      BY DEF Joining
    <2> QED BY <2>1, <2>2 DEF Fitted
  <1>3. Meets(a, f, k - 1)
    BY <1>2 DEF Meets
  <1>4. ASSUME NEW i \in 1..(k - 1) PROVE b[i] \in {"+", t[i]} /\ b[i] \in {a[i], f[i]}
    BY <1>2 DEF Joining
  <1>5. ASSUME NEW c, NEW u, Fitted(c, u, t, l), h = u, u \in Nat, k <= u, AsFrom(b, c, k, u),
               c \in {a, f}
        PROVE  Fitted(b, h, t, l)
    <2>1. ASSUME NEW i \in 1..h PROVE b[i] \in {"+", "#", t[i]}
      <3>1. CASE i < k
        <4>1. i \in 1..(k - 1)
          BY <1>1, <3>1
        <4> QED BY <1>4, <4>1
      <3>2. CASE ~(i < k)
        <4>1. i \in k..u /\ i \in 1..u
          BY <1>1, <1>5, <3>2
        <4> QED BY <1>5, <4>1 DEF Fitted, AsFrom
      <3> QED BY <3>1, <3>2
    <2>2. b[h] = c[u]
      <3>1. u \in k..u
        BY <1>5
      <3> QED BY <1>5, <3>1 DEF AsFrom
    <2>3. b[1] \in {"+", "#"} => t[1] \notin System
      <3>1. CASE k = 1
        <4>1. 1 \in k..u
          BY <1>5, <3>1
        <4> QED BY <1>5, <4>1 DEF Fitted, AsFrom
      <3>2. CASE k # 1
        <4>1. 1 \in 1..(k - 1)
          BY <1>1, <3>2
        <4>2. b[1] \in {a[1], f[1]}
          BY <1>4, <4>1
        <4> QED BY <4>2 DEF Fitted
      <3> QED BY <3>1, <3>2
    <2> QED BY <1>5, <2>1, <2>2, <2>3 DEF Fitted
  <1>6. CASE h = n /\ AsFrom(b, f, k, n)
    <2>1. n \in Nat /\ k <= n /\ f \in {a, f}
      BY <1>1
    <2> QED BY <1>3, <1>5, <1>6, <2>1
  <1>7. CASE h = m /\ AsFrom(b, a, k, m)
    <2>1. m \in Nat /\ k <= m /\ a \in {a, f}
      BY <1>1
    <2> QED BY <1>3, <1>5, <1>7, <2>1
  <1> QED BY <1>3, <1>6, <1>7 DEF Joining

\* A topic name that fits what both have in common fits both, but for first levels with $.
LEMMA JoinIsBoth ==
  ASSUME NEW a, NEW m, Shaped(a, m), NEW f, NEW n, Shaped(f, n), NEW k, NEW b, NEW h,
         Joining(a, m, f, n, k, b, h), Meets(a, f, k - 1), NEW t, NEW l \in Nat,
         t[1] \notin System, Fitted(b, h, t, l)
  PROVE  Fitted(a, m, t, l) /\ Fitted(f, n, t, l)
  <1>1. m \in Nat \ {0} /\ n \in Nat \ {0} /\ k \in 1..m /\ k \in 1..n /\ h \in {m, n} /\ k <= h
    BY DEF Shaped, Joining
  <1>2. k <= l
    BY <1>1 DEF Fitted
  <1>3. ASSUME NEW i \in 1..(k - 1) PROVE a[i] \in {"+", "#", t[i]} /\ f[i] \in {"+", "#", t[i]}
    <2>1. i \in 1..h
      BY <1>1
    <2>2. b[i] \in {"+", "#", t[i]}
      BY <2>1 DEF Fitted
    <2>3. b[i] = IF a[i] = "+" THEN f[i] ELSE a[i]
      BY DEF Joining
    <2>4. a[i] = "+" \/ f[i] \in {"+", a[i]}
      BY DEF Meets
    <2> QED BY <2>2, <2>3, <2>4
  <1>4. ASSUME NEW c, NEW u, h = u, AsFrom(b, c, k, u),
               \A i \in 1..(k - 1) : c[i] \in {"+", "#", t[i]}
        PROVE  Fitted(c, u, t, l)
    <2>1. ASSUME NEW i \in 1..u PROVE c[i] \in {"+", "#", t[i]}
      <3>1. CASE i < k
        <4>1. i \in 1..(k - 1)
          BY <1>1, <3>1
        <4> QED BY <1>4, <4>1
      <3>2. CASE ~(i < k)
        <4>1. i \in k..u /\ i \in 1..h
          BY <1>1, <1>4, <3>2
        <4> QED BY <1>4, <4>1 DEF Fitted, AsFrom
      <3> QED BY <3>1, <3>2
    <2>2. b[h] = c[u]
      <3>1. u \in k..u
        BY <1>1, <1>4
      <3> QED BY <1>4, <3>1 DEF AsFrom
    <2> QED BY <1>4, <2>1, <2>2 DEF Fitted
  <1>5. ASSUME NEW c, c[k] = "#", \A i \in 1..(k - 1) : c[i] \in {"+", "#", t[i]}
        PROVE  Fitted(c, k, t, l)
    <2>1. ASSUME NEW i \in 1..k PROVE c[i] \in {"+", "#", t[i]}
      <3>1. i = k \/ i \in 1..(k - 1)
        BY <1>1
      <3> QED BY <1>5, <3>1
    <2> QED BY <1>2, <1>5, <2>1 DEF Fitted
  <1>6. CASE a[k] = "#" /\ k = m /\ h = n /\ AsFrom(b, f, k, n)
    BY <1>3, <1>4, <1>5, <1>6
  <1>7. CASE f[k] = "#" /\ k = n /\ h = m /\ AsFrom(b, a, k, m)
    BY <1>3, <1>4, <1>5, <1>7
  <1> QED BY <1>6, <1>7 DEF Joining

\* Neither has "#" among the levels of the shorter one.
LEMMA PlainBoth ==
  ASSUME NEW a, NEW m, Shaped(a, m), NEW f, NEW n, Shaped(f, n), NEW b,
         \A i \in 1..m : i <= n => a[i] # "#" /\ f[i] # "#",
         \A i \in 1..n : b[i] = IF a[i] = "+" THEN f[i] ELSE a[i],
         NEW t, NEW l \in Nat, \A i \in 1..l : t[i] \notin {"+", "#"}
  PROVE  /\ Fitted(a, m, t, l) /\ Fitted(f, n, t, l) =>
              m = n /\ Meets(a, f, n) /\ Fitted(b, n, t, l)
         /\ m = n /\ Meets(a, f, n) /\ t[1] \notin System /\ Fitted(b, n, t, l) =>
              Fitted(a, m, t, l) /\ Fitted(f, n, t, l)
  <1>1. m \in Nat \ {0} /\ n \in Nat \ {0}
    BY DEF Shaped
  <1>2. ASSUME Fitted(a, m, t, l), Fitted(f, n, t, l)
        PROVE  m = n /\ Meets(a, f, n) /\ Fitted(b, n, t, l)
    <2>1. CASE m < n
      <3>1. a[m] # "#"
        BY <1>1, <2>1
      <3>2. l = m /\ l >= n
        BY <1>2, <3>1 DEF Fitted
      <3> QED BY <1>1, <2>1, <3>2
    <2>2. CASE n < m
      <3>1. n \in 1..m
        BY <1>1, <2>2
      <3>2. f[n] # "#"
        BY <1>1, <3>1
      <3>3. l = n /\ l >= m
        BY <1>2, <3>2 DEF Fitted
      <3> QED BY <1>1, <2>2, <3>3
    <2>3. CASE m = n
      <3>1. ASSUME NEW i \in 1..n PROVE a[i] \in {"+", t[i]} /\ f[i] \in {"+", t[i]}
        <4>1. i <= n /\ i \in 1..m
          BY <1>1, <2>3
        <4> QED BY <1>2, <4>1 DEF Fitted
      <3>2. Meets(a, f, n)
        BY <3>1 DEF Meets
      <3>3. \A i \in 1..n : b[i] \in {"+", t[i]} /\ b[i] \in {a[i], f[i]}
        BY <3>1
      <3>4. n \in 1..n /\ 1 \in 1..n
        BY <1>1
      <3>5. b[n] # "#" /\ a[n] # "#"
        BY <2>3, <3>3, <3>4
      <3>6. l = n
        BY <1>2, <2>3, <3>5 DEF Fitted
      <3>7. b[1] \in {"+", "#"} => t[1] \notin System
        BY <1>2, <3>3, <3>4 DEF Fitted
      <3> QED BY <2>3, <3>2, <3>3, <3>5, <3>6, <3>7 DEF Fitted
    <2> QED BY <1>1, <2>1, <2>2, <2>3
  <1>3. ASSUME m = n, Meets(a, f, n), t[1] \notin System, Fitted(b, n, t, l)
        PROVE  Fitted(a, m, t, l) /\ Fitted(f, n, t, l)
    <2>1. ASSUME NEW i \in 1..n PROVE a[i] \in {"+", "#", t[i]} /\ f[i] \in {"+", "#", t[i]}
      <3>1. b[i] \in {"+", "#", t[i]}
        BY <1>3 DEF Fitted
      <3>2. b[i] = IF a[i] = "+" THEN f[i] ELSE a[i]
        OBVIOUS
      <3>3. a[i] = "+" \/ f[i] \in {"+", a[i]}
        BY <1>3 DEF Meets
      <3> QED BY <3>1, <3>2, <3>3
    <2>2. n \in 1..n
      BY <1>1
    <2>3. a[n] # "#" /\ f[n] # "#" /\ b[n] \in {a[n], f[n]}
      BY <1>1, <1>3, <2>2
    <2>4. l = n
      BY <1>3, <2>3 DEF Fitted
    <2> QED BY <1>3, <2>1, <2>3, <2>4 DEF Fitted
  <1> QED BY <1>2, <1>3

--------------------------------------------------------------------------------
\* What a rule and a subscription have in common.

\* is_subscribe_allowed() of two topic filters, and is_subscribe_denied().
LEMMA AllowedIsBoth ==
  ASSUME NEW a, IsFilter(a), NEW f, IsFilter(f), NEW t \in Topics
  PROVE  LET both == IsSubscribeAllowed(a, f) IN
         /\ Match(a, t) /\ Match(f, t) => both # <<>> /\ Match(both, t)
         /\ t[1] \notin System /\ both # <<>> /\ Match(both, t) => Match(a, t) /\ Match(f, t)
  <1> DEFINE m == Len(a)
             n == Len(f)
             l == Len(t)
             k == FirstHash(a, f)
             both == IsSubscribeAllowed(a, f)
  <1>1. Shaped(a, m) /\ Shaped(f, n) /\ m \in Nat \ {0} /\ n \in Nat \ {0}
    BY FittedIs DEF Shaped
  <1>2. l \in Nat /\ \A i \in 1..l : t[i] \notin {"+", "#"}
    BY TopicIs
  <1>3. (Match(a, t) <=> Fitted(a, m, t, l)) /\ (Match(f, t) <=> Fitted(f, n, t, l))
    BY FittedIs
  <1>4. FirstIs(a, f, k)
    BY FirstHashIs
  <1>5. \A b : IsFilter(b) => b # <<>> /\ (Match(b, t) <=> Fitted(b, Len(b), t, l))
    BY FittedIs DEF IsFilter
  <1>6. CASE k # 0
    <2> DEFINE rest == IF a[k] = "#" THEN f ELSE a
               b == Common(a, f, k - 1) \o SubSeq(rest, k, Len(rest))
               h == Len(rest)
    <2> HIDE DEF k
    <2>1. k \in Nat /\ k <= m /\ k <= n /\ k # 0
      BY <1>4, <1>6 DEF FirstIs, k
    <2>2. rest \in {a, f}
      OBVIOUS
    <2>3. both = IF Meets(a, f, k - 1) THEN b ELSE <<>>
      BY <1>6 DEF IsSubscribeAllowed, k
    <2>4. /\ a[k] = "#" => k = m
          /\ f[k] = "#" => k = n
          /\ "#" \in {a[k], f[k]}
          /\ \A i \in 1..(k - 1) : a[i] # "#" /\ f[i] # "#"
      BY <1>4, <1>6 DEF FirstIs, k
    <2>5. (a[k] = "#" /\ rest = f /\ h = n) \/ (f[k] = "#" /\ rest = a /\ h = m)
      BY <2>4
    <2> HIDE DEF rest
    <2>6. /\ b \in Seq(ToSet(a) \cup ToSet(f)) /\ Len(b) = Len(rest)
          /\ \A i \in 1..(k - 1) : b[i] = IF a[i] = "+" THEN f[i] ELSE a[i]
          /\ \A i \in k..Len(rest) : b[i] = rest[i]
      <3>1. IsCommon(a, f, k, rest, b)
        BY <2>1, <2>2, CommonIs
      <3> QED BY <3>1 DEF IsCommon
    <2> HIDE DEF b, k, both
    <2>7. Joining(a, m, f, n, k, b, h)
      <3>1. k \in 1..m /\ k \in 1..n
        BY <1>1, <2>1
      <3> QED BY <2>4, <2>5, <2>6, <3>1 DEF Joining, AsFrom
    <2>8. IsFilter(b) /\ Len(b) = h
      <3>1. b \in Seq(ToSet(b)) /\ DOMAIN b = 1..Len(b) /\ Len(b) = h
        BY <2>6, OwnElements
      <3>2. h \in Nat \ {0}
        BY <1>1, <2>5
      <3>3. ASSUME NEW i \in 1..h, b[i] = "#" PROVE i = h
        <4>1. CASE i \in 1..(k - 1)
          BY <2>4, <2>6, <3>3, <4>1
        <4>2. CASE i \notin 1..(k - 1)
          <5>1. i \in k..h
            BY <2>1, <3>2, <4>2
          <5>2. rest[i] = "#"
            BY <2>6, <3>3, <5>1
          <5> QED BY <2>5, <5>2, <1>1 DEF Shaped
        <4> QED BY <4>1, <4>2
      <3>4. b # <<>>
        BY <3>1, <3>2
      <3> QED BY <3>1, <3>3, <3>4 DEF IsFilter
    <2>9. b # <<>> /\ (Match(b, t) <=> Fitted(b, h, t, l))
      BY <1>5, <2>8
    <2> HIDE DEF m, n, h, l
    <2>10. Match(a, t) /\ Match(f, t) => Meets(a, f, k - 1) /\ Match(b, t)
      BY <1>1, <1>2, <1>3, <2>7, <2>9, BothJoin
    <2>11. Meets(a, f, k - 1) /\ t[1] \notin System /\ Match(b, t) => Match(a, t) /\ Match(f, t)
      BY <1>1, <1>2, <1>3, <2>7, <2>9, JoinIsBoth
    <2> QED BY <2>3, <2>9, <2>10, <2>11 DEF both
  <1>7. CASE k = 0
    <2> DEFINE b == Common(a, f, n)
    <2>1. both = IF m = n /\ Meets(a, f, n) THEN b ELSE <<>>
      BY <1>7 DEF IsSubscribeAllowed
    <2>2. \A i \in 1..m : i <= n => a[i] # "#" /\ f[i] # "#"
      BY <1>4, <1>7 DEF FirstIs
    <2>3. \A i \in 1..n : b[i] = IF a[i] = "+" THEN f[i] ELSE a[i]
      BY DEF Common
    <2> HIDE DEF k, both
    <2>4. ASSUME m = n PROVE IsFilter(b) /\ Len(b) = n
      <3>1. \A i \in 1..n : b[i] \in ToSet(b)
        BY <1>1 DEF Common, ToSet
      <3>2. b \in [1..n -> ToSet(b)]
        BY <3>1 DEF Common
      <3>3. b \in Seq(ToSet(b)) /\ Len(b) = n /\ DOMAIN b = 1..n
        BY <1>1, <3>2
      <3>4. \A i \in 1..n : b[i] # "#"
        BY <1>1, <2>2, <2>3, <2>4
      <3>5. b # <<>>
        BY <1>1, <3>3
      <3> QED BY <3>3, <3>4, <3>5 DEF IsFilter
    <2>5. m = n => b # <<>> /\ (Match(b, t) <=> Fitted(b, n, t, l))
      BY <1>5, <2>4
    <2> HIDE DEF b, m, n, l
    <2>6. /\ Fitted(a, m, t, l) /\ Fitted(f, n, t, l) =>
               m = n /\ Meets(a, f, n) /\ Fitted(b, n, t, l)
          /\ m = n /\ Meets(a, f, n) /\ t[1] \notin System /\ Fitted(b, n, t, l) =>
               Fitted(a, m, t, l) /\ Fitted(f, n, t, l)
      BY <1>1, <1>2, <2>2, <2>3, PlainBoth
    <2> QED BY <1>3, <2>1, <2>5, <2>6 DEF both
  <1> QED BY <1>6, <1>7

\* Of what is_subscribe_denied() denies, all topic names match the rule.
LEMMA DeniedIsMatched ==
  ASSUME NEW a, IsFilter(a), NEW f, IsFilter(f), NEW t \in Topics,
         t[1] \notin System, IsSubscribeDenied(a, f), Match(f, t)
  PROVE  Match(a, t)
  <1> DEFINE m == Len(a)
             n == Len(f)
             l == Len(t)
             hash == Last(a) = "#" /\ n >= m /\ f[m] # "#"
             c == IF hash THEN m - 1 ELSE m
  <1>1. Shaped(a, m) /\ Shaped(f, n) /\ m \in Nat \ {0} /\ n \in Nat \ {0} /\ Last(a) = a[m]
    BY FittedIs DEF Shaped, Last
  <1>2. l \in Nat /\ \A i \in 1..l : t[i] \notin {"+", "#"}
    BY TopicIs
  <1>3. (Match(a, t) <=> Fitted(a, m, t, l)) /\ Fitted(f, n, t, l)
    BY FittedIs
  <1>4. /\ hash \/ n = m
        /\ \A i \in 1..c : a[i] = f[i] \/ (a[i] = "+" /\ f[i] # "#")
    BY DEF IsSubscribeDenied
  <1>5. hash <=> a[m] = "#" /\ n >= m /\ f[m] # "#"
    BY <1>1
  <1>6. c = IF hash THEN m - 1 ELSE m
    OBVIOUS
  <1> DEFINE d == hash
  <1> HIDE DEF m, n, l, hash, c
  <1>7. CASE hash
    <2>1. ASSUME NEW i \in 1..m PROVE a[i] \in {"+", "#", t[i]}
      <3>1. CASE i = m
        BY <1>5, <1>7, <3>1
      <3>2. CASE i # m
        <4>1. i \in 1..c /\ i \in 1..n
          BY <1>1, <1>5, <1>6, <1>7, <3>2
        <4> QED BY <1>3, <1>4, <4>1 DEF Fitted
      <3> QED BY <3>1, <3>2
    <2>2. l >= m
      BY <1>1, <1>2, <1>3, <1>5, <1>7 DEF Fitted
    <2> QED BY <1>3, <1>5, <1>7, <2>1, <2>2 DEF Fitted
  <1>8. CASE ~hash
    <2>1. n = m /\ c = m
      BY <1>4, <1>6, <1>8
    <2>2. \A i \in 1..m : a[i] = f[i] \/ (a[i] = "+" /\ f[i] # "#")
      BY <1>4, <2>1
    <2>3. m \in 1..m
      BY <1>1
    <2>4. a[m] = "#" <=> f[m] = "#"
      BY <2>2, <2>3
    <2>5. \A i \in 1..m : a[i] \in {"+", "#", t[i]}
      BY <1>3, <2>1, <2>2 DEF Fitted
    <2> QED BY <1>3, <2>1, <2>4, <2>5 DEF Fitted
  <1> QED BY <1>7, <1>8

--------------------------------------------------------------------------------
\* The members of the shared subscriptions, and whose turn it is.

\* Members of shared subscriptions, and that one of a client and a share name has f.
Members == [client : Clients, share : Shares, filters : SUBSET Filters]
Has(line, c, share, f) == \E i \in DOMAIN line : IsOf(line[i], c, share) /\ f \in line[i].filters

\* Who is in a line is in another.
Keeps(line, other) == \A i \in DOMAIN line : \E j \in DOMAIN other : other[j] = line[i]

\* insert(): a member more, or a topic filter more.
LEMMA JoinedIs ==
  ASSUME targets \in Seq(Members), NEW c \in Clients, NEW share \in Shares, NEW f \in Filters
  PROVE  /\ Joined(c, share, f) \in Seq(Members) /\ Has(Joined(c, share, f), c, share, f)
         /\ \A d, other, e : Has(targets, d, other, e) => Has(Joined(c, share, f), d, other, e)
  <1> DEFINE m == [client |-> c, share |-> share, filters |-> {f}]
             line == [i \in DOMAIN targets |->
                        IF IsOf(targets[i], c, share)
                        THEN [targets[i] EXCEPT !.filters = @ \cup {f}] ELSE targets[i]]
  <1>1. CASE \E i \in DOMAIN targets : IsOf(targets[i], c, share)
    <2>1. Joined(c, share, f) = line
      BY <1>1 DEF Joined
    <2>2. ASSUME NEW i \in DOMAIN targets
          PROVE  /\ line[i] \in Members /\ line[i].client = targets[i].client
                 /\ line[i].share = targets[i].share
                 /\ targets[i].filters \subseteq line[i].filters
                 /\ IsOf(targets[i], c, share) => f \in line[i].filters
      <3>1. targets[i] \in Members
        OBVIOUS
      <3>2. line[i] = IF IsOf(targets[i], c, share)
                      THEN [targets[i] EXCEPT !.filters = @ \cup {f}] ELSE targets[i]
        OBVIOUS
      <3> QED BY <3>1, <3>2 DEF Members
    <2>3. DOMAIN line = DOMAIN targets /\ DOMAIN targets = 1..Len(targets) /\ Len(targets) \in Nat
      OBVIOUS
    <2>4. line \in Seq(Members)
      <3>1. line = [i \in 1..Len(targets) |-> line[i]]
        BY <2>3
      <3>2. \A i \in 1..Len(targets) : line[i] \in Members
        BY <2>2, <2>3
      <3> HIDE DEF line
      <3>3. line \in [1..Len(targets) -> Members]
        BY <3>1, <3>2
      <3> QED BY <2>3, <3>3
    <2> HIDE DEF line
    <2> QED BY <1>1, <2>1, <2>2, <2>3, <2>4 DEF Has, IsOf
  <1>2. CASE ~\E i \in DOMAIN targets : IsOf(targets[i], c, share)
    <2>1. Joined(c, share, f) = Append(targets, m)
      BY <1>2 DEF Joined
    <2>2. m \in Members /\ IsOf(m, c, share) /\ f \in m.filters
      BY DEF Members, IsOf
    <2> HIDE DEF m
    <2>3. /\ Append(targets, m) \in Seq(Members)
          /\ DOMAIN Append(targets, m) = 1..(Len(targets) + 1)
          /\ Append(targets, m)[Len(targets) + 1] = m
          /\ \A i \in DOMAIN targets :
                i \in 1..(Len(targets) + 1) /\ Append(targets, m)[i] = targets[i]
      BY <2>2
    <2>4. Len(targets) + 1 \in DOMAIN Append(targets, m)
      BY <2>3
    <2> QED BY <2>1, <2>2, <2>3, <2>4 DEF Has
  <1> QED BY <1>1, <1>2

\* erase(): a topic filter less, or a member less.
LEMMA LeftIs ==
  ASSUME targets \in Seq(Members), NEW c, NEW share, NEW f
  PROVE  /\ Left(c, share, f) \in Seq(Members)
         /\ \A d, other, e : Has(targets, d, other, e) /\ (d # c \/ e # f)
                              => Has(Left(c, share, f), d, other, e)
  <1> DEFINE line == [i \in DOMAIN targets |->
                        IF IsOf(targets[i], c, share)
                        THEN [targets[i] EXCEPT !.filters = @ \ {f}] ELSE targets[i]]
  <1>1. ASSUME NEW i \in DOMAIN targets
        PROVE  /\ line[i] \in Members /\ line[i].client = targets[i].client
               /\ line[i].share = targets[i].share
               /\ \A e \in targets[i].filters :
                     targets[i].client # c \/ e # f => e \in line[i].filters
    <2>1. targets[i] \in Members
      OBVIOUS
    <2>2. line[i] = IF IsOf(targets[i], c, share)
                    THEN [targets[i] EXCEPT !.filters = @ \ {f}] ELSE targets[i]
      OBVIOUS
    <2>3. CASE IsOf(targets[i], c, share)
      BY <2>1, <2>2, <2>3 DEF Members, IsOf
    <2>4. CASE ~IsOf(targets[i], c, share)
      BY <2>1, <2>2, <2>4
    <2> QED BY <2>3, <2>4
  <1>2. DOMAIN line = DOMAIN targets /\ DOMAIN targets = 1..Len(targets) /\ Len(targets) \in Nat
    OBVIOUS
  <1>3. line \in Seq(Members)
    <2>1. line = [i \in 1..Len(targets) |-> line[i]]
      BY <1>2
    <2>2. \A i \in 1..Len(targets) : line[i] \in Members
      BY <1>1, <1>2
    <2> HIDE DEF line
    <2>3. line \in [1..Len(targets) -> Members]
      BY <2>1, <2>2
    <2> QED BY <1>2, <2>3
  <1>4. ASSUME NEW d, NEW other, NEW e, Has(targets, d, other, e), d # c \/ e # f
        PROVE  \E i \in DOMAIN line : IsOf(line[i], d, other) /\ e \in line[i].filters
    <2>1. PICK i \in DOMAIN targets : IsOf(targets[i], d, other) /\ e \in targets[i].filters
      BY <1>4 DEF Has
    <2> HIDE DEF line
    <2>2. IsOf(line[i], d, other) /\ e \in line[i].filters
      BY <1>1, <1>4, <2>1 DEF IsOf
    <2> QED BY <1>2, <2>1, <2>2
  <1>5. Left(c, share, f) = RemoveFirstMatch(line, LAMBDA m : m.filters = {})
    BY DEF Left
  <1> HIDE DEF line
  <1>6. CASE \E i \in 1..Len(line) : line[i].filters = {}
    <2> DEFINE I == {i \in 1..Len(line) : line[i].filters = {}}
    <2>1. I # {} /\ I \in SUBSET Nat
      BY <1>3, <1>6
    <2>2. Min(I) \in I
      BY <2>1, LeastOf DEF Min
    <2>3. PICK k \in 1..Len(line) : line[k].filters = {} /\ Left(c, share, f) = RemoveAt(line, k)
      BY <1>5, <1>6, <2>1, <2>2 DEF RemoveFirstMatch, SelectInSeq
    <2>4. /\ RemoveAt(line, k) \in Seq(Members)
          /\ \A j \in DOMAIN line \ {k} :
                \E i \in DOMAIN RemoveAt(line, k) : RemoveAt(line, k)[i] = line[j]
      BY <1>3, Removing
    <2>5. ASSUME NEW d, NEW other, NEW e, Has(targets, d, other, e), d # c \/ e # f
          PROVE  Has(Left(c, share, f), d, other, e)
      <3>1. PICK i \in DOMAIN line : IsOf(line[i], d, other) /\ e \in line[i].filters
        BY <1>4, <2>5
      <3>2. i # k
        BY <2>3, <3>1
      <3> QED BY <2>3, <2>4, <3>1, <3>2 DEF Has
    <2> QED BY <2>3, <2>4, <2>5
  <1>7. CASE ~\E i \in 1..Len(line) : line[i].filters = {}
    <2>1. Left(c, share, f) = line
      BY <1>5, <1>7 DEF RemoveFirstMatch
    <2> QED BY <1>3, <1>4, <2>1 DEF Has
  <1> QED BY <1>6, <1>7

\* What holds of no element, and of a set when it holds of the set without its greatest
\* element, holds of all elements.
LEMMA FoldStays ==
  ASSUME NEW n \in Nat, NEW B, {} \in B,
         \A s \in SUBSET (1..n) : s # {} /\ s \ {Max(s)} \in B => s \in B
  PROVE  1..n \in B
  <1> DEFINE D == 1..n
             N0 == {k \in Nat : \A s \in SUBSET D : Cardinality(s) = k => s \in B}
  <1>1. IsFiniteSet(D) /\ \A s \in SUBSET D : IsFiniteSet(s) /\ Cardinality(s) \in Nat
    <2>1. IsFiniteSet(D)
      BY FS_Interval
    <2> HIDE DEF D
    <2> QED BY <2>1, FS_Subset, FS_CardinalityType
  <1>2. 0 \in N0
    <2>1. ASSUME NEW s \in SUBSET D, Cardinality(s) = 0 PROVE s \in B
      <3>1. s = {}
        BY <1>1, <2>1, FS_EmptySet
      <3> QED BY <3>1
    <2> QED BY <2>1
  <1>3. ASSUME NEW k \in N0 PROVE k + 1 \in N0
    <2> SUFFICES ASSUME NEW s \in SUBSET D, Cardinality(s) = k + 1 PROVE s \in B
      OBVIOUS
    <2>1. s # {}
      <3>1. k \in Nat /\ Cardinality({}) = 0 /\ Cardinality(s) = k + 1
        BY FS_EmptySet
      <3>2. Cardinality(s) # 0
        BY <3>1
      <3> QED BY <3>1, <3>2
    <2>2. Max(s) \in s
      BY <2>1, GreatestOf
    <2>3. s \ {Max(s)} \in SUBSET D /\ Cardinality(s \ {Max(s)}) = k
      <3>1. k \in Nat /\ Cardinality(s) = k + 1 /\ IsFiniteSet(s)
        BY <1>1
      <3>2. Cardinality(s \ {Max(s)}) = Cardinality(s) - 1
        BY <2>2, <3>1, FS_RemoveElement
      <3>3. Cardinality(s \ {Max(s)}) = k
        BY <3>1, <3>2
      <3> QED BY <3>3
    <2>4. s \ {Max(s)} \in B
      BY <2>3
    <2> QED BY <2>1, <2>4
  <1> HIDE DEF N0
  <1>4. Nat \subseteq N0
    <2>1. N0 \in SUBSET Nat
      BY DEF N0
    <2> QED BY <1>2, <1>3, <2>1, NaturalsFrom0
  <1> QED BY <1>1, <1>4 DEF N0

\* The fold of a function over the numbers up to n.
FoldIs(n, R, base, F, g) ==
  /\ g \in [SUBSET (1..n) -> R]
  /\ \A s \in SUBSET (1..n) :
       g[s] = IF s = {} THEN base ELSE F[<<g[s \ {Max(s)}], Max(s)>>]

\* It is well defined.
LEMMA FoldExists ==
  ASSUME NEW n \in Nat, NEW R, NEW base \in R, NEW F \in [R \X (1..n) -> R]
  PROVE  \E g : FoldIs(n, R, base, F, g)
  <1> DEFINE D == 1..n
             Body(h, s) == IF s = {} THEN base ELSE F[<<h[s \ {Max(s)}], Max(s)>>]
             Upto(h, k) == \A s \in SUBSET D : Cardinality(s) <= k => h[s] = Body(h, s)
             K == {k \in Nat : \E h \in [SUBSET D -> R] : Upto(h, k)}
  <1>1. IsFiniteSet(D) /\ \A s \in SUBSET D : IsFiniteSet(s) /\ Cardinality(s) \in Nat
    <2>1. IsFiniteSet(D)
      BY FS_Interval
    <2> HIDE DEF D
    <2> QED BY <2>1, FS_Subset, FS_CardinalityType
  <1>2. ASSUME NEW s \in SUBSET D, s # {}
        PROVE  /\ Max(s) \in D /\ s \ {Max(s)} \in SUBSET D
               /\ Cardinality(s \ {Max(s)}) = Cardinality(s) - 1
    BY <1>1, <1>2, GreatestOf, FS_RemoveElement
  <1> HIDE DEF D
  <1>3. ASSUME NEW h \in [SUBSET D -> R], NEW s \in SUBSET D PROVE Body(h, s) \in R
    BY <1>2 DEF D
  <1>4. 0 \in K
    <2> DEFINE h == [s \in SUBSET D |-> base]
    <2>1. Upto(h, 0)
      BY <1>1, FS_EmptySet
    <2> QED BY <2>1
  <1>5. ASSUME NEW k \in K PROVE k + 1 \in K
    <2>1. PICK h \in [SUBSET D -> R] : Upto(h, k)
      OBVIOUS
    <2> DEFINE j == [s \in SUBSET D |-> IF Cardinality(s) <= k THEN h[s] ELSE Body(h, s)]
    <2>2. ASSUME NEW s \in SUBSET D, Cardinality(s) <= k + 1 PROVE j[s] = Body(j, s)
      <3>1. j[s] = Body(h, s)
        BY <2>1
      <3>2. CASE s = {}
        BY <3>1, <3>2
      <3>3. CASE s # {}
        <4>1. j[s \ {Max(s)}] = h[s \ {Max(s)}]
          BY <1>1, <1>2, <2>2, <3>3
        <4> QED BY <3>1, <3>3, <4>1
      <3> QED BY <3>2, <3>3
    <2>3. Upto(j, k + 1)
      BY <2>2
    <2>4. j \in [SUBSET D -> R]
      <3> HIDE DEF Body
      <3> QED BY <1>3
    <2> HIDE DEF j, Upto
    <2> QED BY <2>3, <2>4
  <1>6. Nat \subseteq K
    <2> HIDE DEF K
    <2>1. K \in SUBSET Nat
      BY DEF K
    <2> QED BY <1>4, <1>5, <2>1, NaturalsFrom0
  <1>7. PICK h \in [SUBSET D -> R] : Upto(h, Cardinality(D))
    BY <1>1, <1>6
  <1>8. ASSUME NEW s \in SUBSET D PROVE h[s] = Body(h, s)
    <2>1. Cardinality(s) <= Cardinality(D)
      BY <1>1, FS_Subset
    <2> QED BY <1>7, <2>1
  <1>9. FoldIs(n, R, base, F, h)
    BY <1>8 DEF D, FoldIs
  <1> QED BY <1>9
\* The members of other clients, in the order of the line.
Passed(c, line, m) == IF m.client = c THEN line ELSE Append(line, m)
Staying(q, c, g) ==
  g = [s \in SUBSET DOMAIN q |->
        IF s = {} THEN <<>> ELSE Passed(c, g[s \ {Max(s)}], q[Max(s)])]

\* erase(), of a session: who is left in line.
LEMMA BehindIs ==
  ASSUME targets \in Seq(Members), NEW c
  PROVE  /\ LeftBehind(c) \in Seq(Members)
         /\ \A d, other, e : Has(targets, d, other, e) /\ d # c => Has(LeftBehind(c), d, other, e)
  <1> DEFINE q == targets
             n == Len(q)
             D == 1..n
             g == CHOOSE h : Staying(q, c, h)
  <1>1. D = DOMAIN q /\ n \in Nat /\ \A i \in D : q[i] \in Members
    OBVIOUS
  <1>2. LeftBehind(c) = g[D]
    BY DEF LeftBehind, FoldLeft, MapThenFoldSet, Staying, Passed
  <1>3. \A l \in Seq(Members), m \in Members : Passed(c, l, m) \in Seq(Members)
    BY DEF Passed
  <1>4. \E h : Staying(q, c, h)
    <2> DEFINE F == [x \in Seq(Members) \X D |-> Passed(c, x[1], q[x[2]])]
    <2>1. F \in [Seq(Members) \X D -> Seq(Members)]
      BY <1>1, <1>3
    <2>2. <<>> \in Seq(Members)
      OBVIOUS
    <2>3. \A l \in Seq(Members), i \in D : F[<<l, i>>] = Passed(c, l, q[i])
      OBVIOUS
    <2> HIDE DEF F
    <2>4. PICK h : FoldIs(n, Seq(Members), <<>>, F, h)
      BY <1>1, <2>1, <2>2, FoldExists
    <2>5. /\ h \in [SUBSET D -> Seq(Members)]
          /\ \A s \in SUBSET D :
               h[s] = IF s = {} THEN <<>> ELSE F[<<h[s \ {Max(s)}], Max(s)>>]
      BY <2>4 DEF FoldIs
    <2>6. ASSUME NEW s \in SUBSET D
          PROVE  h[s] = IF s = {} THEN <<>> ELSE Passed(c, h[s \ {Max(s)}], q[Max(s)])
      <3>1. CASE s = {}
        BY <2>5, <3>1
      <3>2. CASE s # {}
        <4>1. Max(s) \in D /\ h[s \ {Max(s)}] \in Seq(Members)
          BY <1>1, <2>5, <3>2, GreatestOf
        <4> QED BY <2>3, <2>5, <3>2, <4>1
      <3> QED BY <3>1, <3>2
    <2> QED BY <1>1, <2>5, <2>6 DEF Staying
  <1>5. Staying(q, c, g)
    BY <1>4
  <1> HIDE DEF g
  <1>6. g[{}] = <<>> /\ \A s \in SUBSET D : s # {} => g[s] = Passed(c, g[s \ {Max(s)}], q[Max(s)])
    BY <1>1, <1>5 DEF Staying
  <1> DEFINE Good(s) == /\ g[s] \in Seq(Members)
                        /\ \A i \in s : q[i].client # c => \E j \in DOMAIN g[s] : g[s][j] = q[i]
             B == {s \in SUBSET D : Good(s)}
  <1>7. {} \in B
    <2>1. g[{}] \in Seq(Members)
      BY <1>6
    <2> QED BY <2>1
  <1>8. ASSUME NEW s \in SUBSET D, s # {}, s \ {Max(s)} \in B PROVE s \in B
    <2> DEFINE k == Max(s)
               r == s \ {k}
               l == g[r]
    <2>1. k \in s /\ k \in D
      BY <1>1, <1>8, GreatestOf
    <2>2. l \in Seq(Members) /\ \A i \in r : q[i].client # c => \E j \in DOMAIN l : l[j] = q[i]
      BY <1>8
    <2>3. g[s] = Passed(c, l, q[k])
      BY <1>6, <1>8
    <2>4. \A i \in s : i \in r \/ i = k
      OBVIOUS
    <2> HIDE DEF k, r, l
    <2>5. CASE q[k].client = c
      <3>1. g[s] = l
        BY <2>3, <2>5 DEF Passed
      <3>2. Good(s)
        BY <2>2, <2>4, <2>5, <3>1
      <3> QED BY <3>2
    <2>6. CASE q[k].client # c
      <3>1. g[s] = Append(l, q[k]) /\ q[k] \in Members
        BY <1>1, <2>1, <2>3, <2>6 DEF Passed
      <3>2. /\ g[s] \in Seq(Members) /\ Len(l) + 1 \in DOMAIN g[s] /\ g[s][Len(l) + 1] = q[k]
            /\ \A j \in DOMAIN l : j \in DOMAIN g[s] /\ g[s][j] = l[j]
        BY <2>2, <3>1
      <3>3. Good(s)
        BY <2>2, <2>4, <3>2
      <3> QED BY <3>3
    <2> QED BY <2>5, <2>6
  <1>9. D \in B
    <2> HIDE DEF B
    <2>1. \A s \in SUBSET (1..n) : s # {} /\ s \ {Max(s)} \in B => s \in B
      BY <1>8
    <2> QED BY <1>1, <1>7, <2>1, FoldStays
  <1>10. Good(D)
    BY <1>9
  <1>11. ASSUME NEW d, NEW other, NEW e, Has(targets, d, other, e), d # c
         PROVE  Has(LeftBehind(c), d, other, e)
    <2>1. PICK i \in D : IsOf(q[i], d, other) /\ e \in q[i].filters
      BY <1>1, <1>11 DEF Has
    <2>2. PICK j \in DOMAIN g[D] : g[D][j] = q[i]
      BY <1>10, <1>11, <2>1 DEF IsOf
    <2> QED BY <1>2, <2>1, <2>2 DEF Has
  <1> QED BY <1>2, <1>10, <1>11

\* Whoever is in line stays a member.
LEMMA HasKept ==
  ASSUME NEW line, NEW other, Keeps(line, other), NEW c, NEW share, NEW f, Has(line, c, share, f)
  PROVE  Has(other, c, share, f)
  BY DEF Keeps, Has

\* A client is served, and nobody leaves the line.
Turned(line, to, share, f, d, y) ==
  /\ y.line \in Seq(Members) /\ Keeps(line, y.line)
  /\ y = [line |-> y.line, to |-> to \cup {<<d, share, f>>}]
  /\ Has(line, d, share, f)

\* get_target(): one who has the topic filter is served, if there is one.
LEMMA TurnIs ==
  ASSUME NEW line \in Seq(Members), NEW to, NEW share, NEW f
  PROVE  \/ /\ Turn([line |-> line, to |-> to], <<share, f>>) = [line |-> line, to |-> to]
            /\ \A d : ~Has(line, d, share, f)
         \/ \E d \in Clients :
              Turned(line, to, share, f, d, Turn([line |-> line, to |-> to], <<share, f>>))
  <1> DEFINE x == [line |-> line, to |-> to]
             gf == <<share, f>>
             turn == InLine(line, share, f)
             i == CHOOSE j \in turn : \A k \in turn : j <= k
             y == Turn(x, gf)
  <1>0. x.line = line /\ x.to = to /\ gf[1] = share /\ gf[2] = f
    OBVIOUS
  <1>1. turn = {j \in DOMAIN line : line[j].share = share /\ f \in line[j].filters}
    BY DEF InLine
  <1>2. y = IF turn = {} THEN x
            ELSE [line |-> Append(RemoveAt(line, i), line[i]),
                  to |-> to \cup {<<line[i].client, share, f>>}]
    BY <1>0 DEF Turn
  <1>3. CASE turn = {}
    BY <1>1, <1>2, <1>3 DEF Has, IsOf
  <1>4. CASE turn # {}
    <2>1. turn \in SUBSET Nat
      BY <1>1
    <2>2. i \in turn
      BY <1>4, <2>1, LeastOf
    <2> HIDE DEF i, turn, y, x
    <2> DEFINE d == line[i].client
               r == RemoveAt(line, i)
               l == Append(r, line[i])
    <2>3. i \in DOMAIN line /\ line[i] \in Members /\ line[i].share = share /\ f \in line[i].filters
      BY <1>1, <2>2
    <2>4. r \in Seq(Members) /\ \A j \in DOMAIN line \ {i} : \E k \in DOMAIN r : r[k] = line[j]
      BY <2>3, Removing
    <2> HIDE DEF r
    <2>5. /\ l \in Seq(Members) /\ Len(r) + 1 \in DOMAIN l /\ l[Len(r) + 1] = line[i]
          /\ \A k \in DOMAIN r : k \in DOMAIN l /\ l[k] = r[k]
      BY <2>3, <2>4
    <2> HIDE DEF l
    <2>6. Keeps(line, l)
      BY <2>4, <2>5 DEF Keeps
    <2>7. d \in Clients /\ Has(line, d, share, f)
      BY <2>3 DEF Members, Has, IsOf
    <2>8. y = [line |-> l, to |-> to \cup {<<d, share, f>>}]
      BY <1>2, <1>4 DEF l, r
    <2>9. y.line = l
      BY <2>8
    <2>10. Turned(line, to, share, f, d, y)
      BY <2>5, <2>6, <2>7, <2>8, <2>9 DEF Turned
    <2> QED BY <2>7, <2>10 DEF y, x
  <1> QED BY <1>3, <1>4

\* One of a group is served, or nobody.
One(to, share, f, line) ==
  \E d \in Clients : /\ {s \in to : s[2] = share /\ s[3] = f} = {<<d, share, f>>}
                     /\ Has(line, d, share, f)
Nobody(to, share, f) == \A s \in to : ~(s[2] = share /\ s[3] = f)

\* The groups are served one after the other.
Serving(base, q, g) ==
  g = [s \in SUBSET DOMAIN q |-> IF s = {} THEN base ELSE Turn(g[s \ {Max(s)}], q[Max(s)])]

\* What is handed out, and the groups' turns.
Turns(plain) == [line : Seq(Members), to : SUBSET (plain \cup (Clients \X Shares \X Filters))]

\* get_target() stays in its range.
LEMMA TurnTyped ==
  ASSUME NEW plain, NEW x \in Turns(plain), NEW gf \in Shares \X Filters
  PROVE  Turn(x, gf) \in Turns(plain)
  <1> DEFINE line == x.line
             to == x.to
             y == Turn(x, gf)
  <1>1. line \in Seq(Members) /\ to \subseteq plain \cup (Clients \X Shares \X Filters)
        /\ x = [line |-> line, to |-> to]
    BY DEF Turns
  <1>2. PICK share \in Shares, f \in Filters : gf = <<share, f>>
    OBVIOUS
  <1>3. y = Turn([line |-> line, to |-> to], <<share, f>>)
    BY <1>1, <1>2
  <1> HIDE DEF line, to, y
  <1>4. CASE y = x
    BY <1>4 DEF y
  <1>5. ASSUME NEW d \in Clients, Turned(line, to, share, f, d, y) PROVE y \in Turns(plain)
    <2>1. y.line \in Seq(Members) /\ y = [line |-> y.line, to |-> to \cup {<<d, share, f>>}]
      BY <1>5 DEF Turned
    <2>2. to \cup {<<d, share, f>>} \in SUBSET (plain \cup (Clients \X Shares \X Filters))
      BY <1>1, <1>2
    <2> DEFINE l == y.line
               u == to \cup {<<d, share, f>>}
    <2>3. y = [line |-> l, to |-> u] /\ l \in Seq(Members)
      BY <2>1
    <2> HIDE DEF l, u
    <2>4. u \in SUBSET (plain \cup (Clients \X Shares \X Filters))
      BY <2>2 DEF u
    <2> QED BY <2>3, <2>4 DEF Turns
  <1> QED BY <1>1, <1>3, <1>4, <1>5, TurnIs DEF y

\* do_publish(), for the groups of the shared subscriptions in an order.
ServedAll(plain, order) == FoldLeft(Turn, [line |-> targets, to |-> plain], order)

\* Each group of the order is served once, by a member with the topic filter.
LEMMA Serves ==
  ASSUME targets \in Seq(Members), NEW plain, \A s \in plain : s[2] = NoShare,
         NEW n \in Nat, NEW order \in [1..n -> Shares \X Filters],
         \A i, j \in 1..n : i # j => order[i] # order[j],
         \A i \in 1..n : \E c : Has(targets, c, order[i][1], order[i][2])
  PROVE  /\ ServedAll(plain, order).line \in Seq(Members)
         /\ Keeps(targets, ServedAll(plain, order).line)
         /\ \A i \in 1..n : One(ServedAll(plain, order).to, order[i][1], order[i][2],
                                ServedAll(plain, order).line)
  <1> DEFINE D == 1..n
             base == [line |-> targets, to |-> plain]
             R == Turns(plain)
             g == CHOOSE h : Serving(base, order, h)
  <1>1. DOMAIN order = D
    OBVIOUS
  <1>2. ServedAll(plain, order) = g[D]
    BY <1>1 DEF ServedAll, FoldLeft, MapThenFoldSet, Serving
  <1>3. base \in R
    BY DEF Turns
  <1> HIDE DEF base, R
  <1>4. \A x \in R, i \in D : Turn(x, order[i]) \in R
    BY TurnTyped DEF R
  <1>5. \E h \in [SUBSET D -> R] : Serving(base, order, h)
    <2> DEFINE F == [x \in R \X D |-> Turn(x[1], order[x[2]])]
    <2>1. F \in [R \X D -> R]
      BY <1>4
    <2>2. \A x \in R, i \in D : F[<<x, i>>] = Turn(x, order[i])
      OBVIOUS
    <2> HIDE DEF F
    <2>3. PICK h : FoldIs(n, R, base, F, h)
      BY <1>3, <2>1, FoldExists
    <2>4. /\ h \in [SUBSET D -> R]
          /\ \A s \in SUBSET D :
               h[s] = IF s = {} THEN base ELSE F[<<h[s \ {Max(s)}], Max(s)>>]
      BY <2>3 DEF FoldIs
    <2>5. ASSUME NEW s \in SUBSET D
          PROVE  h[s] = IF s = {} THEN base ELSE Turn(h[s \ {Max(s)}], order[Max(s)])
      <3>1. CASE s = {}
        BY <2>4, <3>1
      <3>2. CASE s # {}
        <4>1. Max(s) \in D /\ h[s \ {Max(s)}] \in R
          BY <2>4, <3>2, GreatestOf
        <4> QED BY <2>2, <2>4, <3>2, <4>1
      <3> QED BY <3>1, <3>2
    <2>6. Serving(base, order, h)
      <3> DEFINE T(s) == Turn(h[s \ {Max(s)}], order[Max(s)])
      <3>1. \A s \in SUBSET D : h[s] = IF s = {} THEN base ELSE T(s)
        BY <2>5
      <3>2. h = [s \in SUBSET D |-> h[s]]
        BY <2>4
      <3>3. h = [s \in SUBSET D |-> IF s = {} THEN base ELSE T(s)]
        BY <3>1, <3>2, Zenon
      <3> QED BY <1>1, <3>3 DEF Serving
    <2> QED BY <2>4, <2>6
  <1>6. Serving(base, order, g)
    BY <1>5
  <1> HIDE DEF g
  <1>7. g[{}] = base /\ \A s \in SUBSET D : s # {} => g[s] = Turn(g[s \ {Max(s)}], order[Max(s)])
    BY <1>1, <1>6 DEF Serving
  <1> DEFINE Good(s) ==
               /\ g[s] = [line |-> g[s].line, to |-> g[s].to]
               /\ g[s].line \in Seq(Members) /\ Keeps(targets, g[s].line)
               /\ \A i \in s : One(g[s].to, order[i][1], order[i][2], g[s].line)
               /\ \A i \in D \ s : Nobody(g[s].to, order[i][1], order[i][2])
             B == {s \in SUBSET D : Good(s)}
  <1>8. {} \in B
    <2>1. g[{}].line = targets /\ g[{}].to = plain
          /\ g[{}] = [line |-> g[{}].line, to |-> g[{}].to]
      BY <1>7 DEF base
    <2>2. Keeps(targets, targets)
      BY DEF Keeps
    <2>3. \A i \in D : Nobody(plain, order[i][1], order[i][2])
      BY TopicsAssumption DEF Nobody
    <2> QED BY <2>1, <2>2, <2>3
  <1>9. ASSUME NEW s \in SUBSET D, s # {}, s \ {Max(s)} \in B PROVE s \in B
    <2> DEFINE k == Max(s)
               r == s \ {k}
               l == g[r].line
               to == g[r].to
               share == order[k][1]
               f == order[k][2]
    <2>1. k \in s /\ k \in D
      BY <1>9, GreatestOf
    <2>2. /\ g[r] = [line |-> l, to |-> to] /\ l \in Seq(Members) /\ Keeps(targets, l)
          /\ \A i \in r : One(to, order[i][1], order[i][2], l)
          /\ \A i \in D \ r : Nobody(to, order[i][1], order[i][2])
      BY <1>9
    <2>3. g[s] = Turn(g[r], order[k])
      BY <1>7, <1>9
    <2>4. s = r \cup {k} /\ k \notin r /\ r \subseteq D
      BY <2>1
    <2> HIDE DEF k, r, l, to
    <2>5. order[k] = <<share, f>> /\ share \in Shares /\ f \in Filters
      BY <2>1
    <2>6. \A i \in D : i # k => ~(order[i][1] = share /\ order[i][2] = f)
      <3>1. \A i \in D : order[i] = <<order[i][1], order[i][2]>>
        OBVIOUS
      <3>2. \A i \in D : i # k => order[i] # order[k]
        BY <2>1
      <3> QED BY <2>5, <3>1, <3>2
    <2>7. PICK c : Has(targets, c, share, f)
      BY <2>1
    <2> HIDE DEF share, f
    <2>8. Has(l, c, share, f)
      BY <2>2, <2>7, HasKept
    <2>9. PICK d \in Clients : Turned(l, to, share, f, d, g[s])
      BY <2>2, <2>3, <2>5, <2>8, TurnIs
    <2> DEFINE m == g[s].line
               u == to \cup {<<d, share, f>>}
    <2>10. /\ g[s] = [line |-> m, to |-> u] /\ m \in Seq(Members) /\ Keeps(l, m)
           /\ Has(l, d, share, f)
      BY <2>9 DEF Turned
    <2>11. g[s].to = u
      BY <2>10
    <2> HIDE DEF m
    <2>12. Keeps(targets, m)
      BY <2>2, <2>10 DEF Keeps
    <2>13. \A i \in D \ s : Nobody(u, order[i][1], order[i][2])
      BY <2>2, <2>4, <2>6, <2>1 DEF Nobody
    <2>14. One(u, share, f, m)
      <3>1. Nobody(to, share, f)
        BY <2>1, <2>2, <2>4, <2>5
      <3>2. {e \in u : e[2] = share /\ e[3] = f} = {<<d, share, f>>}
        BY <3>1 DEF Nobody
      <3>3. Has(m, d, share, f)
        BY <2>10, HasKept
      <3> QED BY <3>2, <3>3 DEF One
    <2>15. ASSUME NEW i \in r PROVE One(u, order[i][1], order[i][2], m)
      <3> DEFINE a == order[i][1]
                 b == order[i][2]
      <3>1. ~(a = share /\ b = f)
        BY <2>4, <2>6
      <3>2. One(to, a, b, l)
        BY <2>2
      <3> HIDE DEF a, b
      <3>3. PICK e \in Clients :
              {x \in to : x[2] = a /\ x[3] = b} = {<<e, a, b>>} /\ Has(l, e, a, b)
        BY <3>2 DEF One
      <3>4. {x \in u : x[2] = a /\ x[3] = b} = {x \in to : x[2] = a /\ x[3] = b}
        BY <3>1
      <3>5. Has(m, e, a, b)
        BY <2>10, <3>3, HasKept
      <3>6. One(u, a, b, m)
        BY <3>3, <3>4, <3>5 DEF One
      <3> QED BY <3>6 DEF a, b
    <2>16. \A i \in s : One(u, order[i][1], order[i][2], m)
      BY <2>4, <2>5, <2>14, <2>15 DEF share, f
    <2> HIDE DEF u
    <2>17. Good(s)
      BY <2>10, <2>11, <2>12, <2>13, <2>16 DEF m
    <2> QED BY <2>17
  <1>10. D \in B
    <2> HIDE DEF B
    <2>1. \A s \in SUBSET (1..n) : s # {} /\ s \ {Max(s)} \in B => s \in B
      BY <1>9
    <2> QED BY <1>8, <2>1, FoldStays
  <1> QED BY <1>2, <1>10

--------------------------------------------------------------------------------
\* The tree of retained messages is the one of the topics that have one.

\* The topics of S whose path goes through p, and the nodes of all.
Bearing(S, p) == {t \in S : p \in Paths(t)}
Branches(S) == UNION {Paths(t) : t \in S}

\* The nodes k and their order b are those of the topics S.
KeptOf(k, b, S) ==
  /\ S \subseteq Topics /\ IsFiniteSet(S)
  /\ DOMAIN k = {<<>>} \cup Branches(S)
  /\ \A p \in DOMAIN k :
      /\ p # <<>> => k[p].count = Cardinality(Bearing(S, p))
      /\ k[p].value = (p \in S)
  /\ b \in Seq(Branches(S)) /\ ToSet(b) = Branches(S)

\* One step of Among, and the function whose last value it is.
Taken(nodes, some, p) == IF p \in nodes THEN Append(some, p) ELSE some
Taking(q, nodes, g) ==
  g = [s \in SUBSET DOMAIN q |->
        IF s = {} THEN <<>> ELSE Taken(nodes, g[s \ {Max(s)}], q[Max(s)])]

\* Among() gives just the elements of the list that are in the set.
LEMMA AmongIs ==
  ASSUME NEW X, NEW q \in Seq(X), NEW nodes
  PROVE  /\ Among(q, nodes) \in Seq(X)
         /\ ToSet(Among(q, nodes)) = ToSet(q) \cap nodes
  <1> DEFINE n == Len(q)
             D == 1..n
             g == CHOOSE h : Taking(q, nodes, h)
  <1>1. D = DOMAIN q /\ n \in Nat /\ \A i \in D : q[i] \in X
    OBVIOUS
  <1>2. Among(q, nodes) = g[D]
    BY DEF Among, FoldLeft, MapThenFoldSet, Taking, Taken
  <1>3. \A l \in Seq(X), m \in X : Taken(nodes, l, m) \in Seq(X)
    BY DEF Taken
  <1>4. \E h : Taking(q, nodes, h)
    <2> DEFINE F == [x \in Seq(X) \X D |-> Taken(nodes, x[1], q[x[2]])]
    <2>1. F \in [Seq(X) \X D -> Seq(X)]
      BY <1>1, <1>3
    <2>2. <<>> \in Seq(X)
      OBVIOUS
    <2>3. \A l \in Seq(X), i \in D : F[<<l, i>>] = Taken(nodes, l, q[i])
      OBVIOUS
    <2> HIDE DEF F
    <2>4. PICK h : FoldIs(n, Seq(X), <<>>, F, h)
      BY <1>1, <2>1, <2>2, FoldExists
    <2>5. /\ h \in [SUBSET D -> Seq(X)]
          /\ \A s \in SUBSET D :
               h[s] = IF s = {} THEN <<>> ELSE F[<<h[s \ {Max(s)}], Max(s)>>]
      BY <2>4 DEF FoldIs
    <2>6. ASSUME NEW s \in SUBSET D
          PROVE  h[s] = IF s = {} THEN <<>> ELSE Taken(nodes, h[s \ {Max(s)}], q[Max(s)])
      <3>1. CASE s = {}
        BY <2>5, <3>1
      <3>2. CASE s # {}
        <4>1. Max(s) \in D /\ h[s \ {Max(s)}] \in Seq(X)
          BY <1>1, <2>5, <3>2, GreatestOf
        <4> QED BY <2>3, <2>5, <3>2, <4>1
      <3> QED BY <3>1, <3>2
    <2> QED BY <1>1, <2>5, <2>6 DEF Taking
  <1>5. Taking(q, nodes, g)
    BY <1>4
  <1> HIDE DEF g
  <1>6. g[{}] = <<>> /\ \A s \in SUBSET D : s # {} => g[s] = Taken(nodes, g[s \ {Max(s)}], q[Max(s)])
    BY <1>1, <1>5 DEF Taking
  <1> DEFINE Good(s) == /\ g[s] \in Seq(X)
                        /\ \A x : (\E j \in DOMAIN g[s] : g[s][j] = x)
                                    <=> x \in nodes /\ \E i \in s : q[i] = x
             B == {s \in SUBSET D : Good(s)}
  <1>7. {} \in B
    <2>1. g[{}] = <<>> /\ g[{}] \in Seq(X) /\ DOMAIN g[{}] = {}
      BY <1>6
    <2>2. Good({})
      BY <2>1
    <2> QED BY <2>2
  <1>8. ASSUME NEW s \in SUBSET D, s # {}, s \ {Max(s)} \in B PROVE s \in B
    <2> DEFINE k == Max(s)
               r == s \ {k}
               l == g[r]
    <2>1. k \in s /\ k \in D
      BY <1>1, <1>8, GreatestOf
    <2>2. l \in Seq(X) /\ \A x : (\E j \in DOMAIN l : l[j] = x) <=> x \in nodes /\ \E i \in r : q[i] = x
      BY <1>8
    <2>3. g[s] = Taken(nodes, l, q[k])
      BY <1>6, <1>8
    <2>4. \A i : i \in s <=> i \in r \/ i = k
      BY <2>1
    <2> HIDE DEF k, r, l
    <2>5. CASE q[k] \notin nodes
      <3>1. g[s] = l
        BY <2>3, <2>5 DEF Taken
      <3>2. \A x : (x \in nodes /\ \E i \in s : q[i] = x) <=> (x \in nodes /\ \E i \in r : q[i] = x)
        BY <2>4, <2>5
      <3>3. Good(s)
        BY <2>2, <3>1, <3>2
      <3> QED BY <3>3
    <2>6. CASE q[k] \in nodes
      <3>1. g[s] = Append(l, q[k]) /\ q[k] \in X
        BY <1>1, <2>1, <2>3, <2>6 DEF Taken
      <3>2. /\ g[s] \in Seq(X) /\ DOMAIN g[s] = DOMAIN l \cup {Len(l) + 1} /\ g[s][Len(l) + 1] = q[k]
            /\ \A j \in DOMAIN l : g[s][j] = l[j]
        BY <2>2, <3>1
      <3>3. \A x : (\E j \in DOMAIN g[s] : g[s][j] = x) <=> (\E j \in DOMAIN l : l[j] = x) \/ x = q[k]
        BY <3>2
      <3>4. \A x : (x \in nodes /\ \E i \in s : q[i] = x)
                     <=> (x \in nodes /\ \E i \in r : q[i] = x) \/ x = q[k]
        BY <2>4, <2>6
      <3>5. Good(s)
        BY <2>2, <3>2, <3>3, <3>4
      <3> QED BY <3>5
    <2> QED BY <2>5, <2>6
  <1>9. D \in B
    <2> HIDE DEF B
    <2>1. \A s \in SUBSET (1..n) : s # {} /\ s \ {Max(s)} \in B => s \in B
      BY <1>8
    <2> QED BY <1>1, <1>7, <2>1, FoldStays
  <1>10. Good(D)
    BY <1>9
  <1>11. g[D] \in Seq(X) /\ ToSet(g[D]) = ToSet(q) \cap nodes
    <2>1. \A x : x \in ToSet(g[D]) <=> \E j \in DOMAIN g[D] : g[D][j] = x
      BY DEF ToSet
    <2>2. \A x : x \in ToSet(q) <=> \E i \in D : q[i] = x
      BY <1>1 DEF ToSet
    <2> QED BY <1>10, <2>1, <2>2
  <1> QED BY <1>2, <1>11

\* What one list after the other holds.
LEMMA BothLists ==
  ASSUME NEW X, NEW a \in Seq(X), NEW b \in Seq(X)
  PROVE  a \o b \in Seq(X) /\ ToSet(a \o b) = ToSet(a) \cup ToSet(b)
  <1> DEFINE c == a \o b
  <1>1. /\ c \in Seq(X) /\ Len(c) = Len(a) + Len(b) /\ Len(a) \in Nat /\ Len(b) \in Nat
        /\ \A i \in 1..Len(a) : c[i] = a[i]
        /\ \A i \in 1..Len(b) : c[Len(a) + i] = b[i]
    OBVIOUS
  <1> HIDE DEF c
  <1>2. DOMAIN c = 1..Len(c) /\ DOMAIN a = 1..Len(a) /\ DOMAIN b = 1..Len(b)
    BY <1>1
  <1>3. ASSUME NEW i \in DOMAIN c PROVE c[i] \in ToSet(a) \cup ToSet(b)
    <2>1. CASE i <= Len(a)
      <3>1. i \in DOMAIN a /\ c[i] = a[i]
        BY <1>1, <1>2, <2>1
      <3> QED BY <3>1 DEF ToSet
    <2>2. CASE ~(i <= Len(a))
      <3>1. i - Len(a) \in DOMAIN b /\ c[i] = b[i - Len(a)]
        <4>1. i - Len(a) \in 1..Len(b) /\ i = Len(a) + (i - Len(a))
          BY <1>1, <1>2, <2>2
        <4> QED BY <1>1, <1>2, <4>1
      <3> QED BY <3>1 DEF ToSet
    <2> QED BY <2>1, <2>2
  <1>4. ASSUME NEW i \in DOMAIN a PROVE a[i] \in ToSet(c)
    <2>1. i \in DOMAIN c /\ c[i] = a[i]
      BY <1>1, <1>2
    <2> QED BY <2>1 DEF ToSet
  <1>5. ASSUME NEW i \in DOMAIN b PROVE b[i] \in ToSet(c)
    <2>1. Len(a) + i \in DOMAIN c /\ c[Len(a) + i] = b[i]
      BY <1>1, <1>2
    <2> QED BY <2>1 DEF ToSet
  <1>6. ToSet(c) = ToSet(a) \cup ToSet(b)
    BY <1>3, <1>4, <1>5 DEF ToSet
  <1> QED BY <1>1, <1>6 DEF c

\* A sequence is one over any set that has its elements.
LEMMA OfElements ==
  ASSUME NEW X, NEW s \in Seq(X), NEW Y, ToSet(s) \subseteq Y
  PROVE  s \in Seq(Y)
  BY DEF ToSet

\* A topic name or filter is the longest of its paths.
LEMMA LongestPath ==
  ASSUME NEW f, IsFilter(f)
  PROVE  f \in Paths(f) /\ <<>> \notin Paths(f)
  <1>1. f \in Seq(ToSet(f)) /\ Len(f) \in Nat \ {0}
    BY DEF IsFilter
  <1>2. SubSeq(f, 1, Len(f)) = f /\ Len(f) \in 1..Len(f)
    BY <1>1
  <1>3. \A i \in 1..Len(f) : SubSeq(f, 1, i) # <<>>
    <2> SUFFICES ASSUME NEW i \in 1..Len(f) PROVE SubSeq(f, 1, i) # <<>>
      OBVIOUS
    <2>1. Len(SubSeq(f, 1, i)) = i /\ i # 0
      BY <1>1
    <2> QED BY <2>1
  <1> QED BY <1>2, <1>3 DEF Paths

\* A topic name has no wildcards.
LEMMA NameIsFilter == ASSUME NEW t \in Topics PROVE IsFilter(t)
  <1>1. t \in Seq(Levels) /\ t # <<>> /\ \A i \in 1..Len(t) : t[i] \notin {"+", "#"}
    BY TopicIs
  <1>2. DOMAIN t = 1..Len(t) /\ t \in Seq(ToSet(t))
    BY <1>1, OwnElements
  <1> QED BY <1>1, <1>2 DEF IsFilter

\* The topics that have a message are those whose nodes say so.
LEMMA StoredAre ==
  ASSUME NEW k, NEW b, NEW S, KeptOf(k, b, S)
  PROVE  {t \in DOMAIN k : k[t].value} = S
  <1>1. S \subseteq DOMAIN k
    <2> SUFFICES ASSUME NEW t \in S PROVE t \in DOMAIN k
      OBVIOUS
    <2>1. t \in Paths(t)
      BY NameIsFilter, LongestPath DEF KeptOf
    <2> QED BY <2>1 DEF KeptOf, Branches
  <1> QED BY <1>1 DEF KeptOf

\* insert_or_assign(): a topic more.
LEMMA StoreKeeps ==
  ASSUME NEW S, KeptOf(kept, born, S), NEW t \in Topics, Store(t)
  PROVE  \E T : KeptOf(kept', born', T)
  <1>0. t \in Paths(t) /\ <<>> \notin Paths(t)
    BY NameIsFilter, LongestPath
  <1>1. CASE Kept(t) /\ kept[t].value
    <2>1. kept' = kept /\ born' = born
      BY <1>1 DEF Store
    <2> QED BY <2>1
  <1>2. CASE ~(Kept(t) /\ kept[t].value)
    <2> DEFINE T == S \cup {t}
               pre == [i \in 1..Len(t) |-> SubSeq(t, 1, i)]
               new == Paths(t) \ DOMAIN kept
               D == DOMAIN kept
    <2>1. /\ DOMAIN kept' = D \cup Paths(t)
          /\ \A p \in D \cup Paths(t) :
               /\ kept'[p].count = (IF p \in D THEN kept[p].count ELSE 0)
                                   + (IF p \in Paths(t) THEN 1 ELSE 0)
               /\ kept'[p].value = (p = t \/ (p \in D /\ kept[p].value))
          /\ born' = born \o Among(pre, new)
      <3> DEFINE count(p) == (IF p \in D THEN kept[p].count ELSE 0)
                             + (IF p \in Paths(t) THEN 1 ELSE 0)
                 value(p) == p = t \/ (p \in D /\ kept[p].value)
      <3>1. /\ kept' = [p \in D \cup Paths(t) |-> [count |-> count(p), value |-> value(p)]]
            /\ born' = born \o Among(pre, new)
        BY <1>2 DEF Store
      <3> HIDE DEF count, value, pre, new
      <3>2. DOMAIN kept' = D \cup Paths(t)
            /\ \A p \in D \cup Paths(t) : kept'[p].count = count(p) /\ kept'[p].value = value(p)
        BY <3>1
      <3> QED BY <3>1, <3>2 DEF count, value
    <2>2. S \subseteq Topics /\ IsFiniteSet(S) /\ D = {<<>>} \cup Branches(S)
          /\ born \in Seq(Branches(S)) /\ ToSet(born) = Branches(S)
      BY DEF KeptOf
    <2>3. t \notin S
      <3>1. t \in S => Kept(t) /\ kept[t].value
        BY <1>0, <2>2 DEF KeptOf, Kept, Branches
      <3> QED BY <1>2, <3>1
    <2>4. T \subseteq Topics /\ IsFiniteSet(T) /\ Branches(T) = Branches(S) \cup Paths(t)
      <3>1. IsFiniteSet(T)
        BY <2>2, FS_AddElement
      <3> QED BY <2>2, <3>1 DEF Branches
    <2> HIDE DEF pre, new, D
    <2>5. ASSUME NEW p \in D \cup Paths(t), p # <<>>
          PROVE  kept'[p].count = Cardinality(Bearing(T, p))
      <3>1. IsFiniteSet(Bearing(S, p)) /\ Cardinality(Bearing(S, p)) \in Nat
        BY <2>2, FS_Subset, FS_CardinalityType DEF Bearing
      <3>2. (IF p \in D THEN kept[p].count ELSE 0) = Cardinality(Bearing(S, p))
        <4>1. CASE p \in D
          BY <2>5, <4>1 DEF KeptOf, D
        <4>2. CASE p \notin D
          <5>1. Bearing(S, p) = {}
            BY <2>2, <4>2 DEF Bearing, Branches
          <5> QED BY <4>2, <5>1, FS_EmptySet
        <4> QED BY <4>1, <4>2
      <3>3. CASE p \in Paths(t)
        <4>1. Bearing(T, p) = Bearing(S, p) \cup {t} /\ t \notin Bearing(S, p)
          BY <2>3, <3>3 DEF Bearing
        <4>2. Cardinality(Bearing(T, p)) = Cardinality(Bearing(S, p)) + 1
          BY <3>1, <4>1, FS_AddElement
        <4> QED BY <2>1, <3>2, <3>3, <4>2
      <3>4. CASE p \notin Paths(t)
        <4>1. Bearing(T, p) = Bearing(S, p)
          BY <3>4 DEF Bearing
        <4>2. kept'[p].count = Cardinality(Bearing(S, p)) + 0
          BY <2>1, <3>2, <3>4
        <4> QED BY <3>1, <4>1, <4>2
      <3> QED BY <3>3, <3>4
    <2>6. ASSUME NEW p \in D \cup Paths(t) PROVE kept'[p].value = (p \in T)
      <3>1. p \in D => kept[p].value = (p \in S)
        BY DEF KeptOf, D
      <3>2. p \in S => p \in D
        <4>1. p \in S => p \in Paths(p)
          BY <2>2, NameIsFilter, LongestPath
        <4> QED BY <2>2, <4>1 DEF Branches
      <3>3. kept'[p].value = (p = t \/ (p \in D /\ kept[p].value))
        BY <2>1
      <3>4. (p = t \/ (p \in D /\ kept[p].value)) <=> p \in T
        BY <3>1, <3>2
      <3> QED BY <3>3, <3>4
    <2>7. born' \in Seq(Branches(T)) /\ ToSet(born') = Branches(T)
      <3>1. pre \in Seq(Paths(t)) /\ ToSet(pre) = Paths(t)
        <4>1. Len(t) \in Nat /\ \A i \in 1..Len(t) : SubSeq(t, 1, i) \in Paths(t)
          BY TopicIs DEF Paths
        <4>2. ToSet(pre) = Paths(t)
          BY DEF ToSet, pre, Paths
        <4> QED BY <4>1, <4>2 DEF pre
      <3>2. pre \in Seq(Branches(T)) /\ born \in Seq(Branches(T))
        BY <2>2, <2>4, <3>1, OfElements
      <3> DEFINE a == Among(pre, new)
      <3>3. a \in Seq(Branches(T)) /\ ToSet(a) = Paths(t) \cap new
        BY <3>1, <3>2, AmongIs
      <3> HIDE DEF a
      <3>4. born' = born \o a
        BY <2>1 DEF a
      <3>5. born \o a \in Seq(Branches(T)) /\ ToSet(born \o a) = ToSet(born) \cup ToSet(a)
        BY <3>2, <3>3, BothLists
      <3>6. ToSet(born) \cup ToSet(a) = Branches(T)
        BY <1>0, <2>2, <2>4, <3>3 DEF new, D
      <3> QED BY <3>4, <3>5, <3>6
    <2>8. DOMAIN kept' = {<<>>} \cup Branches(T)
      BY <2>1, <2>2, <2>4
    <2>9. KeptOf(kept', born', T)
      BY <2>1, <2>4, <2>5, <2>6, <2>7, <2>8 DEF KeptOf
    <2> QED BY <2>9
  <1> QED BY <1>1, <1>2

\* erase_topic(): a topic less, and the nodes no other topic needs.
LEMMA DropKeeps ==
  ASSUME NEW S, KeptOf(kept, born, S), NEW t, t = <<>> \/ IsFilter(t), Drop(t)
  PROVE  \E T : KeptOf(kept', born', T)
  <1>1. CASE ~(Kept(t) /\ kept[t].value)
    <2>1. kept' = kept /\ born' = born
      BY <1>1 DEF Drop
    <2> QED BY <2>1
  <1>2. CASE Kept(t) /\ kept[t].value
    <2> DEFINE T == S \ {t}
               D == DOMAIN kept
               gone == {p \in Paths(t) : kept[p].count = 1}
    <2>1. /\ DOMAIN kept' = D \ gone
          /\ \A p \in D \ gone :
               /\ kept'[p].count = kept[p].count - (IF p \in Paths(t) THEN 1 ELSE 0)
               /\ kept'[p].value = (kept[p].value /\ p # t)
          /\ born' = Among(born, D \ gone)
      BY <1>2 DEF Drop
    <2>2. S \subseteq Topics /\ IsFiniteSet(S) /\ D = {<<>>} \cup Branches(S)
          /\ born \in Seq(Branches(S)) /\ ToSet(born) = Branches(S)
      BY DEF KeptOf
    <2>3. t \in S
      <3>1. <<>> \in D /\ <<>> \notin Topics
        BY <2>2, TopicsAssumption
      <3>2. t \in D
        BY <1>2, <3>1, LongestPath DEF Kept
      <3> QED BY <1>2, <3>2 DEF KeptOf
    <2>4. t \in Topics /\ t \in Paths(t) /\ <<>> \notin Paths(t)
      BY <2>2, <2>3, NameIsFilter, LongestPath
    <2>5. T \subseteq Topics /\ IsFiniteSet(T)
      BY <2>2, FS_RemoveElement
    <2> HIDE DEF D, gone
    <2>6. ASSUME NEW p
          PROVE  /\ p \in Paths(t) =>
                      /\ Cardinality(Bearing(T, p)) = Cardinality(Bearing(S, p)) - 1
                      /\ Bearing(T, p) = {} <=> Cardinality(Bearing(S, p)) = 1
                 /\ p \notin Paths(t) => Bearing(T, p) = Bearing(S, p)
                 /\ Cardinality(Bearing(S, p)) \in Nat
      <3>1. IsFiniteSet(Bearing(S, p)) /\ IsFiniteSet(Bearing(T, p))
        BY <2>2, <2>5, FS_Subset DEF Bearing
      <3>2. Cardinality(Bearing(S, p)) \in Nat /\ Cardinality(Bearing(T, p)) \in Nat
        BY <3>1, FS_CardinalityType
      <3>3. Bearing(T, p) = {} <=> Cardinality(Bearing(T, p)) = 0
        BY <3>1, FS_EmptySet
      <3>4. CASE p \in Paths(t)
        <4>1. Bearing(T, p) = Bearing(S, p) \ {t} /\ t \in Bearing(S, p)
          BY <2>3, <3>4 DEF Bearing
        <4>2. Cardinality(Bearing(T, p)) = Cardinality(Bearing(S, p)) - 1
          BY <3>1, <4>1, FS_RemoveElement
        <4>3. Cardinality(Bearing(T, p)) = 0 <=> Cardinality(Bearing(S, p)) = 1
          BY <3>2, <4>2
        <4> QED BY <3>2, <3>3, <3>4, <4>2, <4>3
      <3>5. CASE p \notin Paths(t)
        <4>1. Bearing(T, p) = Bearing(S, p)
          BY <3>5 DEF Bearing
        <4> QED BY <3>2, <3>5, <4>1
      <3> QED BY <3>4, <3>5
    <2>7. D \ gone = {<<>>} \cup Branches(T)
      <3>1. ASSUME NEW p, p # <<>> PROVE p \in D \ gone <=> Bearing(T, p) # {}
        <4>1. p \in D <=> Bearing(S, p) # {}
          BY <2>2, <3>1 DEF Bearing, Branches
        <4>2. p \in D => kept[p].count = Cardinality(Bearing(S, p))
          BY <3>1 DEF KeptOf, D
        <4>3. CASE p \in Paths(t)
          <5>1. p \in D
            BY <2>3, <4>1, <4>3 DEF Bearing
          <5> QED BY <2>6, <4>2, <4>3, <5>1 DEF gone
        <4>4. CASE p \notin Paths(t)
          <5>1. p \notin gone
            BY <4>4 DEF gone
          <5> QED BY <2>6, <4>1, <4>4, <5>1
        <4> QED BY <4>3, <4>4
      <3>2. <<>> \in D \ gone
        BY <2>2, <2>4 DEF gone
      <3>3. \A p : p \in Branches(T) <=> Bearing(T, p) # {}
        BY DEF Bearing, Branches
      <3>4. <<>> \notin Branches(T)
        <4>1. \A u \in T : <<>> \notin Paths(u)
          BY <2>5, NameIsFilter, LongestPath
        <4> QED BY <4>1 DEF Branches
      <3> QED BY <3>1, <3>2, <3>3
    <2>8. ASSUME NEW p \in D \ gone, p # <<>>
          PROVE  kept'[p].count = Cardinality(Bearing(T, p))
      <3>1. kept[p].count = Cardinality(Bearing(S, p))
        BY <2>8 DEF KeptOf, D
      <3>2. CASE p \in Paths(t)
        BY <2>1, <2>6, <3>1, <3>2
      <3>3. CASE p \notin Paths(t)
        <4>1. kept'[p].count = Cardinality(Bearing(S, p)) - 0
          BY <2>1, <3>1, <3>3
        <4>2. Bearing(T, p) = Bearing(S, p) /\ Cardinality(Bearing(S, p)) \in Nat
          BY <2>6, <3>3
        <4>3. Cardinality(Bearing(S, p)) - 0 = Cardinality(Bearing(S, p))
          BY <4>2
        <4> QED BY <4>1, <4>2, <4>3
      <3> QED BY <3>2, <3>3
    <2>9. ASSUME NEW p \in D \ gone PROVE kept'[p].value = (p \in T)
      <3>1. kept[p].value = (p \in S)
        BY DEF KeptOf, D
      <3>2. kept'[p].value = (kept[p].value /\ p # t)
        BY <2>1
      <3>3. (kept[p].value /\ p # t) <=> p \in T
        BY <3>1
      <3> QED BY <3>2, <3>3
    <2>10. born' \in Seq(Branches(T)) /\ ToSet(born') = Branches(T)
      <3>1. born' \in Seq(Branches(S)) /\ ToSet(born') = ToSet(born) \cap (D \ gone)
        BY <2>1, <2>2, AmongIs
      <3>2. <<>> \notin Branches(S) /\ <<>> \notin Branches(T)
        <4>1. \A u \in S : <<>> \notin Paths(u)
          BY <2>2, NameIsFilter, LongestPath
        <4> QED BY <4>1 DEF Branches
      <3>3. Branches(T) \subseteq Branches(S)
        BY DEF Branches
      <3>4. ToSet(born') = Branches(T)
        BY <2>2, <2>7, <3>1, <3>2, <3>3
      <3> QED BY <3>1, <3>4, OwnElements
    <2>11. KeptOf(kept', born', T)
      BY <2>1, <2>5, <2>7, <2>8, <2>9, <2>10 DEF KeptOf
    <2> QED BY <2>11
  <1> QED BY <1>1, <1>2

--------------------------------------------------------------------------------
\* The search for retained messages, level by level.

\* A function of the numbers up to n, each value from the one before.
Following(n, base, F, g) == g = [i \in 0..n |-> IF i = 0 THEN base ELSE F[<<g[i - 1], i>>]]

\* It is well defined.
LEMMA FollowingExists ==
  ASSUME NEW n \in Nat, NEW R, NEW base \in R, NEW F \in [R \X (1..n) -> R]
  PROVE  \E g \in [0..n -> R] : Following(n, base, F, g)
  <1> DEFINE Body(g, i) == IF i = 0 THEN base ELSE F[<<g[i - 1], i>>]
             Made == {k \in Nat : \E g \in [0..n -> R] : \A i \in 0..n : i <= k => g[i] = Body(g, i)}
  <1>1. ASSUME NEW g \in [0..n -> R], NEW i \in 0..n PROVE Body(g, i) \in R
    <2>1. CASE i = 0
      BY <2>1
    <2>2. CASE i # 0
      <3>1. i - 1 \in 0..n /\ i \in 1..n
        BY <2>2
      <3> QED BY <2>2, <3>1
    <2> QED BY <2>1, <2>2
  <1>2. 0 \in Made
    <2> DEFINE g == [i \in 0..n |-> base]
    <2>1. g \in [0..n -> R] /\ \A i \in 0..n : i <= 0 => g[i] = Body(g, i)
      OBVIOUS
    <2> HIDE DEF g, Body
    <2> QED BY <2>1
  <1>3. ASSUME NEW k \in Made PROVE k + 1 \in Made
    <2>1. PICK g \in [0..n -> R] : \A i \in 0..n : i <= k => g[i] = Body(g, i)
      OBVIOUS
    <2> DEFINE h == [i \in 0..n |-> Body(g, i)]
    <2>2. h \in [0..n -> R]
      <3> HIDE DEF Body
      <3> QED BY <1>1
    <2>3. ASSUME NEW i \in 0..n, i <= k + 1 PROVE h[i] = Body(h, i)
      <3>1. CASE i = 0
        BY <3>1
      <3>2. CASE i # 0
        <4>1. i - 1 \in 0..n /\ i - 1 <= k
          BY <2>3, <3>2
        <4>2. h[i - 1] = g[i - 1]
          BY <2>1, <4>1
        <4> QED BY <3>2, <4>2
      <3> QED BY <3>1, <3>2
    <2> HIDE DEF h, Body
    <2> QED BY <2>2, <2>3
  <1>4. n \in Made
    <2>1. Made \in SUBSET Nat
      OBVIOUS
    <2> HIDE DEF Made
    <2> QED BY <1>2, <1>3, <2>1, NaturalsFrom0
  <1>5. PICK g \in [0..n -> R] : \A i \in 0..n : i <= n => g[i] = Body(g, i)
    BY <1>4
  <1>6. g = [i \in 0..n |-> Body(g, i)]
    <2>1. \A i \in 0..n : g[i] = Body(g, i)
      BY <1>5
    <2> HIDE DEF Body
    <2> QED BY <2>1
  <1> QED BY <1>6 DEF Following

\* One list after the other, as FlattenSeq joins them.
Joint(r, a) == r \o a
Piled(s, h) == h = [i \in 1..Len(s) |-> IF i = 1 THEN s[i] ELSE Joint(h[i - 1], s[i])]

\* What FlattenSeq gives holds what the lists hold.
LEMMA FlattenIs ==
  ASSUME NEW X, NEW s \in Seq(Seq(X))
  PROVE  /\ FlattenSeq(s) \in Seq(X)
         /\ ToSet(FlattenSeq(s)) = UNION {ToSet(s[i]) : i \in DOMAIN s}
  <1> DEFINE n == Len(s)
             h == CHOOSE g : Piled(s, g)
  <1>1. n \in Nat /\ DOMAIN s = 1..n /\ \A i \in 1..n : s[i] \in Seq(X)
    OBVIOUS
  <1>2. CASE n = 0
    <2>1. FlattenSeq(s) = s /\ s = <<>> /\ DOMAIN s = {}
      BY <1>2 DEF FlattenSeq
    <2>2. ToSet(s) = {}
      BY <2>1 DEF ToSet
    <2> QED BY <2>1, <2>2
  <1>3. CASE n # 0
    <2>1. FlattenSeq(s) = h[n]
      BY <1>3 DEF FlattenSeq, Piled, Joint
    <2>2. \A r \in Seq(X), i \in 1..n : Joint(r, s[i]) \in Seq(X)
      BY <1>1, BothLists DEF Joint
    <2>3. \E g : Piled(s, g)
      <3> DEFINE F == [x \in Seq(X) \X (1..n) |-> Joint(x[1], s[x[2]])]
      <3>0. F \in [Seq(X) \X (1..n) -> Seq(X)]
        BY <2>2, Zenon
      <3>1. F \in [Seq(X) \X (1..n) -> Seq(X)] /\ <<>> \in Seq(X)
            /\ \A r \in Seq(X), i \in 1..n : F[<<r, i>>] = Joint(r, s[i])
        BY <3>0
      <3> HIDE DEF F
      <3>2. PICK g \in [0..n -> Seq(X)] : Following(n, <<>>, F, g)
        BY <1>1, <3>1, FollowingExists
      <3>3. g[0] = <<>> /\ \A i \in 1..n : g[i] = Joint(g[i - 1], s[i])
        <4>1. \A i \in 0..n : g[i] = IF i = 0 THEN <<>> ELSE F[<<g[i - 1], i>>]
          BY <3>2 DEF Following
        <4>2. \A i \in 1..n : i \in 0..n /\ i - 1 \in 0..n /\ i # 0
          BY <1>1
        <4>3. 0 \in 0..n
          BY <1>1
        <4>4. \A i \in 1..n : g[i - 1] \in Seq(X)
          BY <3>2, <4>2
        <4> QED BY <3>1, <4>1, <4>2, <4>3, <4>4
      <3> DEFINE k == [i \in 1..n |-> g[i]]
      <3>4. ASSUME NEW i \in 1..n PROVE k[i] = IF i = 1 THEN s[i] ELSE Joint(k[i - 1], s[i])
        <4>1. CASE i = 1
          <5>1. i - 1 = 0 /\ k[i] = Joint(<<>>, s[i])
            BY <3>3, <4>1
          <5> QED BY <1>1, <4>1, <5>1 DEF Joint
        <4>2. CASE i # 1
          <5>1. i - 1 \in 1..n
            BY <1>1, <4>2
          <5> QED BY <3>3, <4>2, <5>1
        <4> QED BY <4>1, <4>2
      <3>5. k = [i \in 1..n |-> k[i]]
        OBVIOUS
      <3> HIDE DEF k
      <3>6. Piled(s, k)
        BY <3>4, <3>5 DEF Piled
      <3> QED BY <3>6
    <2>4. Piled(s, h)
      BY <2>3
    <2> HIDE DEF h
    <2>5. \A i \in 1..n : h[i] = IF i = 1 THEN s[i] ELSE Joint(h[i - 1], s[i])
      BY <2>4 DEF Piled
    <2> DEFINE Good(k) == /\ h[k] \in Seq(X)
                          /\ \A x : x \in ToSet(h[k]) <=> \E i \in 1..k : x \in ToSet(s[i])
               N == {k \in Nat : k \in 1..n => Good(k)}
    <2>6. 0 \in N
      BY <1>1
    <2>7. ASSUME NEW k \in N PROVE k + 1 \in N
      <3> SUFFICES ASSUME k + 1 \in 1..n PROVE Good(k + 1)
        <4>1. k + 1 \in Nat
          OBVIOUS
        <4> HIDE DEF Good
        <4> QED BY <4>1
      <3>1. CASE k = 0
        <4>1. h[1] = s[1] /\ 1 \in 1..n
          BY <2>5, <3>1
        <4>2. \A x : x \in ToSet(s[1]) <=> \E i \in 1..1 : x \in ToSet(s[i])
          OBVIOUS
        <4>3. Good(1)
          BY <1>1, <4>1, <4>2
        <4> QED BY <3>1, <4>3
      <3>2. CASE k # 0
        <4>1. k \in Nat /\ k \in 1..n /\ k + 1 # 1 /\ (k + 1) - 1 = k
          BY <1>1, <3>2
        <4>2. Good(k)
          BY <4>1
        <4>3. h[k + 1] = Joint(h[k], s[k + 1])
          BY <2>5, <4>1
        <4>4. h[k + 1] \in Seq(X) /\ ToSet(h[k + 1]) = ToSet(h[k]) \cup ToSet(s[k + 1])
          BY <1>1, <4>2, <4>3, BothLists DEF Joint
        <4>5. \A i : i \in 1..(k + 1) <=> i \in 1..k \/ i = k + 1
          BY <4>1
        <4>6. ASSUME NEW x
              PROVE  x \in ToSet(h[k + 1]) <=> \E i \in 1..(k + 1) : x \in ToSet(s[i])
          <5>1. x \in ToSet(h[k + 1]) <=> (\E i \in 1..k : x \in ToSet(s[i])) \/ x \in ToSet(s[k + 1])
            BY <4>2, <4>4
          <5>2. (\E i \in 1..(k + 1) : x \in ToSet(s[i]))
                  <=> (\E i \in 1..k : x \in ToSet(s[i])) \/ x \in ToSet(s[k + 1])
            BY <4>5, Zenon
          <5> QED BY <5>1, <5>2
        <4> QED BY <4>4, <4>6
      <3> QED BY <3>1, <3>2
    <2>8. n \in N
      <3>1. N \in SUBSET Nat
        OBVIOUS
      <3> HIDE DEF N
      <3> QED BY <1>1, <2>6, <2>7, <3>1, NaturalsFrom0
    <2>9. Good(n)
      BY <1>1, <1>3, <2>8
    <2> QED BY <1>1, <2>1, <2>9
  <1> QED BY <1>2, <1>3

\* The nodes of retained messages: sequences of levels, closed under prefixes, the root
\* and those that are listed in the order of their creation.
LEMMA KeptNodes ==
  ASSUME NEW S, KeptOf(kept, born, S)
  PROVE  /\ <<>> \in DOMAIN kept
         /\ \A q \in DOMAIN kept : q \in Seq(Levels)
         /\ \A q \in DOMAIN kept : \A n \in 0..Len(q) : SubSeq(q, 1, n) \in DOMAIN kept
         /\ born \in Seq(DOMAIN kept)
         /\ \A q : q \in ToSet(born) <=> q \in DOMAIN kept /\ q # <<>>
  <1> DEFINE D == DOMAIN kept
  <1>1. D = {<<>>} \cup Branches(S) /\ S \subseteq Topics
        /\ born \in Seq(Branches(S)) /\ ToSet(born) = Branches(S)
    BY DEF KeptOf
  <1> HIDE DEF D
  <1>2. ASSUME NEW q \in Branches(S)
        PROVE  /\ q \in Seq(Levels) /\ q # <<>>
               /\ \A n \in 0..Len(q) : SubSeq(q, 1, n) \in D
    <2>1. PICK t \in S : q \in Paths(t)
      BY DEF Branches
    <2>2. t \in Seq(Levels) /\ Len(t) \in Nat /\ <<>> \notin Paths(t)
      BY <1>1, TopicIs, NameIsFilter, LongestPath
    <2>3. PICK i \in 1..Len(t) : q = SubSeq(t, 1, i)
      BY <2>1 DEF Paths
    <2>4. q \in Seq(Levels) /\ Len(q) = i /\ \A j \in 1..i : q[j] = t[j]
      BY <2>2, <2>3
    <2>5. ASSUME NEW n \in 0..Len(q) PROVE SubSeq(q, 1, n) \in D
      <3>1. CASE n = 0
        <4>1. SubSeq(q, 1, n) = <<>>
          BY <2>4, <3>1
        <4> QED BY <1>1, <4>1
      <3>2. CASE n # 0
        <4>1. n \in 1..i /\ n \in 1..Len(t)
          BY <2>2, <2>4, <3>2
        <4>2. SubSeq(q, 1, n) \in Seq(Levels) /\ Len(SubSeq(q, 1, n)) = n
              /\ \A j \in 1..n : SubSeq(q, 1, n)[j] = q[j]
          BY <2>4, <4>1
        <4>3. SubSeq(t, 1, n) \in Seq(Levels) /\ Len(SubSeq(t, 1, n)) = n
              /\ \A j \in 1..n : SubSeq(t, 1, n)[j] = t[j]
          BY <2>2, <4>1
        <4>4. SubSeq(q, 1, n) = SubSeq(t, 1, n)
          <5>1. \A j \in 1..n : SubSeq(q, 1, n)[j] = SubSeq(t, 1, n)[j]
            BY <2>4, <4>1, <4>2, <4>3
          <5> QED BY <4>2, <4>3, <5>1, SeqEqual
        <4>5. SubSeq(t, 1, n) \in Paths(t)
          BY <4>1 DEF Paths
        <4> QED BY <1>1, <2>1, <4>4, <4>5 DEF Branches
      <3> QED BY <3>1, <3>2
    <2>6. q # <<>>
      BY <2>1, <2>2
    <2> QED BY <2>4, <2>5, <2>6
  <1>3. \A n \in 0..Len(<<>>) : SubSeq(<<>>, 1, n) \in D
    <2>1. \A n \in 0..Len(<<>>) : SubSeq(<<>>, 1, n) = <<>>
      OBVIOUS
    <2> QED BY <1>1, <2>1
  <1>4. <<>> \in Seq(Levels)
    OBVIOUS
  <1>5. \A q \in D : q = <<>> \/ q \in Branches(S)
    BY <1>1
  <1>6. \A q \in D : q \in Seq(Levels)
    BY <1>2, <1>4, <1>5
  <1>7. \A q \in D : \A n \in 0..Len(q) : SubSeq(q, 1, n) \in D
    BY <1>2, <1>3, <1>5
  <1>8. born \in Seq(D)
    BY <1>1, OfElements
  <1>9. <<>> \notin Branches(S)
    BY <1>2
  <1> QED BY <1>1, <1>6, <1>7, <1>8, <1>9 DEF D

\* A level of a topic filter leads from the node p to the node q below it.
Leads(p, level, q) ==
  /\ q \in DOMAIN kept /\ Len(q) = Len(p) + 1
  /\ \A j \in 1..Len(p) : q[j] = p[j]
  /\ level \in {"+", q[Len(p) + 1]}
  /\ level = "+" /\ p = <<>> => q[1] \notin System

\* The children of a node.
LEMMA ChildrenAre ==
  ASSUME NEW S, KeptOf(kept, born, S), NEW p \in DOMAIN kept
  PROVE  /\ Children(p) \in Seq(DOMAIN kept)
         /\ \A q : q \in ToSet(Children(p)) <=>
              q \in DOMAIN kept /\ Len(q) = Len(p) + 1 /\ \A j \in 1..Len(p) : q[j] = p[j]
  <1> DEFINE D == DOMAIN kept
             Near == {q \in ToSet(born) : Front(q) = p}
  <1>1. born \in Seq(D) /\ \A q : q \in ToSet(born) <=> q \in D /\ q # <<>>
    BY KeptNodes
  <1>2. \A q \in D : q \in Seq(Levels)
    BY KeptNodes
  <1>3. p \in Seq(Levels) /\ Len(p) \in Nat
    BY <1>2
  <1>4. ASSUME NEW q \in D
        PROVE  q \in Near <=> Len(q) = Len(p) + 1 /\ \A j \in 1..Len(p) : q[j] = p[j]
    <2>1. q \in Seq(Levels) /\ Len(q) \in Nat
      BY <1>2
    <2>2. CASE q = <<>>
      BY <1>1, <1>3, <2>2
    <2>3. CASE q # <<>>
      <3> DEFINE r == SubSeq(q, 1, Len(q) - 1)
      <3>1. Len(q) - 1 \in Nat
        BY <2>1, <2>3
      <3>2. Front(q) = r
        BY DEF Front
      <3>3. r \in Seq(Levels) /\ Len(r) = Len(q) - 1 /\ \A j \in 1..(Len(q) - 1) : r[j] = q[j]
        <4>1. PICK n \in Nat : n = Len(q) - 1 /\ Len(q) = n + 1
          BY <2>1, <3>1
        <4>2. SubSeq(q, 1, n) \in Seq(Levels) /\ Len(SubSeq(q, 1, n)) = n
              /\ \A j \in 1..n : SubSeq(q, 1, n)[j] = q[j]
          BY <2>1, <4>1
        <4> QED BY <4>1, <4>2
      <3> HIDE DEF r
      <3>4. r = p <=> Len(r) = Len(p) /\ \A j \in 1..Len(p) : r[j] = p[j]
        BY <1>3, <3>3, SeqEqual
      <3>5. r = p <=> Len(q) = Len(p) + 1 /\ \A j \in 1..Len(p) : q[j] = p[j]
        BY <1>3, <2>1, <3>3, <3>4
      <3> QED BY <1>1, <2>3, <3>2, <3>5
    <2> QED BY <2>2, <2>3
  <1>5. Children(p) = Among(born, Near)
    BY DEF Children
  <1>6. \A q : q \in ToSet(born) \cap Near <=> q \in D /\ q \in Near
    BY <1>1
  <1> HIDE DEF Near, D
  <1>7. Among(born, Near) \in Seq(D) /\ ToSet(Among(born, Near)) = ToSet(born) \cap Near
    BY <1>1, AmongIs
  <1> QED BY <1>4, <1>5, <1>6, <1>7 DEF D

\* The nodes a level leads to: only those it may, and all of them but for "+" on the
\* first level.
LEMMA UnderIs ==
  ASSUME NEW S, KeptOf(kept, born, S), NEW p \in DOMAIN kept, NEW level
  PROVE  /\ Under(p, level) \in Seq(DOMAIN kept)
         /\ \A q \in ToSet(Under(p, level)) : Leads(p, level, q)
         /\ level # "+" \/ p # <<>> =>
              \A q : Leads(p, level, q) => q \in ToSet(Under(p, level))
  <1> DEFINE D == DOMAIN kept
             all == Children(p)
             u == Under(p, level)
  <1>1. \A q \in D : q \in Seq(Levels) /\ Len(q) \in Nat
    BY KeptNodes
  <1>2. all \in Seq(D) /\ \A q : q \in ToSet(all) <=>
              q \in D /\ Len(q) = Len(p) + 1 /\ \A j \in 1..Len(p) : q[j] = p[j]
    BY ChildrenAre
  <1>3. p \in Seq(Levels) /\ Len(p) \in Nat
    BY <1>1
  <1>4. CASE level = "+"
    <2> DEFINE stop == {i \in DOMAIN all : ~Covers(p, Last(all[i]))}
               m == CHOOSE i \in stop : \A j \in stop : i <= j
    <2>1. u = IF stop = {} THEN all ELSE SubSeq(all, 1, m - 1)
      BY <1>4 DEF Under
    <2>2. stop \in SUBSET Nat /\ DOMAIN all = 1..Len(all) /\ Len(all) \in Nat
      BY <1>2
    <2>3. \A i \in DOMAIN all : all[i] \in ToSet(all)
      BY DEF ToSet
    <2>4. \A i \in DOMAIN all : i \in stop <=> p = <<>> /\ all[i][1] \in System
      <3> SUFFICES ASSUME NEW i \in DOMAIN all
                   PROVE  i \in stop <=> p = <<>> /\ all[i][1] \in System
        OBVIOUS
      <3>1. all[i] \in D /\ Len(all[i]) = Len(p) + 1
        BY <1>2, <2>3
      <3>2. Last(all[i]) = all[i][Len(p) + 1]
        BY <3>1 DEF Last
      <3>3. p = <<>> => Len(p) + 1 = 1
        OBVIOUS
      <3> HIDE DEF all
      <3> QED BY <3>2, <3>3 DEF Covers
    <2> HIDE DEF all, u
    <2>5. u \in Seq(D) /\ \A q \in ToSet(u) : q \in ToSet(all) /\ (p = <<>> => q[1] \notin System)
      <3>1. CASE stop = {}
        <4>1. u = all
          BY <2>1, <3>1
        <4>2. \A q \in ToSet(all) : p = <<>> => q[1] \notin System
          <5> SUFFICES ASSUME NEW i \in DOMAIN all PROVE p = <<>> => all[i][1] \notin System
            BY DEF ToSet
          <5>1. i \notin stop
            BY <3>1
          <5> HIDE DEF stop
          <5> QED BY <2>4, <5>1
        <4> QED BY <1>2, <4>1, <4>2
      <3>2. CASE stop # {}
        <4> HIDE DEF stop
        <4>1. m \in stop /\ \A j \in stop : m <= j
          BY <2>2, <3>2, LeastOf
        <4>2. m \in 1..Len(all)
          BY <2>2, <4>1 DEF stop
        <4> HIDE DEF m
        <4>3. u = SubSeq(all, 1, m - 1)
          BY <2>1, <3>2 DEF m, stop
        <4>4. u \in Seq(D) /\ DOMAIN u = 1..(m - 1) /\ \A i \in 1..(m - 1) : u[i] = all[i]
          BY <1>2, <2>2, <4>2, <4>3
        <4>5. ASSUME NEW q \in ToSet(u) PROVE q \in ToSet(all) /\ (p = <<>> => q[1] \notin System)
          <5>1. PICK i \in 1..(m - 1) : q = all[i]
            BY <4>4 DEF ToSet
          <5>2. i \in DOMAIN all /\ ~(m <= i)
            BY <2>2, <4>2
          <5>3. i \notin stop
            BY <4>1, <5>2
          <5> QED BY <2>3, <2>4, <5>1, <5>2, <5>3
        <4> QED BY <4>4, <4>5
      <3> QED BY <3>1, <3>2
    <2>6. ASSUME NEW q \in ToSet(u) PROVE Leads(p, level, q)
      BY <1>2, <1>4, <2>5 DEF Leads, D
    <2>7. ASSUME p # <<>>, NEW q, Leads(p, level, q) PROVE q \in ToSet(u)
      <3>1. stop = {}
        <4> SUFFICES ASSUME NEW i \in stop PROVE FALSE
          OBVIOUS
        <4>1. i \in DOMAIN all
          OBVIOUS
        <4> QED BY <2>4, <2>7, <4>1
      <3>2. u = all
        BY <2>1, <3>1
      <3> QED BY <1>2, <2>7, <3>2 DEF Leads, D
    <2> QED BY <1>4, <2>5, <2>6, <2>7 DEF u, D
  <1>5. CASE level # "+"
    <2>1. u = IF Child(p, level) \in D THEN <<Child(p, level)>> ELSE <<>>
      BY <1>5 DEF Under, HasChild
    <2>2. /\ Len(Child(p, level)) = Len(p) + 1
          /\ Child(p, level)[Len(p) + 1] = level
          /\ \A j \in 1..Len(p) : Child(p, level)[j] = p[j]
      BY <1>3, ChildIs
    <2>3. ASSUME NEW q, Leads(p, level, q) PROVE q = Child(p, level)
      <3>1. /\ q \in Seq(Levels) /\ Len(q) = Len(p) + 1 /\ q[Len(p) + 1] = level
            /\ \A j \in 1..Len(p) : q[j] = p[j]
        BY <1>1, <1>5, <2>3 DEF Leads
      <3>2. level \in Levels
        BY <1>3, <3>1
      <3>3. Child(p, level) \in Seq(Levels)
        BY <1>3, <3>2 DEF Child
      <3>4. \A j \in 1..(Len(p) + 1) : q[j] = Child(p, level)[j]
        BY <1>3, <2>2, <3>1
      <3> QED BY <2>2, <3>1, <3>3, <3>4, SeqEqual
    <2>4. Child(p, level) \in D => Leads(p, level, Child(p, level))
      BY <1>5, <2>2 DEF Leads
    <2>5. \A q : Leads(p, level, q) => q \in D
      BY DEF Leads
    <2> DEFINE c == Child(p, level)
    <2> HIDE DEF c, u, D
    <2>6. CASE c \in D
      <3>1. u = <<c>>
        BY <2>1, <2>6 DEF c
      <3>2. ToSet(u) = {c} /\ u \in Seq(D)
        BY <2>6, <3>1 DEF ToSet
      <3> QED BY <1>5, <2>3, <2>4, <2>6, <3>2 DEF c, u, D
    <2>7. CASE c \notin D
      <3>1. u = <<>>
        BY <2>1, <2>7 DEF c
      <3>2. ToSet(u) = {} /\ u \in Seq(D)
        BY <3>1 DEF ToSet
      <3> QED BY <1>5, <2>3, <2>5, <2>7, <3>2 DEF c, u, D
    <2> QED BY <2>6, <2>7
  <1> QED BY <1>4, <1>5

\* The nodes that fit the first i levels of a topic filter.
Leading(f, i) ==
  {q \in DOMAIN kept :
    /\ Len(q) = i
    /\ \A j \in 1..i : f[j] \in {"+", q[j]}
    /\ i > 0 /\ f[1] = "+" => q[1] \notin System}

\* One level of the search, and all of them.
Further(line, level) == FlattenSeq([k \in DOMAIN line |-> Under(line[k], level)])
Searching(f, n, g) == g = [i \in 0..n |-> IF i = 0 THEN <<<<>>>> ELSE Further(g[i - 1], f[i])]

\* The list of nodes holds none but those that fit, and all of them unless the filter
\* begins with "+".
Found(line, f, i) ==
  /\ line \in Seq(DOMAIN kept)
  /\ ToSet(line) \subseteq Leading(f, i)
  /\ f[1] # "+" => Leading(f, i) \subseteq ToSet(line)

\* The nodes a list of nodes leads to.
LEMMA FurtherIs ==
  ASSUME NEW S, KeptOf(kept, born, S), NEW line \in Seq(DOMAIN kept), NEW level
  PROVE  /\ Further(line, level) \in Seq(DOMAIN kept)
         /\ \A q : q \in ToSet(Further(line, level)) <=>
              \E p \in ToSet(line) : q \in ToSet(Under(p, level))
  <1> DEFINE D == DOMAIN kept
             piles == [k \in DOMAIN line |-> Under(line[k], level)]
             n == Len(line)
  <1>1. DOMAIN line = 1..n /\ n \in Nat /\ \A k \in 1..n : line[k] \in D
    OBVIOUS
  <1>2. \A k \in 1..n : Under(line[k], level) \in Seq(D)
    BY <1>1, UnderIs
  <1>3. DOMAIN piles = 1..n /\ \A k \in 1..n : piles[k] = Under(line[k], level)
    BY <1>1
  <1>4. piles \in Seq(Seq(D))
    <2>1. piles \in [1..n -> Seq(D)]
      BY <1>1, <1>2
    <2> HIDE DEF piles, D
    <2> QED BY <1>1, <2>1
  <1>5. Further(line, level) = FlattenSeq(piles)
    BY DEF Further
  <1> HIDE DEF piles, D, n
  <1>6. /\ FlattenSeq(piles) \in Seq(D)
        /\ ToSet(FlattenSeq(piles)) = UNION {ToSet(piles[k]) : k \in DOMAIN piles}
    BY <1>4, FlattenIs
  <1>7. ASSUME NEW q
        PROVE  (\E k \in DOMAIN piles : q \in ToSet(piles[k]))
                 <=> \E p \in ToSet(line) : q \in ToSet(Under(p, level))
    <2>1. \A p : p \in ToSet(line) <=> \E k \in 1..n : p = line[k]
      BY <1>1 DEF ToSet
    <2> QED BY <1>3, <2>1
  <1>8. \A q : q \in UNION {ToSet(piles[k]) : k \in DOMAIN piles}
                <=> \E k \in DOMAIN piles : q \in ToSet(piles[k])
    OBVIOUS
  <1> QED BY <1>5, <1>6, <1>7, <1>8 DEF D

\* What fits one level more is below what fits.
LEMMA LeadingOn ==
  ASSUME NEW S, KeptOf(kept, born, S), NEW f, NEW i \in Nat, NEW q
  PROVE  q \in Leading(f, i + 1) <=> \E p \in Leading(f, i) : Leads(p, f[i + 1], q)
  <1> DEFINE D == DOMAIN kept
  <1>0. /\ \A p \in D : p \in Seq(Levels) /\ Len(p) \in Nat
        /\ \A p \in D : \A n \in 0..Len(p) : SubSeq(p, 1, n) \in D
    BY KeptNodes
  <1>1. ASSUME NEW p \in Leading(f, i), Leads(p, f[i + 1], q) PROVE q \in Leading(f, i + 1)
    <2>1. p \in D /\ Len(p) = i /\ \A j \in 1..i : f[j] \in {"+", p[j]}
      BY DEF Leading
    <2>2. q \in D /\ Len(q) = i + 1 /\ \A j \in 1..i : q[j] = p[j]
      BY <1>1, <2>1 DEF Leads
    <2>3. f[i + 1] \in {"+", q[i + 1]}
      BY <1>1, <2>1 DEF Leads
    <2>4. \A j \in 1..(i + 1) : f[j] \in {"+", q[j]}
      BY <2>1, <2>2, <2>3
    <2>5. f[1] = "+" => q[1] \notin System
      <3>1. CASE i = 0
        <4>1. p = <<>> /\ f[1] = f[i + 1]
          BY <1>0, <2>1, <3>1
        <4> QED BY <1>1, <4>1 DEF Leads
      <3>2. CASE i # 0
        <4>1. i > 0 /\ q[1] = p[1]
          BY <2>2, <3>2
        <4> QED BY <4>1 DEF Leading
      <3> QED BY <3>1, <3>2
    <2> QED BY <2>2, <2>4, <2>5 DEF Leading
  <1>2. ASSUME q \in Leading(f, i + 1) PROVE \E p \in Leading(f, i) : Leads(p, f[i + 1], q)
    <2> DEFINE p == SubSeq(q, 1, i)
    <2>1. q \in D /\ Len(q) = i + 1 /\ \A j \in 1..(i + 1) : f[j] \in {"+", q[j]}
      BY <1>2 DEF Leading
    <2>2. f[1] = "+" => q[1] \notin System
      <3>1. i + 1 > 0
        OBVIOUS
      <3> QED BY <1>2, <3>1 DEF Leading
    <2>3. p \in D
      BY <1>0, <2>1
    <2>4. Len(p) = i /\ \A j \in 1..i : p[j] = q[j]
      BY <1>0, <2>1
    <2> HIDE DEF p
    <2>5. \A j \in 1..i : f[j] \in {"+", p[j]}
      BY <2>1, <2>4
    <2>6. i > 0 => p[1] = q[1]
      BY <2>4
    <2>7. p \in Leading(f, i)
      BY <2>2, <2>3, <2>4, <2>5, <2>6 DEF Leading
    <2>8. p = <<>> => i = 0
      BY <2>4
    <2>9. i + 1 \in 1..(i + 1)
      OBVIOUS
    <2>10. f[i + 1] = "+" /\ p = <<>> => q[1] \notin System
      BY <2>2, <2>8
    <2>11. Leads(p, f[i + 1], q)
      BY <2>1, <2>4, <2>9, <2>10 DEF Leads
    <2> QED BY <2>7, <2>11
  <1> QED BY <1>1, <1>2

\* One level of the search.
LEMMA OneFurther ==
  ASSUME NEW S, KeptOf(kept, born, S), NEW f, NEW i \in Nat, NEW line, Found(line, f, i)
  PROVE  Found(Further(line, f[i + 1]), f, i + 1)
  <1> DEFINE next == Further(line, f[i + 1])
  <1>1. /\ line \in Seq(DOMAIN kept) /\ ToSet(line) \subseteq Leading(f, i)
        /\ f[1] # "+" => Leading(f, i) \subseteq ToSet(line)
    BY DEF Found
  <1>2. /\ next \in Seq(DOMAIN kept)
        /\ \A q : q \in ToSet(next) <=> \E p \in ToSet(line) : q \in ToSet(Under(p, f[i + 1]))
    BY <1>1, FurtherIs
  <1> HIDE DEF next
  <1>3. \A p \in Leading(f, i) : p \in DOMAIN kept /\ Len(p) = i
    BY DEF Leading
  <1>4. ASSUME NEW q \in ToSet(next) PROVE q \in Leading(f, i + 1)
    <2>1. PICK p \in ToSet(line) : q \in ToSet(Under(p, f[i + 1]))
      BY <1>2
    <2>2. p \in Leading(f, i) /\ p \in DOMAIN kept
      BY <1>1, <1>3
    <2>3. Leads(p, f[i + 1], q)
      BY <2>1, <2>2, UnderIs
    <2> QED BY <2>2, <2>3, LeadingOn
  <1>5. ASSUME f[1] # "+", NEW q \in Leading(f, i + 1) PROVE q \in ToSet(next)
    <2>1. PICK p \in Leading(f, i) : Leads(p, f[i + 1], q)
      BY LeadingOn
    <2>2. p \in ToSet(line) /\ p \in DOMAIN kept /\ Len(p) = i
      BY <1>1, <1>3, <1>5
    <2>3. f[i + 1] # "+" \/ p # <<>>
      <3>1. CASE i = 0
        BY <1>5, <3>1
      <3>2. CASE i # 0
        BY <2>2, <3>2
      <3> QED BY <3>1, <3>2
    <2>4. q \in ToSet(Under(p, f[i + 1]))
      BY <2>1, <2>2, <2>3, UnderIs
    <2> QED BY <1>2, <2>2, <2>4
  <1> QED BY <1>2, <1>4, <1>5 DEF Found, next

\* The search is well defined, and finds at each level what fits it.
LEMMA SearchFinds ==
  ASSUME NEW S, KeptOf(kept, born, S), NEW f, NEW n \in Nat
  PROVE  LET g == CHOOSE g : Searching(f, n, g) IN \A i \in 0..n : Found(g[i], f, i)
  <1> DEFINE g == CHOOSE g : Searching(f, n, g)
             R == Seq(DOMAIN kept)
             F == [x \in R \X (1..n) |-> Further(x[1], f[x[2]])]
  <1>1. F \in [R \X (1..n) -> R]
    <2>1. \A x \in R \X (1..n) : Further(x[1], f[x[2]]) \in R
      BY FurtherIs
    <2> QED BY <2>1, Zenon
  <1>2. \A r \in R, i \in 1..n : F[<<r, i>>] = Further(r, f[i])
    OBVIOUS
  <1>3. <<<<>>>> \in R
    BY KeptNodes
  <1> HIDE DEF F, R
  <1>4. PICK h \in [0..n -> R] : Following(n, <<<<>>>>, F, h)
    BY <1>1, <1>3, FollowingExists
  <1>5. Searching(f, n, h)
    <2>1. ASSUME NEW i \in 0..n
          PROVE  h[i] = IF i = 0 THEN <<<<>>>> ELSE Further(h[i - 1], f[i])
      <3>1. h[i] = IF i = 0 THEN <<<<>>>> ELSE F[<<h[i - 1], i>>]
        BY <1>4 DEF Following
      <3>2. CASE i = 0
        BY <3>1, <3>2
      <3>3. CASE i # 0
        <4>1. i - 1 \in 0..n /\ i \in 1..n
          BY <3>3
        <4>2. h[i - 1] \in R
          BY <1>4, <4>1
        <4> QED BY <1>2, <3>1, <3>3, <4>1, <4>2
      <3> QED BY <3>2, <3>3
    <2>2. h = [i \in 0..n |-> h[i]]
      BY <1>4
    <2> QED BY <2>1, <2>2 DEF Searching
  <1>6. Searching(f, n, g)
    BY <1>5
  <1> HIDE DEF g
  <1>7. \A i \in 0..n : g[i] = IF i = 0 THEN <<<<>>>> ELSE Further(g[i - 1], f[i])
    BY <1>6 DEF Searching
  <1> DEFINE N == {i \in Nat : i \in 0..n => Found(g[i], f, i)}
  <1>8. 0 \in N
    <2>1. g[0] = <<<<>>>>
      BY <1>7
    <2>2. \A q \in DOMAIN kept : q \in Seq(Levels)
      BY KeptNodes
    <2>3. \A q \in DOMAIN kept : Len(q) = 0 => q = <<>>
      BY <2>2
    <2>4. <<>> \in DOMAIN kept /\ Len(<<>>) = 0
      BY KeptNodes
    <2>5. Leading(f, 0) = {<<>>}
      BY <2>3, <2>4 DEF Leading
    <2>6. <<<<>>>> \in Seq(DOMAIN kept) /\ ToSet(<<<<>>>>) = {<<>>}
      BY <2>4 DEF ToSet
    <2>7. Found(g[0], f, 0)
      BY <2>1, <2>5, <2>6 DEF Found
    <2> QED BY <2>7
  <1>9. ASSUME NEW i \in N PROVE i + 1 \in N
    <2> SUFFICES ASSUME i + 1 \in 0..n PROVE Found(g[i + 1], f, i + 1)
      OBVIOUS
    <2>1. i \in Nat /\ i \in 0..n /\ i + 1 # 0 /\ (i + 1) - 1 = i
      OBVIOUS
    <2>2. Found(g[i], f, i)
      BY <2>1
    <2>3. g[i + 1] = Further(g[i], f[i + 1])
      <3>1. g[i + 1] = IF i + 1 = 0 THEN <<<<>>>> ELSE Further(g[(i + 1) - 1], f[i + 1])
        BY <1>7
      <3> QED BY <2>1, <3>1
    <2> QED BY <2>1, <2>2, <2>3, OneFurther
  <1>10. Nat \subseteq N
    <2>1. N \in SUBSET Nat
      OBVIOUS
    <2> HIDE DEF N
    <2> QED BY <1>8, <1>9, <2>1, NaturalsFrom0
  <1>11. \A i \in 0..n : Found(g[i], f, i)
    BY <1>10
  <1> QED BY <1>11 DEF g

\* The levels of a topic filter that a search goes through one by one.
Plainly(f) == IF Last(f) = "#" THEN Len(f) - 1 ELSE Len(f)

\* What a search for retained messages should find.
LEMMA MatchRetainedIs ==
  ASSUME NEW f \in Filters, NEW t \in Topics
  PROVE  /\ Plainly(f) \in Nat
         /\ MatchRetained(f, t) <=>
              /\ \A i \in 1..Plainly(f) : f[i] \in {"+", t[i]}
              /\ IF Last(f) = "#" THEN Len(t) >= Plainly(f) ELSE Len(t) = Plainly(f)
              /\ f[1] \in {"+", "#"} => t[1] \notin System
  <1> DEFINE m == Len(f)
             n == Plainly(f)
             r == Front(f)
  <1>1. m \in Nat \ {0} /\ f \in Seq(Levels) /\ \A i \in 1..m : f[i] = "#" => i = m
    BY PathsOf, FilterIs
  <1>2. Len(t) \in Nat \ {0}
    BY TopicIs
  <1>3. Last(f) = f[m]
    BY DEF Last
  <1> HIDE DEF m
  <1>4. CASE Last(f) # "#"
    <2>1. n = m
      BY <1>4 DEF m, Plainly
    <2>2. MatchRetained(f, t) <=> Match(f, t)
      BY <1>4 DEF MatchRetained
    <2>3. Match(f, t) <=>
            /\ \A i \in 1..m : f[i] \in {"+", t[i]}
            /\ Len(t) = m
            /\ f[1] \in {"+", "#"} => t[1] \notin System
      BY <1>4 DEF Match, m
    <2> QED BY <1>1, <1>4, <2>1, <2>2, <2>3
  <1>5. CASE Last(f) = "#"
    <2>1. n = m - 1 /\ n \in Nat
      BY <1>1, <1>5 DEF m, Plainly
    <2>2. Match(f, t) <=>
            /\ \A i \in 1..n : f[i] \in {"+", t[i]}
            /\ Len(t) > n
            /\ f[1] \in {"+", "#"} => t[1] \notin System
      BY <1>5, <2>1 DEF Match, m
    <2>3. MatchRetained(f, t) <=> Match(f, t) \/ (n > 0 /\ Match(r, t))
      <3>1. Len(f) > 1 <=> n > 0
        BY <1>1, <2>1 DEF m
      <3> QED BY <1>5, <3>1 DEF MatchRetained
    <2>4. ASSUME n > 0
          PROVE  Match(r, t) <=>
                   /\ \A i \in 1..n : f[i] \in {"+", t[i]}
                   /\ Len(t) = n
                   /\ f[1] \in {"+", "#"} => t[1] \notin System
      <3>1. Len(f) = n + 1
        BY <1>1, <2>1 DEF m
      <3>2. r = SubSeq(f, 1, n)
        BY <2>1 DEF Front, m
      <3>3. r \in Seq(Levels) /\ Len(r) = n /\ \A j \in 1..n : r[j] = f[j]
        BY <1>1, <2>1, <3>1, <3>2, FrontIs
      <3>4. Last(r) = f[n]
        BY <2>1, <2>4, <3>3 DEF Last
      <3>5. n \in 1..m /\ n # m /\ f[n] # "#"
        BY <1>1, <2>1, <2>4
      <3>6. r[1] = f[1]
        BY <2>1, <2>4, <3>3
      <3> HIDE DEF r, n
      <3>7. Match(r, t) <=>
              /\ Len(t) = n
              /\ \A i \in 1..n : r[i] \in {"+", t[i]}
              /\ r[1] \in {"+", "#"} => t[1] \notin System
        BY <3>3, <3>4, <3>5 DEF Match
      <3> QED BY <3>3, <3>6, <3>7
    <2>5. Len(t) >= n <=> Len(t) > n \/ (n > 0 /\ Len(t) = n)
      BY <1>2, <2>1
    <2> HIDE DEF n, r
    <2>6. MatchRetained(f, t) <=>
            /\ \A i \in 1..n : f[i] \in {"+", t[i]}
            /\ Len(t) >= n
            /\ f[1] \in {"+", "#"} => t[1] \notin System
      BY <2>2, <2>3, <2>4, <2>5
    <2> QED BY <1>5, <2>1, <2>6 DEF n
  <1> QED BY <1>4, <1>5

\* The nodes below a node.
LEMMA BelowIs ==
  ASSUME NEW S, KeptOf(kept, born, S), NEW p \in DOMAIN kept, NEW q
  PROVE  q \in Below(p) <=>
           /\ q \in DOMAIN kept /\ Len(q) > Len(p)
           /\ \A j \in 1..Len(p) : q[j] = p[j]
           /\ p # <<>> \/ q[1] \notin System
  <1>1. \A r \in DOMAIN kept : r \in Seq(Levels) /\ Len(r) \in Nat
    BY KeptNodes
  <1> SUFFICES ASSUME q \in DOMAIN kept, Len(q) > Len(p)
               PROVE  q \in Below(p) <=> /\ \A j \in 1..Len(p) : q[j] = p[j]
                                         /\ p # <<>> \/ q[1] \notin System
    BY DEF Below
  <1> DEFINE n == Len(p)
             a == SubSeq(p, 1, n)
             b == SubSeq(q, 1, n)
  <1>2. n \in Nat /\ n <= Len(q) /\ Len(q) \in Nat
    BY <1>1
  <1>3. a \in Seq(Levels) /\ Len(a) = n /\ \A j \in 1..n : a[j] = p[j]
    BY <1>1
  <1>4. b \in Seq(Levels) /\ Len(b) = n /\ \A j \in 1..n : b[j] = q[j]
    BY <1>1, <1>2
  <1>5. IsPrefix(p, q) <=> a = b
    BY <1>2 DEF IsPrefix
  <1> HIDE DEF a, b
  <1>6. a = b <=> \A j \in 1..n : q[j] = p[j]
    <2>1. ASSUME \A j \in 1..n : q[j] = p[j] PROVE a = b
      <3>1. \A j \in 1..n : a[j] = b[j]
        BY <1>3, <1>4, <2>1
      <3> QED BY <1>3, <1>4, <3>1, SeqEqual
    <2> QED BY <1>3, <1>4, <2>1
  <1>7. p = <<>> => n = 0
    OBVIOUS
  <1>8. Covers(p, q[n + 1]) <=> p # <<>> \/ q[1] \notin System
    BY <1>7 DEF Covers
  <1> QED BY <1>5, <1>6, <1>8 DEF Below

\* The search finds retained messages that match, and all of them with the exceptions.
LEMMA LookupFinds ==
  ASSUME NEW S, KeptOf(kept, born, S), NEW f \in Filters
  PROVE  LET found == {t \in Stored : MatchRetained(f, t)}
         IN  /\ Lookup(f) \subseteq found
             /\ \/ Lookup(f) = found
                \/ f[1] = "+"
                \/ Last(f) = "#" /\ "+" \in ToSet(f)
  <1> DEFINE D == DOMAIN kept
             n == Plainly(f)
             hash == Last(f) = "#"
             last == (CHOOSE g : Searching(f, n, g))[n]
             found == {t \in Stored : MatchRetained(f, t)}
             A == {q \in ToSet(last) : q # <<>> /\ kept[q].value}
             B == {q \in (IF hash /\ last # <<>> THEN Below(last[1]) ELSE {}) : kept[q].value}
  <1>1. /\ Len(f) \in Nat \ {0} /\ f \in Seq(Levels) /\ Last(f) = f[Len(f)]
        /\ \A i \in 1..Len(f) : f[i] = "#" => i = Len(f)
    BY PathsOf, FilterIs DEF Last
  <1>2. n \in Nat /\ n = (IF hash THEN Len(f) - 1 ELSE Len(f))
    BY <1>1 DEF Plainly
  <1>0. n \in Nat /\ (n # 0 => n > 0 /\ 1 \in 1..n)
    <2>1. n \in Nat
      BY <1>2
    <2> HIDE DEF n
    <2> QED BY <2>1
  <1>3. Lookup(f) = A \cup B
    BY DEF Lookup, Searching, Further, Plainly
  <1> HIDE DEF n
  <1>4. Found(last, f, n)
    <2>1. \A i \in 0..n : Found((CHOOSE g : Searching(f, n, g))[i], f, i)
      BY <1>2, SearchFinds
    <2>2. n \in 0..n
      BY <1>2
    <2> QED BY <2>1, <2>2
  <1> HIDE DEF last
  <1>5. /\ last \in Seq(D) /\ ToSet(last) \subseteq Leading(f, n)
        /\ f[1] # "+" => Leading(f, n) \subseteq ToSet(last)
    BY <1>4 DEF Found
  <1>6. /\ Stored = S /\ S \subseteq Topics
        /\ \A q \in D : q \in Stored <=> kept[q].value
    BY StoredAre DEF KeptOf, Stored
  <1>7. \A q \in D : q \in Seq(Levels) /\ Len(q) \in Nat
    BY KeptNodes
  <1>8. last # <<>> => last[1] \in ToSet(last)
    <2> SUFFICES ASSUME last # <<>> PROVE 1 \in DOMAIN last
      BY DEF ToSet
    <2> QED BY <1>5
  <1>9. f[1] = "#" => n = 0 /\ hash
    <2>1. 1 \in 1..Len(f)
      BY <1>1
    <2>2. f[1] = "#" => Len(f) = 1
      BY <1>1, <2>1
    <2>3. f[1] = "#" => hash
      BY <1>1, <2>2
    <2>4. Len(f) = 1 /\ hash => n = 0
      BY <1>2
    <2> QED BY <2>2, <2>3, <2>4
  <1>10. ASSUME NEW t \in Topics
         PROVE  MatchRetained(f, t) <=>
                  /\ \A i \in 1..n : f[i] \in {"+", t[i]}
                  /\ IF hash THEN Len(t) >= n ELSE Len(t) = n
                  /\ f[1] \in {"+", "#"} => t[1] \notin System
    BY MatchRetainedIs DEF n
  <1>11. ASSUME NEW q \in A PROVE q \in found
    <2>1. q \in D /\ Len(q) = n /\ \A j \in 1..n : f[j] \in {"+", q[j]}
      BY <1>5 DEF Leading
    <2>2. n > 0 /\ f[1] = "+" => q[1] \notin System
      BY <1>5 DEF Leading
    <2>3. n # 0
      BY <1>7, <2>1
    <2>4. q \in Stored /\ q \in Topics
      BY <1>6, <2>1
    <2>5. f[1] \in {"+", "#"} => q[1] \notin System
      <3>1. n > 0 /\ f[1] # "#"
        BY <1>0, <1>9, <2>3
      <3> QED BY <2>2, <3>1
    <2>6. IF hash THEN Len(q) >= n ELSE Len(q) = n
      BY <1>2, <2>1
    <2>7. MatchRetained(f, q)
      BY <1>10, <2>1, <2>4, <2>5, <2>6
    <2> QED BY <2>4, <2>7
  <1>12. ASSUME NEW q \in B PROVE q \in found
    <2> DEFINE p == last[1]
    <2>1. hash /\ last # <<>> /\ q \in Below(p) /\ kept[q].value
      OBVIOUS
    <2>2. p \in Leading(f, n)
      BY <1>5, <1>8, <2>1
    <2> HIDE DEF p
    <2>3. p \in D /\ Len(p) = n /\ \A j \in 1..n : f[j] \in {"+", p[j]}
      BY <2>2 DEF Leading
    <2>4. n > 0 /\ f[1] = "+" => p[1] \notin System
      BY <2>2 DEF Leading
    <2>5. /\ q \in D /\ Len(q) > n /\ \A j \in 1..n : q[j] = p[j]
          /\ p # <<>> \/ q[1] \notin System
      BY <2>1, <2>3, BelowIs
    <2>6. q \in Stored /\ q \in Topics
      BY <1>6, <2>1, <2>5
    <2>7. \A j \in 1..n : f[j] \in {"+", q[j]}
      BY <2>3, <2>5
    <2>8. f[1] \in {"+", "#"} => q[1] \notin System
      <3>1. CASE n = 0
        <4>1. p = <<>>
          BY <1>7, <2>3, <3>1
        <4> QED BY <2>5, <4>1
      <3>2. CASE n # 0
        <4>1. n > 0 /\ 1 \in 1..n
          BY <1>0, <3>2
        <4>2. q[1] = p[1]
          BY <2>5, <4>1
        <4>3. f[1] # "#"
          BY <1>9, <3>2
        <4> QED BY <2>4, <4>1, <4>2, <4>3
      <3> QED BY <3>1, <3>2
    <2>9. Len(q) >= n
      BY <1>2, <1>7, <2>5
    <2>10. MatchRetained(f, q)
      BY <1>10, <2>1, <2>6, <2>7, <2>8, <2>9
    <2> QED BY <2>6, <2>10
  <1>13. ASSUME f[1] # "+", ~(hash /\ "+" \in ToSet(f)), NEW t \in found
         PROVE  t \in A \cup B
    <2>1. t \in D /\ t \in Topics /\ kept[t].value
      BY <1>6 DEF Stored
    <2>2. /\ \A i \in 1..n : f[i] \in {"+", t[i]}
          /\ IF hash THEN Len(t) >= n ELSE Len(t) = n
          /\ f[1] \in {"+", "#"} => t[1] \notin System
      BY <1>10, <2>1
    <2>3. t # <<>> /\ t \in Seq(Levels) /\ Len(t) \in Nat
      <3>1. Len(t) \in Nat \ {0} /\ t \in Seq(Levels)
        BY <2>1, TopicIs
      <3> QED BY <3>1
    <2>4. CASE Len(t) = n
      <3>1. t \in Leading(f, n)
        BY <1>13, <2>1, <2>2, <2>4 DEF Leading
      <3> QED BY <1>5, <1>13, <2>1, <2>3, <3>1
    <2>5. CASE Len(t) # n
      <3>1. hash /\ Len(t) > n
        BY <1>2, <2>2, <2>3, <2>5
      <3> DEFINE p == SubSeq(t, 1, n)
      <3>2. p \in D
        BY <1>2, <2>1, <2>3, <3>1, KeptNodes
      <3>3. p \in Seq(Levels) /\ Len(p) = n /\ \A j \in 1..n : p[j] = t[j]
        BY <1>2, <2>3, <3>1
      <3> HIDE DEF p
      <3>4. p \in Leading(f, n)
        BY <1>13, <2>2, <3>2, <3>3 DEF Leading
      <3>5. p \in ToSet(last)
        BY <1>5, <1>13, <3>4
      <3>6. last # <<>>
        BY <3>5 DEF ToSet
      <3>7. \A j \in 1..n : f[j] # "+"
        <4>1. \A j \in 1..n : j \in DOMAIN f
          BY <1>1, <1>2
        <4> QED BY <1>13, <3>1, <4>1 DEF ToSet
      <3> DEFINE first == last[1]
      <3>8. first \in Leading(f, n)
        BY <1>5, <1>8, <3>6
      <3>9. first = p
        <4> HIDE DEF first
        <4>1. first \in D /\ Len(first) = n /\ \A j \in 1..n : f[j] \in {"+", first[j]}
          BY <3>8 DEF Leading
        <4>2. \A j \in 1..n : f[j] \in {"+", p[j]}
          BY <3>4 DEF Leading
        <4>3. \A j \in 1..n : first[j] = p[j]
          BY <3>7, <4>1, <4>2
        <4> QED BY <1>7, <3>3, <4>1, <4>3, SeqEqual
      <3>10. p = <<>> => f[1] = "#"
        <4>1. p = <<>> => n = 0
          BY <3>3
        <4>2. n = 0 => Len(f) = 1
          BY <1>1, <1>2
        <4> QED BY <1>1, <3>1, <4>1, <4>2
      <3>11. t \in Below(p)
        <4>1. p # <<>> \/ t[1] \notin System
          BY <2>2, <3>10
        <4> QED BY <2>1, <3>1, <3>2, <3>3, <4>1, BelowIs
      <3>12. t \in B
        BY <2>1, <3>1, <3>6, <3>9, <3>11
      <3> QED BY <3>12
    <2> QED BY <2>4, <2>5
  <1> HIDE DEF A, B, found, hash
  <1>14. Lookup(f) \subseteq found
    BY <1>3, <1>11, <1>12
  <1>15. Lookup(f) = found \/ f[1] = "+" \/ (hash /\ "+" \in ToSet(f))
    BY <1>3, <1>13, <1>14
  <1> QED BY <1>14, <1>15 DEF found, hash

--------------------------------------------------------------------------------
\* The inductive invariant.

\* The inductive invariant.
Planted == Handles(handles) /\ TreeOf(tree, handles)
Granted == Backed(auth)
Asked ==
  /\ issued \in Nat
  /\ DOMAIN response = Clients
  /\ \A c \in Clients : response[c] = <<>> \/ IsFilter(response[c])
  /\ DOMAIN cleaner = Clients
  /\ \A c \in Clients : cleaner[c].topic = <<>> \/ IsFilter(cleaner[c].topic)

\* Whoever has a handle for a topic filter with a share name is in line for it.
Lined ==
  /\ targets \in Seq(Members)
  /\ \A c \in Clients : \A f \in handles[c] :
       tree[f].value[c] # NoShare => Has(targets, c, tree[f].value[c], f)

\* A publish has served one of each group that matches.
Served ==
  sent.reason \in {"success", "no_matching_subscribers"} =>
    /\ sent.topic \in Topics
    /\ \A c \in Clients : \A f \in handles[c] :
         tree[f].value[c] # NoShare /\ Match(f, sent.topic)
           => One(sent.turn, tree[f].value[c], f, targets)

\* The tree of retained messages is that of the topics that have one.
Retaining == KeptOf(kept, born, Stored)

Inv == Planted /\ Granted /\ Asked /\ Lined /\ Served /\ Retaining

\* The invariant holds before anyone has connected.
LEMMA AtFirst == ASSUME Init PROVE Inv
  <1>1. Handles(handles)
    <2>1. handles = [c \in Clients |-> {}]
      BY DEF Init
    <2>2. Pairs(handles) = {}
      BY <2>1 DEF Pairs
    <2> QED BY <2>1, <2>2, FS_EmptySet DEF Handles
  <1>2. TreeOf(tree, handles)
    <2>1. \A p : Through(handles, p) = {}
      BY DEF Init, Through, Pairs
    <2> DEFINE n == [Node EXCEPT !.count = 1]
    <2>2. tree = [p \in {<<>>} |-> n]
      BY DEF Init
    <2>3. /\ n \in Nodes /\ n.plus = FALSE /\ n.hash = FALSE /\ n.value = <<>>
      <3>1. Node \in Nodes /\ Node.plus = FALSE /\ Node.hash = FALSE /\ Node.value = <<>>
        BY NodeIsNode DEF Node
      <3> QED BY <3>1 DEF Nodes
    <2> HIDE DEF n
    <2>4. DOMAIN tree = {<<>>} /\ tree[<<>>] = n
      BY <2>2
    <2>5. tree \in [{<<>>} -> Nodes]
      BY <2>2, <2>3
    <2>6. Child(<<>>, "+") # <<>> /\ Child(<<>>, "#") # <<>>
      <3>1. <<>> \in Seq(Levels)
        OBVIOUS
      <3> QED BY <3>1, ChildDiffers
    <2>7. {c \in Clients : <<>> \in handles[c]} = {}
      BY DEF Init
    <2>8. {<<>>} \cup {p \in Every : Through(handles, p) # {}} = {<<>>}
      BY <2>1
    <2> QED BY <2>3, <2>4, <2>5, <2>6, <2>7, <2>8 DEF TreeOf
  <1>3. Granted
    BY LoadedIsBacked DEF Granted, Init
  <1>4. Asked
    BY DEF Init, Asked, NoCleaner
  <1>5. Lined
    BY DEF Init, Lined
  <1>6. Served
    BY DEF Init, Served, Nothing
  <1>7. Retaining
    <2>1. DOMAIN kept = {<<>>} /\ kept[<<>>].value = FALSE /\ born = <<>>
      BY DEF Init
    <2>2. Branches({}) = {}
      BY DEF Branches
    <2>3. <<>> \in Seq({}) /\ ToSet(<<>>) = {}
      BY DEF ToSet
    <2>4. \A p \in DOMAIN kept : kept[p].value = (p \in {}) /\ p = <<>>
      <3>1. \A p : (p \in {}) = FALSE
        OBVIOUS
      <3>2. \A p \in DOMAIN kept : p = <<>> /\ kept[p].value = FALSE
        BY <2>1
      <3> QED BY <3>1, <3>2
    <2>5. KeptOf(kept, born, {})
      BY <2>1, <2>2, <2>3, <2>4, FS_EmptySet DEF KeptOf
    <2> QED BY <2>5, StoredAre DEF Retaining, Stored
  <1> QED BY <1>1, <1>2, <1>3, <1>4, <1>5, <1>6, <1>7 DEF Inv, Planted

\* session_state::subscribe()
LEMMA SubscribedPlants ==
  ASSUME Planted, NEW c \in Clients, NEW f \in Filters, NEW share \in Shares \cup {NoShare},
         Subscribed(c, share, f)
  PROVE  Planted'
  <1>1. c \in DOMAIN Subscribers(f) <=> f \in handles[c]
    BY SubscribersAre DEF Planted
  <1>2. CASE f \in handles[c]
    <2>1. handles' = handles
      BY <1>1, <1>2 DEF Subscribed
    <2>2. tree' = Put(tree, f, c, share)
      BY <1>1, <1>2 DEF Subscribed, Inserted, Put
    <2>3. TreeOf(tree', handles)
      BY <1>2, <2>2, RenewedIsTree DEF Planted
    <2> QED BY <2>1, <2>3 DEF Planted
  <1>3. CASE f \notin handles[c]
    <2>1. handles' = More(handles, c, f)
      BY <1>1, <1>3 DEF Subscribed, More
    <2>2. tree' = Put(Grown(f), f, c, share)
      BY <1>1, <1>3 DEF Subscribed, Inserted, Put
    <2>3. TreeOf(tree', More(handles, c, f))
      BY <1>3, <2>2, GrownIsTree DEF Planted
    <2>4. Handles(More(handles, c, f))
      BY <1>3, OneMore DEF Planted
    <2> QED BY <2>1, <2>3, <2>4 DEF Planted
  <1> QED BY <1>2, <1>3

\* session_state::unsubscribe()
LEMMA UnsubscribedPlants ==
  ASSUME Planted, NEW c \in Clients, NEW f \in Filters, NEW share, Unsubscribed(c, share, f)
  PROVE  Planted'
  <1>1. CASE ~Held(f)
    <2>1. UNCHANGED <<handles, tree>>
      BY <1>1 DEF Unsubscribed
    <2> QED BY <2>1 DEF Planted
  <1>2. CASE Held(f)
    <2>1. handles' = [handles EXCEPT ![c] = @ \ {f}] /\ tree' = Erased(tree, f, c)
      BY <1>2 DEF Unsubscribed
    <2>2. f \in DOMAIN tree /\ handles \in [Clients -> SUBSET Filters]
      BY <1>2, SubscribersAre DEF Planted, Handles
    <2>3. CASE f \in handles[c]
      <3>1. handles' = Less(handles, c, f)
        BY <2>1 DEF Less
      <3>2. TreeOf(tree', Less(handles, c, f)) /\ Handles(Less(handles, c, f))
        BY <2>1, <2>3, ErasedIsTree, OneLess DEF Planted
      <3> QED BY <3>1, <3>2 DEF Planted
    <2>4. CASE f \notin handles[c]
      <3>1. c \notin DOMAIN tree[f].value
        BY <2>2, <2>4 DEF Planted, TreeOf
      <3>2. tree' = tree
        BY <2>1, <3>1 DEF Erased
      <3>3. handles[c] \ {f} = handles[c]
        BY <2>4
      <3>4. handles' = handles
        BY <2>1, <2>2, <3>3
      <3> QED BY <3>2, <3>4 DEF Planted
    <2> QED BY <2>3, <2>4
  <1> QED BY <1>1, <1>2

\* session_state::clean()
LEMMA CleanPlants ==
  ASSUME Planted, NEW c \in Clients, Clean(c)
  PROVE  Planted'
  <1>1. handles' = [handles EXCEPT ![c] = {}]
    BY DEF Clean
  <1>2. tree' = FoldSet(LAMBDA f, t : Erased(t, f, c), tree, handles[c])
    BY DEF Clean
  <1>3. /\ Handles([handles EXCEPT ![c] = {}])
        /\ TreeOf(FoldSet(LAMBDA f, t : Erased(t, f, c), tree, handles[c]), [handles EXCEPT ![c] = {}])
    BY CleanIsTree DEF Planted
  <1>4. Handles(handles') /\ TreeOf(tree', handles')
    BY <1>1, <1>2, <1>3
  <1> QED BY <1>4 DEF Planted

\* The tree remains that of the handles: every step.
LEMMA PlantedStays == ASSUME Planted, [Next]_vars PROVE Planted'
  <1>0. ASSUME UNCHANGED <<tree, handles>> PROVE Planted'
    BY <1>0 DEF Planted
  <1>1. ASSUME NEW c \in Clients, NEW share \in Shares \cup {NoShare}, NEW f \in Filters,
               NEW handling, Subscribe(c, share, f, handling)
        PROVE  Planted'
    <2>1. Subscribed(c, share, f) \/ UNCHANGED <<targets, tree, handles>>
      BY <1>1 DEF Subscribe
    <2> QED BY <1>0, <2>1, SubscribedPlants
  <1>2. ASSUME NEW c \in Clients, NEW share \in Shares \cup {NoShare}, NEW f \in Filters,
               Unsubscribe(c, share, f)
        PROVE  Planted'
    BY <1>2, UnsubscribedPlants DEF Unsubscribe
  <1>3. ASSUME NEW c \in Clients, NEW t \in Topics, NEW retain, Publish(c, t, retain)
        PROVE  Planted'
    <2>1. UNCHANGED <<tree, handles>>
      BY <1>3 DEF Publish, DoPublish, topicVars
    <2> QED BY <1>0, <2>1
  <1>4. ASSUME NEW c \in Clients, NEW requested, Renew(c, requested) PROVE Planted'
    BY <1>4, CleanPlants DEF Renew
  <1>5. ASSUME NEW c \in Clients, End(c) PROVE Planted'
    BY <1>5, CleanPlants DEF End
  <1>6. ASSUME NEW c \in Clients, Request(c) PROVE Planted'
    BY <1>0, <1>6 DEF Request, topicVars
  <1>7. ASSUME NEW t \in Topics, RetainedExpires(t) PROVE Planted'
    BY <1>0, <1>7 DEF RetainedExpires
  <1>8. ASSUME UNCHANGED vars PROVE Planted'
    BY <1>0, <1>8 DEF vars, topicVars
  <1> QED BY <1>1, <1>2, <1>3, <1>4, <1>5, <1>6, <1>7, <1>8 DEF Next

\* The maps remain those of the list: every step.
LEMMA GrantedStays == ASSUME Granted, Asked, [Next]_vars PROVE Granted' /\ Asked'
  <1>0. ASSUME UNCHANGED ruleVars PROVE Granted' /\ Asked'
    BY <1>0 DEF Granted, Asked, ruleVars
  <1>1. ASSUME NEW c \in Clients, NEW rules, NEW old, Backed(rules), old = <<>> \/ IsFilter(old),
               Respond(c, rules, old)
        PROVE  Granted' /\ Asked'
    <2> DEFINE topic == IF old = <<>> THEN ResponseTopics[issued + 1] ELSE old
    <2>1. IsFilter(topic)
      <3>1. CASE old = <<>>
        <4>1. issued + 1 \in DOMAIN ResponseTopics
          BY <1>1, <3>1, TopicsAssumption DEF Respond, Asked
        <4>2. ResponseTopics[issued + 1] \in ToSet(ResponseTopics)
          BY <4>1 DEF ToSet
        <4> QED BY <3>1, <4>2, TopicsAssumption
      <3> QED BY <1>1, <3>1
    <2>2. auth' = AddAuth(rules, topic, {Everyone}, "allow", {UserOf(c)}, "allow")
          /\ response' = [response EXCEPT ![c] = topic]
          /\ cleaner' = [cleaner EXCEPT ![c] = [topic |-> topic, nr |-> NextRuleNr(rules)]]
          /\ issued' \in {issued, issued + 1}
      BY <1>1 DEF Respond
    <2> HIDE DEF topic
    <2>3. Granted'
      BY <1>1, <2>1, <2>2, AddIsBacked DEF Granted
    <2>4. \A d \in Clients : cleaner'[d].topic = <<>> \/ IsFilter(cleaner'[d].topic)
      <3> SUFFICES ASSUME NEW d \in Clients PROVE cleaner'[d].topic = <<>> \/ IsFilter(cleaner'[d].topic)
        OBVIOUS
      <3>1. CASE d = c
        <4>1. cleaner'[d].topic = topic
          BY <2>2, <3>1 DEF Asked
        <4> QED BY <2>1, <4>1
      <3>2. CASE d # c
        <4>1. cleaner'[d] = cleaner[d]
          BY <2>2, <3>2 DEF Asked
        <4> QED BY <4>1 DEF Asked
      <3> QED BY <3>1, <3>2
    <2>5. DOMAIN cleaner' = Clients
      BY <2>2 DEF Asked
    <2>6. Asked'
      BY <2>1, <2>2, <2>4, <2>5 DEF Asked
    <2> QED BY <2>3, <2>6
  <1>2. ASSUME NEW c \in Clients PROVE Backed(CleanedRules(c))
    BY RemoveIsBacked DEF CleanedRules, Granted
  <1>3. ASSUME NEW c \in Clients, NEW share, NEW f \in Filters,
               NEW handling, Subscribe(c, share, f, handling)
        PROVE  Granted' /\ Asked'
    BY <1>0, <1>3 DEF Subscribe
  <1>4. ASSUME NEW c \in Clients, NEW share, NEW f \in Filters, Unsubscribe(c, share, f)
        PROVE  Granted' /\ Asked'
    BY <1>0, <1>4 DEF Unsubscribe
  <1>5. ASSUME NEW c \in Clients, NEW t \in Topics, NEW retain, Publish(c, t, retain)
        PROVE  Granted' /\ Asked'
    BY <1>0, <1>5 DEF Publish
  <1>6. ASSUME NEW c \in Clients, NEW requested, Renew(c, requested) PROVE Granted' /\ Asked'
    <2>1. CASE requested
      BY <1>1, <1>2, <1>6, <2>1 DEF Renew
    <2>2. CASE ~requested
      <3>1. /\ auth' = CleanedRules(c) /\ response' = [response EXCEPT ![c] = <<>>]
            /\ issued' = issued /\ cleaner' = cleaner
        BY <1>6, <2>2 DEF Renew
      <3> QED BY <1>2, <3>1 DEF Granted, Asked
    <2> QED BY <2>1, <2>2
  <1>7. ASSUME NEW c \in Clients, End(c) PROVE Granted' /\ Asked'
    <2>1. /\ auth' = CleanedRules(c) /\ response' = [response EXCEPT ![c] = <<>>]
          /\ issued' = issued /\ cleaner' = [cleaner EXCEPT ![c] = NoCleaner]
      BY <1>7 DEF End
    <2>2. DOMAIN cleaner' = Clients
      BY <2>1 DEF Asked
    <2>3. \A d \in Clients : cleaner'[d].topic = <<>> \/ IsFilter(cleaner'[d].topic)
      <3>1. \A d \in Clients : cleaner'[d] = IF d = c THEN NoCleaner ELSE cleaner[d]
        BY <2>1 DEF Asked
      <3>2. NoCleaner.topic = <<>>
        BY DEF NoCleaner
      <3> HIDE DEF NoCleaner
      <3> QED BY <3>1, <3>2 DEF Asked
    <2>4. Asked'
      BY <2>1, <2>2, <2>3 DEF Asked
    <2> QED BY <1>2, <2>1, <2>4 DEF Granted
  <1>8. ASSUME NEW c \in Clients, Request(c) PROVE Granted' /\ Asked'
    BY <1>1, <1>8 DEF Request, Granted, Asked
  <1>9. ASSUME NEW t \in Topics, RetainedExpires(t) PROVE Granted' /\ Asked'
    BY <1>0, <1>9 DEF RetainedExpires
  <1>10. ASSUME UNCHANGED vars PROVE Granted' /\ Asked'
    BY <1>0, <1>10 DEF vars
  <1> QED BY <1>3, <1>4, <1>5, <1>6, <1>7, <1>8, <1>9, <1>10 DEF Next

\* session_state::subscribe(): the share name of the subscription, and of the others.
LEMMA SubscribedShares ==
  ASSUME Planted, NEW c \in Clients, NEW f \in Filters, NEW share \in Shares \cup {NoShare},
         Subscribed(c, share, f), NEW d \in Clients, NEW e \in handles'[d]
  PROVE  \/ d = c /\ e = f /\ tree'[e].value[d] = share
         \/ (d # c \/ e # f) /\ e \in handles[d] /\ tree'[e].value[d] = tree[e].value[d]
  <1> DEFINE t == IF c \in DOMAIN Subscribers(f) THEN tree ELSE Grown(f)
             v == [x \in DOMAIN t[f].value \cup {c} |-> IF x = c THEN share ELSE t[f].value[x]]
  <1>1. c \in DOMAIN Subscribers(f) <=> f \in handles[c]
    BY SubscribersAre DEF Planted
  <1>2. tree' = Put(t, f, c, share)
    BY DEF Subscribed, Inserted, Put
  <1>3. handles \in [Clients -> SUBSET Filters]
    BY DEF Planted, Handles
  <1>4. (d = c /\ e = f) \/ e \in handles[d]
    BY <1>3 DEF Subscribed
  <1>5. \A p \in DOMAIN tree : tree[p] \in Nodes
    BY DEF Planted, TreeOf
  <1>6. f \in DOMAIN t /\ "value" \in DOMAIN t[f]
        /\ \A p \in DOMAIN tree : p \in DOMAIN t /\ t[p].value = tree[p].value
    <2>1. CASE c \in DOMAIN Subscribers(f)
      <3>1. f \in DOMAIN tree
        BY <1>1, <2>1, FilterIsThere DEF Planted
      <3> QED BY <1>5, <2>1, <3>1 DEF Nodes
    <2>2. CASE c \notin DOMAIN Subscribers(f)
      <3> DEFINE old(p) == IF p \in DOMAIN tree THEN tree[p] ELSE Node
                 new(p, level) == Child(p, level) \in Paths(f) \ DOMAIN tree
      <3>1. t = Grown(f)
        BY <2>2
      <3>2. DOMAIN Grown(f) = DOMAIN tree \cup Paths(f)
        BY DEF Grown
      <3>3. ASSUME NEW p \in DOMAIN tree \cup Paths(f)
            PROVE  Grown(f)[p] = [old(p) EXCEPT !.count = @ + (IF p \in Paths(f) THEN 1 ELSE 0),
                                                !.plus = @ \/ new(p, "+"),
                                                !.hash = @ \/ new(p, "#")]
        BY DEF Grown
      <3>4. \A p : "value" \in DOMAIN old(p) /\ (p \in DOMAIN tree => old(p).value = tree[p].value)
        BY <1>5, NodeIsNode DEF Nodes
      <3> HIDE DEF old, new
      <3>5. \A p \in DOMAIN tree \cup Paths(f) :
              "value" \in DOMAIN Grown(f)[p] /\ Grown(f)[p].value = old(p).value
        BY <3>3, <3>4
      <3>6. f \in Paths(f)
        BY PathsOf
      <3> QED BY <3>1, <3>2, <3>4, <3>5, <3>6
    <2> QED BY <2>1, <2>2
  <1> HIDE DEF t
  <1>7. v[c] = share /\ \A x \in DOMAIN t[f].value : x # c => v[x] = t[f].value[x]
    OBVIOUS
  <1>8. tree' = [t EXCEPT ![f].value = v]
    BY <1>2 DEF Put
  <1> HIDE DEF v
  <1>9. tree'[f].value = v /\ \A p \in DOMAIN t : p # f => tree'[p] = t[p]
    BY <1>6, <1>8
  <1>10. CASE d = c /\ e = f
    BY <1>7, <1>9, <1>10
  <1>11. CASE ~(d = c /\ e = f)
    <2>1. e \in handles[d]
      BY <1>4, <1>11
    <2>2. e \in DOMAIN tree /\ d \in DOMAIN tree[e].value
      BY <2>1, FilterIsThere DEF Planted
    <2>3. e \in DOMAIN t /\ t[e].value = tree[e].value
      BY <1>6, <2>2
    <2>4. CASE e = f
      <3>1. d # c /\ d \in DOMAIN t[f].value
        BY <1>11, <2>2, <2>3, <2>4
      <3>2. tree'[e].value[d] = t[f].value[d]
        BY <1>7, <1>9, <2>4, <3>1
      <3> QED BY <2>1, <2>3, <2>4, <3>1, <3>2
    <2>5. CASE e # f
      BY <1>9, <2>1, <2>3, <2>5
    <2> QED BY <2>4, <2>5
  <1> QED BY <1>10, <1>11

\* session_state::unsubscribe(): the share names of the others.
LEMMA UnsubscribedShares ==
  ASSUME Planted, NEW c \in Clients, NEW f \in Filters, NEW share, Unsubscribed(c, share, f),
         NEW d \in Clients, NEW e \in handles'[d]
  PROVE  (d # c \/ e # f) /\ e \in handles[d] /\ tree'[e].value[d] = tree[e].value[d]
  <1>1. f \in handles[c] => Held(f)
    BY FilterIsThere DEF Planted, Held
  <1>2. handles \in [Clients -> SUBSET Filters]
    BY DEF Planted, Handles
  <1>3. CASE ~Held(f)
    <2>1. UNCHANGED <<handles, tree>>
      BY <1>3 DEF Unsubscribed
    <2> QED BY <1>1, <1>3, <2>1
  <1>4. CASE Held(f)
    <2>1. handles' = [handles EXCEPT ![c] = @ \ {f}] /\ tree' = Erased(tree, f, c)
      BY <1>4 DEF Unsubscribed
    <2>2. (d # c \/ e # f) /\ e \in handles[d]
      BY <1>2, <2>1
    <2>3. CASE f \in handles[c]
      <3>1. Remain(tree, tree')
        BY <2>1, <2>3, ErasedRemain DEF Planted
      <3>2. Handles(handles') /\ TreeOf(tree', handles')
        BY UnsubscribedPlants DEF Planted
      <3>3. e \in DOMAIN tree' /\ d \in DOMAIN tree'[e].value
        BY <3>2, FilterIsThere
      <3> QED BY <2>2, <3>1, <3>3 DEF Remain
    <2>4. CASE f \notin handles[c]
      <3>1. f \in DOMAIN tree
        BY <1>4, SubscribersAre DEF Planted
      <3>2. c \notin DOMAIN tree[f].value
        BY <2>4, <3>1 DEF Planted, TreeOf
      <3>3. tree' = tree
        BY <2>1, <3>2 DEF Erased
      <3> QED BY <2>2, <3>3
    <2> QED BY <2>3, <2>4
  <1> QED BY <1>3, <1>4

\* session_state::clean(): the share names of the others.
LEMMA CleanShares ==
  ASSUME Planted, NEW c \in Clients, Clean(c), NEW d \in Clients, NEW e \in handles'[d]
  PROVE  d # c /\ e \in handles[d] /\ tree'[e].value[d] = tree[e].value[d]
  <1>1. handles' = [handles EXCEPT ![c] = {}] /\ handles \in [Clients -> SUBSET Filters]
    BY DEF Clean, Planted, Handles
  <1>2. d # c /\ e \in handles[d]
    BY <1>1
  <1>3. tree' = FoldSet(LAMBDA f, t : Erased(t, f, c), tree, handles[c])
    BY DEF Clean
  <1>4. Remain(tree, FoldSet(LAMBDA f, t : Erased(t, f, c), tree, handles[c]))
    BY CleanIsTree DEF Planted
  <1>5. Remain(tree, tree')
    BY <1>3, <1>4
  <1>6. Handles(handles') /\ TreeOf(tree', handles')
    BY CleanPlants DEF Planted
  <1>7. e \in DOMAIN tree' /\ d \in DOMAIN tree'[e].value
    BY <1>6, FilterIsThere
  <1> QED BY <1>2, <1>5, <1>7 DEF Remain

\* What the search calls back.
LEMMA MatchedIs ==
  ASSUME Planted, NEW t \in Topics, NEW m \in Matched(t)
  PROVE  /\ m[1] \in Clients /\ m[3] \in handles[m[1]] /\ m[3] \in Filters /\ Match(m[3], t)
         /\ m[2] = tree[m[3]].value[m[1]]
  <1>1. SearchAgrees
    BY TreeAgrees DEF Planted
  <1>2. <<m[1], m[3]>> \in {h \in Clients \X Filters : h[2] \in handles[h[1]] /\ Match(h[2], t)}
    BY <1>1 DEF SearchAgrees
  <1>3. PICK p \in Reached(t) : m \in {<<c, tree[p].value[c], p>> : c \in DOMAIN tree[p].value}
    BY DEF Matched
  <1>4. PICK c \in DOMAIN tree[p].value : m = <<c, tree[p].value[c], p>>
    BY <1>3
  <1> QED BY <1>2, <1>4

\* What it must call back.
LEMMA IsMatched ==
  ASSUME Planted, NEW t \in Topics, NEW c \in Clients, NEW f \in handles[c], Match(f, t)
  PROVE  \E m \in Matched(t) : m[1] = c /\ m[2] = tree[f].value[c] /\ m[3] = f
  <1>1. SearchAgrees
    BY TreeAgrees DEF Planted
  <1>2. f \in Filters
    BY DEF Planted, Handles
  <1>3. <<c, f>> \in {<<m[1], m[3]>> : m \in Matched(t)}
    BY <1>1, <1>2 DEF SearchAgrees
  <1>4. PICK m \in Matched(t) : <<c, f>> = <<m[1], m[3]>>
    BY <1>3
  <1> QED BY <1>4, MatchedIs

\* The groups of the shared subscriptions that match.
Plain(t) == {m \in Matched(t) : m[2] = NoShare}
GroupsOf(t) == {<<m[2], m[3]>> : m \in Matched(t) \ Plain(t)}

\* They are finitely many, and each has a member in line.
LEMMA GroupsAre ==
  ASSUME Planted, Lined, NEW t \in Topics
  PROVE  /\ IsFiniteSet(GroupsOf(t))
         /\ \A gf \in GroupsOf(t) : gf \in Shares \X Filters /\ \E c : Has(targets, c, gf[1], gf[2])
  <1>1. ASSUME NEW gf \in GroupsOf(t)
        PROVE  \E c \in Clients, f \in Filters :
                 /\ f \in handles[c] /\ gf = <<tree[f].value[c], f>>
                 /\ gf \in Shares \X Filters /\ Has(targets, c, gf[1], gf[2])
    <2>1. PICK m \in Matched(t) \ Plain(t) : gf = <<m[2], m[3]>>
      BY DEF GroupsOf
    <2>2. m[2] # NoShare
      BY <2>1 DEF Plain
    <2>3. /\ m[1] \in Clients /\ m[3] \in handles[m[1]] /\ m[3] \in Filters
          /\ m[2] = tree[m[3]].value[m[1]]
      BY MatchedIs
    <2> DEFINE c == m[1]
               f == m[3]
    <2>4. c \in Clients /\ f \in handles[c] /\ f \in Filters /\ gf = <<tree[f].value[c], f>>
          /\ gf[1] = tree[f].value[c] /\ gf[2] = f /\ gf[1] # NoShare
      BY <2>1, <2>2, <2>3
    <2> HIDE DEF c, f
    <2>5. Has(targets, c, gf[1], gf[2])
      BY <2>4 DEF Lined
    <2>6. PICK i \in DOMAIN targets : targets[i].share = gf[1]
      BY <2>5 DEF Has, IsOf
    <2>7. gf[1] \in Shares
      <3>1. targets[i] \in Members
        BY <2>6 DEF Lined
      <3> QED BY <2>6, <3>1 DEF Members
    <2> QED BY <2>4, <2>5, <2>7
  <1> DEFINE P == Pairs(handles)
             Group(x) == <<tree[x[2]].value[x[1]], x[2]>>
             I == {Group(x) : x \in P}
  <1>2. IsFiniteSet(I)
    <2>1. IsFiniteSet(P)
      BY DEF Planted, Handles
    <2> DEFINE F == [x \in P |-> Group(x)]
    <2>2. F \in Surjection(P, I)
      BY DEF Surjection
    <2> HIDE DEF F, P, I
    <2> QED BY <2>1, <2>2, FS_Surjection
  <1>3. GroupsOf(t) \subseteq I
    <2> SUFFICES ASSUME NEW gf \in GroupsOf(t) PROVE gf \in I
      OBVIOUS
    <2>1. PICK c \in Clients, f \in Filters : f \in handles[c] /\ gf = <<tree[f].value[c], f>>
      BY <1>1
    <2>2. <<c, f>> \in P /\ gf = Group(<<c, f>>)
      BY <2>1 DEF Pairs
    <2> HIDE DEF P, Group
    <2> QED BY <2>2
  <1> HIDE DEF I
  <1>4. IsFiniteSet(GroupsOf(t))
    BY <1>2, <1>3, FS_Subset
  <1>5. \A gf \in GroupsOf(t) : gf \in Shares \X Filters /\ \E c : Has(targets, c, gf[1], gf[2])
    BY <1>1
  <1> QED BY <1>4, <1>5

\* An order of finitely many groups has each of them once.
LEMMA OrderIs ==
  ASSUME NEW S, IsFiniteSet(S), NEW order \in SetToSeqs(S)
  PROVE  /\ Cardinality(S) \in Nat /\ order \in [1..Cardinality(S) -> S]
         /\ \A i, j \in 1..Cardinality(S) : i # j => order[i] # order[j]
         /\ \A x \in S : \E i \in 1..Cardinality(S) : order[i] = x
  <1> DEFINE n == Cardinality(S)
             D == 1..n
  <1>1. n \in Nat
    BY FS_CardinalityType
  <1>2. order \in [D -> S] /\ \A i, j \in D : i # j => order[i] # order[j]
    BY DEF SetToSeqs
  <1>3. order \in Injection(D, S)
    BY <1>2 DEF Injection, IsInjective
  <1>4. Cardinality(D) = n
    <2>1. Cardinality(1..n) = IF 1 > n THEN 0 ELSE n - 1 + 1
      BY <1>1, FS_Interval
    <2> HIDE DEF n
    <2> QED BY <1>1, <2>1
  <1>5. order \in Surjection(D, S)
    <2> HIDE DEF D
    <2> QED BY <1>3, <1>4, FS_Injection
  <1> QED BY <1>1, <1>2, <1>5 DEF Surjection

\* do_publish(): one of each group is served.
LEMMA PublishServes ==
  ASSUME Planted, Lined, NEW c \in Clients, NEW t \in Topics, NEW retain, DoPublish(c, t, retain)
  PROVE  Lined' /\ Served'
  <1> DEFINE plain == Plain(t) \ {m \in Plain(t) : m[1] = c /\ <<c, m[3]>> \in NoLocal}
             S == GroupsOf(t)
             n == Cardinality(S)
  <1>1. PICK order \in SetToSeqs(S) :
          /\ targets' = ServedAll(plain, order).line
          /\ sent'.topic = t /\ sent'.turn = ServedAll(plain, order).to
    <2> DEFINE users == AuthSub(auth, t)
               delivered(turn) == {s \in turn : AuthSubUser(users, UserOf(s[1])) = "allow"}
               reason(d) == IF d # {} THEN "success" ELSE "no_matching_subscribers"
    <2>1. \E order \in SetToSeqs(S) :
            /\ targets' = ServedAll(plain, order).line
            /\ sent' = [topic |-> t, turn |-> ServedAll(plain, order).to,
                        to |-> delivered(ServedAll(plain, order).to),
                        reason |-> reason(delivered(ServedAll(plain, order).to))]
      BY DEF DoPublish, ServedAll, Plain, GroupsOf
    <2> HIDE DEF delivered, reason, S, plain
    <2> QED BY <2>1
  <1>2. UNCHANGED <<tree, handles>>
    BY DEF DoPublish
  <1>3. IsFiniteSet(S)
        /\ \A gf \in S : gf \in Shares \X Filters /\ \E d : Has(targets, d, gf[1], gf[2])
    BY GroupsAre
  <1>4. \A s \in plain : s[2] = NoShare
    BY DEF Plain
  <1>5. \A d \in Clients : \A f \in handles[d] :
          tree[f].value[d] # NoShare /\ Match(f, t) => <<tree[f].value[d], f>> \in S
    <2> SUFFICES ASSUME NEW d \in Clients, NEW f \in handles[d],
                        tree[f].value[d] # NoShare, Match(f, t)
                 PROVE  <<tree[f].value[d], f>> \in S
      OBVIOUS
    <2>1. PICK m \in Matched(t) : m[2] = tree[f].value[d] /\ m[3] = f
      BY IsMatched
    <2>2. m \notin Plain(t)
      BY <2>1 DEF Plain
    <2> QED BY <2>1, <2>2 DEF GroupsOf
  <1> HIDE DEF plain, S
  <1>6. /\ n \in Nat /\ order \in [1..n -> S]
        /\ \A i, j \in 1..n : i # j => order[i] # order[j]
        /\ \A x \in S : \E i \in 1..n : order[i] = x
    BY <1>3, OrderIs
  <1> HIDE DEF n
  <1>7. order \in [1..n -> Shares \X Filters]
        /\ \A i \in 1..n : \E d : Has(targets, d, order[i][1], order[i][2])
    BY <1>3, <1>6
  <1>8. /\ targets' \in Seq(Members) /\ Keeps(targets, targets')
        /\ \A i \in 1..n : One(sent'.turn, order[i][1], order[i][2], targets')
    BY <1>1, <1>4, <1>6, <1>7, Serves DEF Lined
  <1>9. Lined'
    <2>1. ASSUME NEW d \in Clients, NEW f \in handles'[d], tree'[f].value[d] # NoShare
          PROVE  Has(targets', d, tree'[f].value[d], f)
      <3>1. Has(targets, d, tree[f].value[d], f)
        BY <1>2, <2>1 DEF Lined
      <3> QED BY <1>2, <1>8, <3>1, HasKept
    <2> QED BY <1>8, <2>1 DEF Lined, Has
  <1>10. Served'
    <2>1. ASSUME NEW d \in Clients, NEW f \in handles'[d],
                 tree'[f].value[d] # NoShare, Match(f, t)
          PROVE  One(sent'.turn, tree'[f].value[d], f, targets')
      <3>1. <<tree[f].value[d], f>> \in S
        BY <1>2, <1>5, <2>1
      <3>2. PICK i \in 1..n : order[i] = <<tree[f].value[d], f>>
        BY <1>6, <3>1
      <3> QED BY <1>2, <1>8, <3>2
    <2> QED BY <1>1, <2>1 DEF Served, One, Has
  <1> QED BY <1>9, <1>10

\* The line after whatever changes it or the tree.
LEMMA LineStays ==
  ASSUME Lined, targets' \in Seq(Members),
         \A d \in Clients : \A e \in handles'[d] :
           \/ tree'[e].value[d] = NoShare
           \/ /\ e \in handles[d] /\ tree'[e].value[d] = tree[e].value[d]
              /\ Has(targets, d, tree[e].value[d], e) => Has(targets', d, tree[e].value[d], e)
           \/ Has(targets', d, tree'[e].value[d], e)
  PROVE  Lined'
  <1>1. ASSUME NEW d \in Clients, NEW e \in handles'[d], tree'[e].value[d] # NoShare
        PROVE  Has(targets', d, tree'[e].value[d], e)
    BY <1>1 DEF Lined
  <1> QED BY <1>1 DEF Lined, Has

\* session_state::subscribe()
LEMMA SubscribedLines ==
  ASSUME Planted, Lined, NEW c \in Clients, NEW f \in Filters, NEW share \in Shares \cup {NoShare},
         Subscribed(c, share, f)
  PROVE  Lined'
  <1>0. targets \in Seq(Members)
    BY DEF Lined
  <1>1. /\ targets' \in Seq(Members)
        /\ \A d, other, e : Has(targets, d, other, e) => Has(targets', d, other, e)
        /\ share # NoShare => Has(targets', c, share, f)
    <2>1. CASE share = NoShare
      BY <1>0, <2>1 DEF Subscribed
    <2>2. CASE share # NoShare
      <3>1. targets' = Joined(c, share, f) /\ share \in Shares
        BY <2>2 DEF Subscribed
      <3> QED BY <1>0, <3>1, JoinedIs
    <2> QED BY <2>1, <2>2
  <1>2. ASSUME NEW d \in Clients, NEW e \in handles'[d]
        PROVE  \/ d = c /\ e = f /\ tree'[e].value[d] = share
               \/ (d # c \/ e # f) /\ e \in handles[d] /\ tree'[e].value[d] = tree[e].value[d]
    BY SubscribedShares
  <1> QED BY <1>1, <1>2, LineStays

\* session_state::unsubscribe()
LEMMA UnsubscribedLines ==
  ASSUME Planted, Lined, NEW c \in Clients, NEW f \in Filters, NEW share, Unsubscribed(c, share, f)
  PROVE  Lined'
  <1>0. targets \in Seq(Members)
    BY DEF Lined
  <1>1. /\ targets' \in Seq(Members)
        /\ \A d, other, e : Has(targets, d, other, e) /\ (d # c \/ e # f)
                             => Has(targets', d, other, e)
    <2>1. CASE share = NoShare
      BY <1>0, <2>1 DEF Unsubscribed
    <2>2. CASE share # NoShare
      <3>1. targets' = Left(c, share, f)
        BY <2>2 DEF Unsubscribed
      <3> QED BY <1>0, <3>1, LeftIs
    <2> QED BY <2>1, <2>2
  <1>2. ASSUME NEW d \in Clients, NEW e \in handles'[d]
        PROVE  (d # c \/ e # f) /\ e \in handles[d] /\ tree'[e].value[d] = tree[e].value[d]
    BY UnsubscribedShares
  <1> QED BY <1>1, <1>2, LineStays

\* session_state::clean()
LEMMA CleanLines ==
  ASSUME Planted, Lined, NEW c \in Clients, Clean(c)
  PROVE  Lined'
  <1>1. targets \in Seq(Members) /\ targets' = LeftBehind(c)
    BY DEF Lined, Clean
  <1>2. /\ targets' \in Seq(Members)
        /\ \A d, other, e : Has(targets, d, other, e) /\ d # c => Has(targets', d, other, e)
    BY <1>1, BehindIs
  <1>3. ASSUME NEW d \in Clients, NEW e \in handles'[d]
        PROVE  d # c /\ e \in handles[d] /\ tree'[e].value[d] = tree[e].value[d]
    BY CleanShares
  <1> QED BY <1>2, <1>3, LineStays

\* Who is in line, and who was served: every step.
LEMMA LinedStays == ASSUME Planted, Lined, Served, [Next]_vars PROVE Lined' /\ Served'
  <1>1. ASSUME sent'.reason \in {"none", "granted", "not_authorized", "topic_filter_invalid"}
        PROVE  Served'
    BY <1>1 DEF Served
  <1>2. Nothing.reason = "none"
        /\ \A x, y : [Nothing EXCEPT !.topic = x, !.reason = y].reason = y
    BY DEF Nothing
  <1>3. ASSUME UNCHANGED <<tree, handles, targets>> PROVE Lined'
    BY <1>3 DEF Lined, Has
  <1>4. ASSUME NEW c \in Clients, NEW share \in Shares \cup {NoShare}, NEW f \in Filters,
               NEW handling, Subscribe(c, share, f, handling)
        PROVE  Lined' /\ Served'
    <2>1. Subscribed(c, share, f) \/ UNCHANGED <<targets, tree, handles>>
      BY <1>4 DEF Subscribe
    <2>2. sent'.reason \in {"granted", "not_authorized", "topic_filter_invalid"}
      <3> DEFINE x == {<<c, share, t>> : t \in Handed(c, f, handling)}
      <3>1. \/ sent' = [Nothing EXCEPT !.to = x, !.reason = "granted"]
            \/ sent' = [Nothing EXCEPT !.reason = IF f = Invalid THEN "topic_filter_invalid"
                                                ELSE "not_authorized"]
        BY <1>4 DEF Subscribe
      <3> HIDE DEF x
      <3>2. CASE sent' = [Nothing EXCEPT !.to = x, !.reason = "granted"]
        BY <3>2 DEF Nothing
      <3>3. CASE sent' = [Nothing EXCEPT !.reason = IF f = Invalid THEN "topic_filter_invalid"
                                                  ELSE "not_authorized"]
        BY <3>3 DEF Nothing
      <3> QED BY <3>1, <3>2, <3>3
    <2> QED BY <1>1, <1>3, <2>1, <2>2, SubscribedLines
  <1>5. ASSUME NEW c \in Clients, NEW share \in Shares \cup {NoShare}, NEW f \in Filters,
               Unsubscribe(c, share, f)
        PROVE  Lined' /\ Served'
    BY <1>1, <1>2, <1>5, UnsubscribedLines DEF Unsubscribe
  <1>6. ASSUME NEW c \in Clients, NEW t \in Topics, NEW retain, Publish(c, t, retain)
        PROVE  Lined' /\ Served'
    <2>1. CASE DoPublish(c, t, retain)
      BY <2>1, PublishServes
    <2>2. CASE ~DoPublish(c, t, retain)
      <3>1. sent' = [Nothing EXCEPT !.topic = t, !.reason = "not_authorized"] /\ UNCHANGED topicVars
        BY <1>6, <2>2 DEF Publish
      <3> QED BY <1>1, <1>2, <1>3, <3>1 DEF topicVars
    <2> QED BY <2>1, <2>2
  <1>7. ASSUME NEW c \in Clients, NEW requested, Renew(c, requested) PROVE Lined' /\ Served'
    BY <1>1, <1>2, <1>7, CleanLines DEF Renew, Clean
  <1>8. ASSUME NEW c \in Clients, End(c) PROVE Lined' /\ Served'
    BY <1>1, <1>2, <1>8, CleanLines DEF End, Clean
  <1>9. ASSUME NEW c \in Clients, Request(c) PROVE Lined' /\ Served'
    BY <1>1, <1>2, <1>3, <1>9 DEF Request, topicVars
  <1>10. ASSUME NEW t \in Topics, RetainedExpires(t) PROVE Lined' /\ Served'
    BY <1>1, <1>2, <1>3, <1>10 DEF RetainedExpires
  <1>11. ASSUME UNCHANGED vars PROVE Lined' /\ Served'
    BY <1>3, <1>11 DEF vars, topicVars, Served, One, Has
  <1> QED BY <1>4, <1>5, <1>6, <1>7, <1>8, <1>9, <1>10, <1>11 DEF Next

\* The tree of retained messages remains that of their topics: every step.
LEMMA RetainingStays == ASSUME Asked, Retaining, [Next]_vars PROVE Retaining'
  <1>0. ASSUME UNCHANGED <<kept, born>> PROVE Retaining'
    BY <1>0 DEF Retaining, Stored
  <1>1. ASSUME NEW T, KeptOf(kept', born', T) PROVE Retaining'
    <2>1. {t \in DOMAIN kept' : kept'[t].value} = T
      BY <1>1, StoredAre
    <2>2. Stored' = {t \in DOMAIN kept' : kept'[t].value}
      BY DEF Stored
    <2> QED BY <1>1, <2>1, <2>2 DEF Retaining
  <1>2. ASSUME NEW t \in Topics, Store(t) PROVE Retaining'
    BY <1>1, <1>2, StoreKeeps DEF Retaining
  <1>3. ASSUME NEW t, t = <<>> \/ IsFilter(t), Drop(t) PROVE Retaining'
    BY <1>1, <1>3, DropKeeps DEF Retaining
  <1>4. ASSUME NEW c \in Clients, Clean(c) PROVE Retaining'
    <2>1. Drop(cleaner[c].topic)
      BY <1>4 DEF Clean
    <2>2. cleaner[c].topic = <<>> \/ IsFilter(cleaner[c].topic)
      BY DEF Asked
    <2> QED BY <1>3, <2>1, <2>2
  <1>5. ASSUME NEW c \in Clients, NEW share, NEW f, NEW handling, Subscribe(c, share, f, handling)
        PROVE  Retaining'
    BY <1>0, <1>5 DEF Subscribe
  <1>6. ASSUME NEW c \in Clients, NEW share, NEW f, Unsubscribe(c, share, f) PROVE Retaining'
    BY <1>0, <1>6 DEF Unsubscribe
  <1>7. ASSUME NEW c \in Clients, NEW t \in Topics, NEW retain \in {"no", "message", "empty"},
               Publish(c, t, retain)
        PROVE  Retaining'
    <2>1. UNCHANGED <<kept, born>> \/ Store(t) \/ Drop(t)
      <3>1. CASE retain = "message"
        BY <1>7, <3>1 DEF Publish, DoPublish, topicVars
      <3>2. CASE retain = "empty"
        BY <1>7, <3>2 DEF Publish, DoPublish, topicVars
      <3>3. CASE retain = "no"
        BY <1>7, <3>3 DEF Publish, DoPublish, topicVars
      <3> QED BY <3>1, <3>2, <3>3
    <2>2. IsFilter(t)
      BY NameIsFilter
    <2> QED BY <1>0, <1>2, <1>3, <2>1, <2>2
  <1>8. ASSUME NEW c \in Clients, NEW requested, Renew(c, requested) PROVE Retaining'
    BY <1>4, <1>8 DEF Renew
  <1>9. ASSUME NEW c \in Clients, End(c) PROVE Retaining'
    BY <1>4, <1>9 DEF End
  <1>10. ASSUME NEW c \in Clients, Request(c) PROVE Retaining'
    BY <1>0, <1>10 DEF Request, topicVars
  <1>11. ASSUME NEW t \in Topics, RetainedExpires(t) PROVE Retaining'
    BY <1>3, <1>11, NameIsFilter DEF RetainedExpires
  <1>12. ASSUME UNCHANGED vars PROVE Retaining'
    BY <1>0, <1>12 DEF vars, topicVars
  <1> QED BY <1>5, <1>6, <1>7, <1>8, <1>9, <1>10, <1>11, <1>12 DEF Next

\* For all clients, topic filters, names and rules: the tree is the one of the handles,
\* the maps of the rules hold what rules of the list say, who has a handle for a topic
\* filter with a share name is in line for it, a publish served one of each group, and
\* the tree of retained messages is that of the topics that have one.
THEOREM Invariance == Spec => []Inv
  <1>1. Init => Inv
    BY AtFirst
  <1>2. Inv /\ [Next]_vars => Inv'
    BY PlantedStays, GrantedStays, LinedStays, RetainingStays DEF Inv
  <1> QED BY <1>1, <1>2, PTL DEF Spec

\* The search of a publish (find_match_impl) finds the subscriptions the sessions hold
\* handles for whose topic filter matches, and no other, for all topic filters and
\* names and any number of clients, however they subscribed, unsubscribed, ended and
\* started anew.
THEOREM SearchIsRight == Spec => []SearchAgrees
  <1>1. Inv => SearchAgrees
    BY TreeAgrees DEF Inv, Planted
  <1> QED BY <1>1, Invariance, PTL

\* A publish reaches each group of a matching shared subscription through one of its
\* members, who holds the topic filter, for any number of clients and share names and any
\* order in which they subscribe, are served, unsubscribe and end (do_publish, get_target).
THEOREM GroupsAreServed == Spec => []OneOfEachGroup
  <1>1. Inv => OneOfEachGroup
    <2> SUFFICES ASSUME Inv, sent.reason \in {"success", "no_matching_subscribers"},
                        NEW m \in Matched(sent.topic), m[2] # NoShare
                 PROVE  \E c \in Clients :
                          /\ {s \in sent.turn : s[2] = m[2] /\ s[3] = m[3]} = {<<c, m[2], m[3]>>}
                          /\ \E i \in DOMAIN targets :
                               IsOf(targets[i], c, m[2]) /\ m[3] \in targets[i].filters
      BY DEF OneOfEachGroup
    <2>1. sent.topic \in Topics
      BY DEF Inv, Served
    <2>2. /\ m[1] \in Clients /\ m[3] \in handles[m[1]] /\ Match(m[3], sent.topic)
          /\ m[2] = tree[m[3]].value[m[1]]
      BY <2>1, MatchedIs DEF Inv
    <2>3. One(sent.turn, m[2], m[3], targets)
      BY <2>2 DEF Inv, Served
    <2> QED BY <2>3 DEF One, Has
  <1> QED BY <1>1, Invariance, PTL

\* A new subscription is given retained messages that match only, and all of them unless
\* its filter has "+" on the first level or before "#", for all topics and topic filters,
\* whatever was retained, replaced, removed, expired or taken away with a session
\* (retained_topic_map::find_match).
THEOREM RetainedIsFound == Spec => []RetainedFound
  <1>1. Inv => RetainedFound
    BY LookupFinds DEF Inv, Retaining, RetainedFound
  <1> QED BY <1>1, Invariance, PTL

\* For every file of rules and all sessions with response topics that come, go, start
\* anew and resume, a decision rests on a rule that stands in the list (add_auth,
\* remove_auth), though the numbers of the rules are used again.
THEOREM RulesBackGrants == Spec => []GrantsAreBacked
  <1>1. ASSUME Backed(auth) PROVE GrantsAreBacked
    <2>1. \A i \in DOMAIN auth.rules : auth.rules[i] \in ToSet(auth.rules)
      BY DEF ToSet
    <2>2. ASSUME NEW k \in DOMAIN auth.sub
          PROVE  \E r \in ToSet(auth.rules) :
                   /\ r.filter = k[1] /\ k[2] \in r.sub
                   /\ auth.sub[k] = [type |-> r.subType, nr |-> r.nr]
      BY <1>1, <2>1 DEF Backed, Backing
    <2>3. ASSUME NEW k \in DOMAIN auth.pub
          PROVE  \E r \in ToSet(auth.rules) :
                   /\ r.filter = k[1] /\ k[2] \in r.pub
                   /\ auth.pub[k] = [type |-> r.pubType, nr |-> r.nr]
      BY <1>1, <2>1 DEF Backed, Backing
    <2> QED BY <2>2, <2>3 DEF GrantsAreBacked
  <1>2. Inv => GrantsAreBacked
    BY <1>1 DEF Inv, Granted
  <1> QED BY <1>2, Invariance, PTL

\* What a rule allows of a subscription stands for just the topic names that both match
\* and a rule that denies one matches all its topic names, for all rules and topic
\* filters (is_subscribe_allowed, is_subscribe_denied).
THEOREM FiltersMeetAlways == Spec => []FiltersMeet
  <1>1. ASSUME Inv PROVE FiltersMeet
    <2>1. ASSUME NEW r \in ToSet(auth.rules), NEW c \in Clients, NEW f \in handles[c], NEW t \in Topics
          PROVE  LET both == IsSubscribeAllowed(r.filter, f)
                 IN  /\ Match(r.filter, t) /\ Match(f, t) => both # <<>> /\ Match(both, t)
                     /\ t[1] \notin System =>
                         /\ both # <<>> /\ Match(both, t) => Match(r.filter, t) /\ Match(f, t)
                         /\ IsSubscribeDenied(r.filter, f) /\ Match(f, t) => Match(r.filter, t)
      <3>1. IsFilter(r.filter)
        BY <1>1 DEF Inv, Granted, Backed, ToSet
      <3>2. f \in Filters
        BY <1>1 DEF Inv, Planted, Handles
      <3>3. IsFilter(f)
        BY <3>2, TopicsAssumption
      <3> QED BY <3>1, <3>3, AllowedIsBoth, DeniedIsMatched
    <2> QED BY <2>1 DEF FiltersMeet
  <1> QED BY <1>1, Invariance, PTL
================================================================================
