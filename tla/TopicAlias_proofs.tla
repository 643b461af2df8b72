-------------------------- MODULE TopicAlias_proofs ---------------------------
(***************************************************************************)
(* The topic aliases, for every number of messages, topics and aliases, in *)
(* each of the three modes: while no alias was applied to a packet that    *)
(* did not go out at once, the two tables of a connection agree on what is *)
(* underway, and each packet is understood as it was published.            *)
(*                                                                         *)
(* What the tables say is stated without the fold that defines the one of  *)
(* the receiver: the last of some packets that gives an alias a topic      *)
(* gives it this one, or none does and it is in the table (Says).  The     *)
(* folds over the queue and over the store are recursive functions on the  *)
(* subsets of their places; what each of their values is, is shown by      *)
(* induction on those subsets, with the set of those at which it is so.    *)
(***************************************************************************)
EXTENDS TopicAlias, SequenceTheorems, FiniteSetTheorems, WellFoundedInduction, TLAPS

\* The ranges of packets and of what the sender keeps.
Packets == [m : Nat, topic : Topics \cup {NoTopic}, alias : 0..AliasMax]
Pairs == [alias : Aliases, topic : Topics]
Senders ==
  [max : Aliases, entries : Seq(Pairs), used : SUBSET Aliases, count : 0..(Wrap - 1),
   queue : Seq(Packets), wire : Seq(Packets), stored : Seq(Packets), spoiled : BOOLEAN]
Tables == [Aliases -> Topics \cup {NoTopic}]

\* Each alias is in the table once; there is an entry when an alias has been given out.
Distinct(es) == \A i, j \in 1..Len(es) : es[i].alias = es[j].alias => i = j
Mapped(s) ==
  /\ Distinct(s.entries) /\ \A i \in 1..Len(s.entries) : s.entries[i].alias \in s.used
  /\ s.used \subseteq 1..s.max /\ (s.used # {} => Len(s.entries) # 0)

\* A packet has the topic of its message or none, and a topic or an alias.
Meant(ms, p) ==
  /\ p.m \in 1..Len(ms) /\ p.topic \in {ms[p.m].topic, NoTopic}
  /\ p.alias = 0 => p.topic # NoTopic
AllMeant(ms, s) ==
  /\ \A i \in 1..Len(s.queue) : Meant(ms, s.queue[i])
  /\ \A i \in 1..Len(s.wire) : Meant(ms, s.wire[i])
  /\ \A i \in 1..Len(s.stored) : Meant(ms, s.stored[i]) /\ s.stored[i].alias = 0

\* Of the packets of w at the places in d, the last that gives the alias a topic gives it
\* t; when none does, t is its topic in the table.
Gives(w, i, a) == w[i].alias = a /\ w[i].topic # NoTopic
Says(table, w, d, a, t) ==
  \/ \E i \in d : Gives(w, i, a) /\ w[i].topic = t /\ \A j \in d : Gives(w, j, a) => j <= i
  \/ (\A i \in d : ~Gives(w, i, a)) /\ table[a] = t

\* When all that is underway has arrived the receiver knows the entries; each packet
\* underway is about its message's topic; what is kept back has no alias.
Agree(ms, table, es, w) ==
  /\ \A i \in 1..Len(es) : Says(table, w, 1..Len(w), es[i].alias, es[i].topic)
  /\ \A i \in 1..Len(w) :
       w[i].topic = NoTopic => Says(table, w, 1..(i - 1), w[i].alias, ms[w[i].m].topic)
Unaliased(s) == \A i \in 1..Len(s.queue) : s.queue[i].alias = 0

Sound(ms, s) == s \in Senders /\ Mapped(s) /\ AllMeant(ms, s)
Good(ms, table, s) ==
  /\ Sound(ms, s)
  /\ s.spoiled \/ (Agree(ms, table, s.entries, s.wire) /\ Unaliased(s))

\* The same, with a packet that is about to be written or kept back.
GoodWith(ms, table, s, p) ==
  /\ Sound(ms, s) /\ p \in Packets /\ Meant(ms, p)
  /\ \/ s.spoiled
     \/ /\ Unaliased(s) /\ Agree(ms, table, s.entries, Append(s.wire, p))
        /\ p.alias = 0 => Agree(ms, table, s.entries, s.wire)
-------------------------------------------------------------------------------
\* What the sender keeps is what its components are.
LEMMA SenderIs ==
  ASSUME NEW s \in Senders
  PROVE  /\ s.max \in Aliases /\ s.entries \in Seq(Pairs) /\ s.used \in SUBSET Aliases
         /\ s.count \in 0..(Wrap - 1) /\ s.queue \in Seq(Packets) /\ s.wire \in Seq(Packets)
         /\ s.stored \in Seq(Packets) /\ s.spoiled \in BOOLEAN
         /\ Len(s.entries) \in Nat /\ Len(s.queue) \in Nat /\ Len(s.wire) \in Nat
         /\ Len(s.stored) \in Nat
  BY DEF Senders

\* The natural numbers are well-ordered.
LEMMA NaturalsWellFounded == IsWellFoundedOn({p \in Nat \X Nat : p[1] < p[2]}, Nat)
  BY NatLessThanWellFounded DEF OpToRel

\* A set of natural numbers that is not empty has a least member.
LEMMA LeastOf ==
  ASSUME NEW S \in SUBSET Nat, S # {}
  PROVE  \E i \in S : \A j \in S : i <= j
  <1> DEFINE R == {p \in Nat \X Nat : p[1] < p[2]}
  <1>1. IsWellFoundedOn(R, Nat)
    BY NaturalsWellFounded
  <1> HIDE DEF R
  <1>2. PICK i \in S : \A j \in S : ~(<<j, i>> \in R)
    BY <1>1, WFMin
  <1>3. ASSUME NEW j \in S PROVE i <= j
    <2>1. \A a, b \in Nat : a < b => <<a, b>> \in R
      BY DEF R
    <2>2. ~(j < i)
      BY <1>2, <2>1
    <2> QED BY <2>2
  <1> QED BY <1>3

\* What is left of a sequence without its element at i.
LEMMA RemovedIs ==
  ASSUME NEW S, NEW s \in Seq(S), NEW i \in 1..Len(s)
  PROVE  /\ RemoveAt(s, i) \in Seq(S) /\ Len(RemoveAt(s, i)) = Len(s) - 1
         /\ \A j \in 1..(Len(s) - 1) : RemoveAt(s, i)[j] = IF j < i THEN s[j] ELSE s[j + 1]
  <1> DEFINE a == SubSeq(s, 1, i - 1)
             b == SubSeq(s, i + 1, Len(s))
  <1>1. i \in 1..Len(s) /\ Len(s) \in Nat
    OBVIOUS
  <1>2. a \in Seq(S) /\ Len(a) = i - 1 /\ \A k \in 1..(i - 1) : a[k] = s[k]
    BY <1>1
  <1>3. b \in Seq(S) /\ Len(b) = Len(s) - i /\ \A k \in 1..(Len(s) - i) : b[k] = s[i + k]
    BY <1>1
  <1>4. RemoveAt(s, i) = a \o b
    BY DEF RemoveAt
  <1> HIDE DEF a, b
  <1>5. a \o b \in Seq(S) /\ Len(a \o b) = Len(s) - 1
    <2>1. a \o b \in Seq(S) /\ Len(a \o b) = Len(a) + Len(b)
      BY <1>2, <1>3, ConcatProperties
    <2> QED BY <1>1, <1>2, <1>3, <2>1
  <1>6. ASSUME NEW j \in 1..(Len(s) - 1) PROVE (a \o b)[j] = IF j < i THEN s[j] ELSE s[j + 1]
    <2>1. CASE j < i
      BY <1>1, <1>2, <1>3, <1>5, <2>1
    <2>2. CASE ~(j < i)
      <3>1. (a \o b)[j] = b[j - i + 1]
        BY <1>1, <1>2, <1>3, <1>5, <2>2
      <3>2. j - i + 1 \in 1..(Len(s) - i) /\ i + (j - i + 1) = j + 1
        BY <1>1, <2>2
      <3> QED BY <1>3, <3>1, <3>2, <2>2
    <2> QED BY <2>1, <2>2
  <1> QED BY <1>4, <1>5, <1>6

\* The sequence of a set with one element.
LEMMA OneElement == ASSUME NEW x PROVE SetToSeq({x}) = <<x>>
  <1>1. Cardinality({x}) = 1
    BY FS_Singleton
  <1>2. SetToSeq({x}) = CHOOSE f \in [1..1 -> {x}] : IsInjective(f)
    BY <1>1 DEF SetToSeq
  <1>3. [i \in 1..1 |-> x] \in [1..1 -> {x}] /\ IsInjective([i \in 1..1 |-> x])
    BY DEF IsInjective
  <1>4. SetToSeq({x}) \in [1..1 -> {x}]
    BY <1>2, <1>3
  <1>5. \A f \in [1..1 -> {x}] : f = <<x>>
    <2> SUFFICES ASSUME NEW f \in [1..1 -> {x}] PROVE f = <<x>>
      OBVIOUS
    <2>1. f = [i \in 1..1 |-> x]
      OBVIOUS
    <2>2. <<x>> = [i \in 1..1 |-> x]
      OBVIOUS
    <2> QED BY <2>1, <2>2
  <1> QED BY <1>4, <1>5
-------------------------------------------------------------------------------
\* multi_index erase: the entry of an alias goes, the others stay.
LEMMA WithoutIs ==
  ASSUME NEW es \in Seq(Pairs), Distinct(es), NEW a
  PROVE  /\ Without(es, a) \in Seq(Pairs) /\ Distinct(Without(es, a))
         /\ \A i \in 1..Len(Without(es, a)) :
              Without(es, a)[i].alias # a /\ \E j \in 1..Len(es) : Without(es, a)[i] = es[j]
         /\ \A j \in 1..Len(es) : es[j].alias # a =>
              \E i \in 1..Len(Without(es, a)) : Without(es, a)[i] = es[j]
  <1>0. Len(es) \in Nat
    OBVIOUS
  <1>1. CASE \E i \in 1..Len(es) : es[i].alias = a
    <2> DEFINE I == {i \in 1..Len(es) : es[i].alias = a}
    <2>1. I # {} /\ I \in SUBSET Nat
      BY <1>1, <1>0
    <2>2. Min(I) \in I
      BY <2>1, LeastOf DEF Min
    <2>3. PICK k \in 1..Len(es) : es[k].alias = a /\ Without(es, a) = RemoveAt(es, k)
      BY <1>1, <2>1, <2>2 DEF Without, RemoveFirstMatch, SelectInSeq
    <2> DEFINE r == RemoveAt(es, k)
    <2>4. r \in Seq(Pairs) /\ Len(r) = Len(es) - 1
          /\ \A j \in 1..(Len(es) - 1) : r[j] = IF j < k THEN es[j] ELSE es[j + 1]
      BY RemovedIs
    <2> HIDE DEF r
    <2>5. Distinct(r)
      <3> SUFFICES ASSUME NEW i \in 1..Len(r), NEW j \in 1..Len(r), r[i].alias = r[j].alias
                   PROVE  i = j
        BY DEF Distinct
      <3>1. PICK u \in 1..Len(es) : r[i] = es[u] /\ u = IF i < k THEN i ELSE i + 1
        BY <1>0, <2>4
      <3>2. PICK v \in 1..Len(es) : r[j] = es[v] /\ v = IF j < k THEN j ELSE j + 1
        BY <1>0, <2>4
      <3>3. u = v
        BY <3>1, <3>2 DEF Distinct
      <3> QED BY <3>1, <3>2, <3>3, <1>0, <2>4
    <2>6. ASSUME NEW i \in 1..Len(r)
          PROVE  r[i].alias # a /\ \E j \in 1..Len(es) : r[i] = es[j]
      <3>1. PICK u \in 1..Len(es) : r[i] = es[u] /\ u = IF i < k THEN i ELSE i + 1
        BY <1>0, <2>4
      <3>2. u # k
        BY <3>1, <1>0
      <3> QED BY <2>3, <3>1, <3>2 DEF Distinct
    <2>7. ASSUME NEW j \in 1..Len(es), es[j].alias # a PROVE \E i \in 1..Len(r) : r[i] = es[j]
      <3>1. j # k
        BY <2>3, <2>7
      <3>2. CASE j < k
        BY <1>0, <2>4, <3>2
      <3>3. CASE j > k
        <4>1. j - 1 \in 1..Len(r) /\ r[j - 1] = es[j]
          BY <1>0, <2>4, <3>3
        <4> QED BY <4>1
      <3> QED BY <1>0, <3>1, <3>2, <3>3
    <2> QED BY <2>3, <2>4, <2>5, <2>6, <2>7 DEF r
  <1>2. CASE ~\E i \in 1..Len(es) : es[i].alias = a
    <2>1. Without(es, a) = es
      BY <1>2 DEF Without, RemoveFirstMatch
    <2> QED BY <1>2, <2>1
  <1> QED BY <1>1, <1>2

\* What is last in the table when an entry is added for an alias that has none.
LEMMA AppendedIs ==
  ASSUME NEW es \in Seq(Pairs), Distinct(es), NEW e \in Pairs,
         \A i \in 1..Len(es) : es[i].alias # e.alias
  PROVE  /\ Append(es, e) \in Seq(Pairs) /\ Distinct(Append(es, e))
         /\ Len(Append(es, e)) # 0
         /\ \A i \in 1..Len(Append(es, e)) :
              Append(es, e)[i] = e \/ \E j \in 1..Len(es) : Append(es, e)[i] = es[j]
  <1> DEFINE r == Append(es, e)
  <1>1. r \in Seq(Pairs) /\ Len(r) = Len(es) + 1 /\ r[Len(es) + 1] = e /\ Len(es) \in Nat
        /\ \A i \in 1..Len(es) : r[i] = es[i]
    OBVIOUS
  <1> HIDE DEF r
  <1>2. Distinct(r)
    <2> SUFFICES ASSUME NEW i \in 1..Len(r), NEW j \in 1..Len(r), r[i].alias = r[j].alias
                 PROVE  i = j
      BY DEF Distinct
    <2>1. CASE i = Len(es) + 1
      <3>1. ~(j \in 1..Len(es))
        BY <1>1, <2>1
      <3> QED BY <1>1, <2>1, <3>1
    <2>2. CASE i \in 1..Len(es)
      <3>1. j # Len(es) + 1
        BY <1>1, <2>2
      <3>2. j \in 1..Len(es)
        BY <1>1, <3>1
      <3> QED BY <1>1, <2>2, <3>2 DEF Distinct
    <2> QED BY <1>1, <2>1, <2>2
  <1>3. ASSUME NEW i \in 1..Len(r) PROVE r[i] = e \/ \E j \in 1..Len(es) : r[i] = es[j]
    <2>1. i = Len(es) + 1 \/ i \in 1..Len(es)
      BY <1>1
    <2> QED BY <1>1, <2>1
  <1> QED BY <1>1, <1>2, <1>3 DEF r
-------------------------------------------------------------------------------
\* A packet more underway, and what is told before it.
LEMMA SaysMore ==
  ASSUME NEW table, NEW w \in Seq(Packets), NEW p \in Packets, NEW a, NEW t
  PROVE  /\ ~Gives(<<p>>, 1, a) /\ Says(table, w, 1..Len(w), a, t) =>
              Says(table, Append(w, p), 1..Len(Append(w, p)), a, t)
         /\ Gives(<<p>>, 1, a) =>
              Says(table, Append(w, p), 1..Len(Append(w, p)), a, p.topic)
         /\ \A i \in 1..Len(Append(w, p)) : Says(table, w, 1..(i - 1), a, t) =>
              Says(table, Append(w, p), 1..(i - 1), a, t)
  <1> DEFINE v == Append(w, p)
  <1>1. Len(v) = Len(w) + 1 /\ Len(w) \in Nat /\ v[Len(w) + 1] = p
        /\ \A i \in 1..Len(w) : v[i] = w[i]
    OBVIOUS
  <1>2. <<p>>[1] = p
    OBVIOUS
  <1> HIDE DEF v
  <1>3. Gives(v, Len(w) + 1, a) <=> Gives(<<p>>, 1, a)
    BY <1>1, <1>2 DEF Gives
  <1>4. \A i \in 1..Len(w) : Gives(v, i, a) <=> Gives(w, i, a)
    BY <1>1 DEF Gives
  <1>5. \A i \in 1..Len(v) : i = Len(w) + 1 \/ i \in 1..Len(w)
    BY <1>1
  <1>6. \A i \in 1..Len(w) : i \in 1..Len(v) /\ i <= Len(w) + 1
    BY <1>1
  <1>7. ASSUME ~Gives(<<p>>, 1, a), Says(table, w, 1..Len(w), a, t)
        PROVE  Says(table, v, 1..Len(v), a, t)
    BY <1>1, <1>3, <1>4, <1>5, <1>6, <1>7 DEF Says
  <1>8. ASSUME Gives(<<p>>, 1, a) PROVE Says(table, v, 1..Len(v), a, p.topic)
    <2>1. Len(w) + 1 \in 1..Len(v) /\ Gives(v, Len(w) + 1, a) /\ v[Len(w) + 1].topic = p.topic
      BY <1>1, <1>3, <1>8
    <2>2. \A j \in 1..Len(v) : Gives(v, j, a) => j <= Len(w) + 1
      BY <1>1
    <2> QED BY <2>1, <2>2 DEF Says
  <1>9. ASSUME NEW i \in 1..Len(v), Says(table, w, 1..(i - 1), a, t)
        PROVE  Says(table, v, 1..(i - 1), a, t)
    <2>1. \A j \in 1..(i - 1) : j \in 1..Len(w)
      BY <1>1
    <2> QED BY <1>1, <1>4, <1>9, <2>1 DEF Says
  <1> QED BY <1>7, <1>8, <1>9 DEF v

\* What the tables say goes on to be right when a packet is written, if the entries are
\* the old ones but for one that the packet tells of.
LEMMA AgreeMore ==
  ASSUME NEW ms, NEW table, NEW es \in Seq(Pairs), NEW w \in Seq(Packets), NEW fs \in Seq(Pairs),
         NEW p \in Packets, Agree(ms, table, es, w),
         \A i \in 1..Len(fs) :
           \/ Gives(<<p>>, 1, fs[i].alias) /\ fs[i].topic = p.topic
           \/ ~Gives(<<p>>, 1, fs[i].alias) /\ \E j \in 1..Len(es) : fs[i] = es[j],
         p.topic = NoTopic => Says(table, w, 1..Len(w), p.alias, ms[p.m].topic)
  PROVE  Agree(ms, table, fs, Append(w, p))
  <1> DEFINE v == Append(w, p)
  <1>1. Len(v) = Len(w) + 1 /\ Len(w) \in Nat /\ v[Len(w) + 1] = p
        /\ \A i \in 1..Len(w) : v[i] = w[i]
    OBVIOUS
  <1>2. ASSUME NEW i \in 1..Len(fs) PROVE Says(table, v, 1..Len(v), fs[i].alias, fs[i].topic)
    <2>1. CASE Gives(<<p>>, 1, fs[i].alias) /\ fs[i].topic = p.topic
      BY <2>1, SaysMore
    <2>2. CASE ~Gives(<<p>>, 1, fs[i].alias) /\ \E j \in 1..Len(es) : fs[i] = es[j]
      <3>1. Says(table, w, 1..Len(w), fs[i].alias, fs[i].topic)
        BY <2>2 DEF Agree
      <3> QED BY <2>2, <3>1, SaysMore
    <2> QED BY <2>1, <2>2
  <1>3. ASSUME NEW i \in 1..Len(v), v[i].topic = NoTopic
        PROVE  Says(table, v, 1..(i - 1), v[i].alias, ms[v[i].m].topic)
    <2>1. Says(table, w, 1..(i - 1), v[i].alias, ms[v[i].m].topic)
      <3>1. CASE i = Len(w) + 1
        <4>1. v[i] = p /\ i - 1 = Len(w)
          BY <1>1, <3>1
        <4> HIDE DEF v
        <4> QED BY <1>3, <4>1
      <3>2. CASE i \in 1..Len(w)
        <4>1. v[i] = w[i]
          BY <1>1, <3>2
        <4> HIDE DEF v
        <4> QED BY <1>3, <3>2, <4>1 DEF Agree
      <3> QED BY <1>1, <3>1, <3>2
    <2> QED BY <2>1, SaysMore
  <1> HIDE DEF v
  <1>4. Agree(ms, table, fs, v)
    BY <1>2, <1>3 DEF Agree
  <1> QED BY <1>4 DEF v
-------------------------------------------------------------------------------
\* find(alias): the same entries in another order.
LEMMA TouchIs ==
  ASSUME NEW s \in Senders, Mapped(s), NEW k \in 1..Len(s.entries)
  PROVE  LET r == Touch(s, s.entries[k].alias)
         IN  /\ r \in Senders /\ Mapped(r)
             /\ r.max = s.max /\ r.used = s.used /\ r.count = s.count /\ r.queue = s.queue
             /\ r.wire = s.wire /\ r.stored = s.stored /\ r.spoiled = s.spoiled
             /\ \A i \in 1..Len(r.entries) : \E j \in 1..Len(s.entries) :
                  r.entries[i] = s.entries[j]
             /\ \A j \in 1..Len(s.entries) : \E i \in 1..Len(r.entries) :
                  r.entries[i] = s.entries[j]
  <1> DEFINE es == s.entries
             a == es[k].alias
             fs == Without(es, a)
             gs == Append(fs, es[k])
             r == Touch(s, a)
  <1>1. es \in Seq(Pairs) /\ Distinct(es) /\ es[k] \in Pairs /\ Len(es) \in Nat
    BY SenderIs DEF Mapped
  <1>2. Entry(s, a) = {es[k]}
    <2>1. es[k] \in Elements(es)
      BY <1>1 DEF Elements
    <2>2. \A e \in Elements(es) : e.alias = a => e = es[k]
      BY <1>1 DEF Elements, Distinct
    <2> QED BY <2>1, <2>2 DEF Entry
  <1>3. /\ fs \in Seq(Pairs) /\ Distinct(fs)
        /\ \A i \in 1..Len(fs) : fs[i].alias # a /\ \E j \in 1..Len(es) : fs[i] = es[j]
        /\ \A j \in 1..Len(es) : es[j].alias # a => \E i \in 1..Len(fs) : fs[i] = es[j]
    <2> HIDE DEF es
    <2>1. \A b : fs = Without(es, a)
      OBVIOUS
    <2> QED BY <1>1, WithoutIs
  <1>4. r = [s EXCEPT !.entries = fs \o <<es[k]>>]
    BY <1>2, OneElement DEF Touch
  <1> HIDE DEF fs
  <1>5. fs \o <<es[k]>> = gs
    BY <1>1, <1>3
  <1>6. /\ gs \in Seq(Pairs) /\ Distinct(gs) /\ Len(gs) # 0 /\ Len(gs) \in Nat
        /\ Len(gs) = Len(fs) + 1 /\ gs[Len(fs) + 1] = es[k]
        /\ \A i \in 1..Len(fs) : gs[i] = fs[i]
    <2>1. gs \in Seq(Pairs) /\ Len(gs) = Len(fs) + 1 /\ gs[Len(fs) + 1] = es[k] /\ Len(fs) \in Nat
          /\ \A i \in 1..Len(fs) : gs[i] = fs[i]
      BY <1>1, <1>3
    <2>2. Distinct(gs) /\ Len(gs) # 0
      BY <1>1, <1>3, AppendedIs
    <2> QED BY <2>1, <2>2
  <1>7. /\ r.max = s.max /\ r.used = s.used /\ r.count = s.count /\ r.queue = s.queue
        /\ r.wire = s.wire /\ r.stored = s.stored /\ r.spoiled = s.spoiled /\ r.entries = gs
        /\ r \in Senders
    BY <1>4, <1>5, <1>6 DEF Senders
  <1> HIDE DEF gs, r
  <1>8. ASSUME NEW i \in 1..Len(gs) PROVE \E j \in 1..Len(es) : gs[i] = es[j]
    <2>1. i = Len(fs) + 1 \/ i \in 1..Len(fs)
      BY <1>3, <1>6
    <2> QED BY <1>3, <1>6, <2>1
  <1>9. ASSUME NEW j \in 1..Len(es) PROVE \E i \in 1..Len(gs) : gs[i] = es[j]
    <2>1. CASE es[j].alias = a
      <3>1. j = k
        BY <1>1, <2>1 DEF Distinct
      <3>2. Len(fs) + 1 \in 1..Len(gs)
        BY <1>3, <1>6
      <3> QED BY <1>6, <3>1, <3>2
    <2>2. CASE es[j].alias # a
      <3>1. PICK i \in 1..Len(fs) : fs[i] = es[j]
        BY <1>3, <2>2
      <3>2. i \in 1..Len(gs)
        BY <1>3, <1>6
      <3> QED BY <1>6, <3>1, <3>2
    <2> QED BY <2>1, <2>2
  <1>10. Mapped(r)
    <2>1. \A i \in 1..Len(gs) : gs[i].alias \in s.used
      BY <1>8 DEF Mapped
    <2> QED BY <1>6, <1>7, <2>1 DEF Mapped
  <1> QED BY <1>7, <1>8, <1>9, <1>10 DEF r

\* insert_or_update: the entry of the alias is the one of the topic, if there is one, and
\* the others are old ones.
LEMMA RegisterIs ==
  ASSUME NEW s \in Senders, Mapped(s), NEW t \in Topics, NEW a \in 1..s.max
  PROVE  LET r == Register(s, t, a)
         IN  /\ r \in Senders /\ Mapped(r)
             /\ r.max = s.max /\ r.count = s.count /\ r.queue = s.queue
             /\ r.wire = s.wire /\ r.stored = s.stored /\ r.spoiled = s.spoiled
             /\ \A i \in 1..Len(r.entries) :
                  \/ r.entries[i].alias = a /\ r.entries[i].topic = t
                  \/ r.entries[i].alias # a /\ \E j \in 1..Len(s.entries) : r.entries[i] = s.entries[j]
  <1> DEFINE es == s.entries
             fs == Without(es, a)
             e == [alias |-> a, topic |-> t]
             gs == IF \E f \in Elements(es) : f.topic = t /\ f.alias # a THEN fs ELSE Append(fs, e)
             r == Register(s, t, a)
  <1>1. es \in Seq(Pairs) /\ Distinct(es) /\ e \in Pairs /\ Len(es) \in Nat
        /\ a \in Aliases /\ e.alias = a /\ e.topic = t /\ s.used \in SUBSET Aliases
    <2>1. s.max \in 1..AliasMax /\ AliasMax \in Nat
      BY SenderIs, AliasAssumption DEF Aliases
    <2>2. a \in Aliases
      BY <2>1 DEF Aliases
    <2> QED BY <2>2, SenderIs DEF Mapped, Pairs
  <1>3. /\ fs \in Seq(Pairs) /\ Distinct(fs)
        /\ \A i \in 1..Len(fs) : fs[i].alias # a /\ \E j \in 1..Len(es) : fs[i] = es[j]
        /\ \A j \in 1..Len(es) : es[j].alias # a => \E i \in 1..Len(fs) : fs[i] = es[j]
    <2> HIDE DEF es
    <2> QED BY <1>1, WithoutIs
  <1>4. r = [s EXCEPT !.used = s.used \cup {a}, !.entries = gs]
    BY DEF Register
  <1> HIDE DEF fs, e
  <1>5. /\ gs \in Seq(Pairs) /\ Distinct(gs) /\ Len(gs) # 0
        /\ \A i \in 1..Len(gs) :
             \/ gs[i] = e \/ (gs[i].alias # a /\ \E j \in 1..Len(es) : gs[i] = es[j])
    <2>1. CASE \E f \in Elements(es) : f.topic = t /\ f.alias # a
      <3>1. PICK j \in 1..Len(es) : es[j].alias # a
        BY <2>1, <1>1 DEF Elements
      <3>2. PICK i \in 1..Len(fs) : fs[i] = es[j]
        BY <1>3, <3>1
      <3>3. Len(fs) # 0
        BY <1>3, <3>2
      <3> QED BY <1>3, <2>1, <3>3
    <2>2. CASE ~\E f \in Elements(es) : f.topic = t /\ f.alias # a
      <3>1. gs = Append(fs, e)
        BY <2>2
      <3> HIDE DEF gs
      <3>2. /\ Append(fs, e) \in Seq(Pairs) /\ Distinct(Append(fs, e)) /\ Len(Append(fs, e)) # 0
            /\ \A i \in 1..Len(Append(fs, e)) :
                 Append(fs, e)[i] = e \/ \E j \in 1..Len(fs) : Append(fs, e)[i] = fs[j]
        BY <1>1, <1>3, AppendedIs
      <3>3. ASSUME NEW i \in 1..Len(gs)
            PROVE  gs[i] = e \/ (gs[i].alias # a /\ \E j \in 1..Len(es) : gs[i] = es[j])
        <4>1. CASE gs[i] = e
          BY <4>1
        <4>2. CASE \E j \in 1..Len(fs) : gs[i] = fs[j]
          <5>1. PICK j \in 1..Len(fs) : gs[i] = fs[j]
            BY <4>2
          <5> QED BY <1>3, <5>1
        <4> QED BY <3>1, <3>2, <4>1, <4>2
      <3> QED BY <3>1, <3>2, <3>3
    <2> QED BY <2>1, <2>2
  <1> HIDE DEF gs
  <1>7. /\ r.max = s.max /\ r.used = s.used \cup {a} /\ r.count = s.count /\ r.queue = s.queue
        /\ r.wire = s.wire /\ r.stored = s.stored /\ r.spoiled = s.spoiled /\ r.entries = gs
        /\ r \in Senders
    <2>1. s.used \cup {a} \in SUBSET Aliases
      BY <1>1
    <2> DEFINE u == s.used \cup {a}
    <2> HIDE DEF u
    <2>2. r = [s EXCEPT !.used = u, !.entries = gs]
      BY <1>4 DEF u
    <2>3. u \in SUBSET Aliases
      BY <2>1 DEF u
    <2> HIDE DEF r
    <2>4. /\ r.max = s.max /\ r.used = u /\ r.count = s.count /\ r.queue = s.queue
          /\ r.wire = s.wire /\ r.stored = s.stored /\ r.spoiled = s.spoiled /\ r.entries = gs
          /\ r \in Senders
      BY <1>5, <2>2, <2>3 DEF Senders
    <2> QED BY <2>4 DEF u
  <1> HIDE DEF r
  <1>8. Mapped(r)
    <2>1. \A i \in 1..Len(gs) : gs[i].alias \in s.used \cup {a}
      BY <1>1, <1>5 DEF Mapped
    <2>2. s.used \cup {a} \subseteq 1..s.max
      BY DEF Mapped
    <2> QED BY <1>5, <1>7, <2>1, <2>2 DEF Mapped
  <1> QED BY <1>1, <1>5, <1>7, <1>8 DEF r

\* get_lru_alias gives an alias in range.
LEMMA LruIs == ASSUME NEW s \in Senders, Mapped(s) PROVE LruAlias(s) \in 1..s.max
  <1>1. s.max \in Nat /\ s.max >= 1 /\ s.used \subseteq 1..s.max
    BY SenderIs, AliasAssumption DEF Aliases, Mapped
  <1>2. CASE s.used # 1..s.max
    <2> DEFINE S == 1..s.max \ s.used
    <2>1. S # {} /\ S \in SUBSET Nat
      <3>1. \E x \in 1..s.max : x \notin s.used
        BY <1>1, <1>2
      <3> QED BY <1>1, <3>1
    <2>2. Min(S) \in S
      BY <2>1, LeastOf DEF Min
    <2> QED BY <1>2, <2>2 DEF LruAlias
  <1>3. CASE s.used = 1..s.max
    <2>1. s.used # {}
      BY <1>1, <1>3
    <2>2. Len(s.entries) # 0 /\ s.entries \in Seq(Pairs) /\ Len(s.entries) \in Nat
      BY <2>1, SenderIs DEF Mapped
    <2>3. Head(s.entries) = s.entries[1] /\ 1 \in 1..Len(s.entries)
      BY <2>2
    <2>4. s.entries[1].alias \in s.used
      BY <2>3 DEF Mapped
    <2> QED BY <1>3, <2>3, <2>4 DEF LruAlias
  <1> QED BY <1>2, <1>3
-------------------------------------------------------------------------------
\* A packet with its topic alone needs no table.
LEMMA WithTopicAlone ==
  ASSUME NEW ms, NEW table, NEW s, Good(ms, table, s), NEW p \in Packets, Meant(ms, p),
         p.alias = 0
  PROVE  GoodWith(ms, table, s, p)
  <1>1. s \in Senders
    BY DEF Good, Sound
  <1>2. CASE ~s.spoiled
    <2>1. Agree(ms, table, s.entries, s.wire) /\ Unaliased(s)
      BY <1>2 DEF Good
    <2>2. ASSUME NEW i \in 1..Len(s.entries)
          PROVE  ~Gives(<<p>>, 1, s.entries[i].alias)
      <3>1. s.entries[i] \in Pairs
        BY <1>1, SenderIs
      <3>2. s.entries[i].alias # 0
        BY <3>1, AliasAssumption DEF Pairs, Aliases
      <3> QED BY <3>2 DEF Gives
    <2>3. Agree(ms, table, s.entries, Append(s.wire, p))
      <3>1. s.entries \in Seq(Pairs) /\ s.wire \in Seq(Packets)
        BY <1>1, SenderIs
      <3>2. p.topic # NoTopic
        BY DEF Meant
      <3> QED BY <2>1, <2>2, <3>1, <3>2, AgreeMore
    <2> QED BY <2>1, <2>3 DEF Good, GoodWith
  <1>3. CASE s.spoiled
    BY <1>3 DEF Good, GoodWith
  <1> QED BY <1>2, <1>3

\* A packet with an alias, and with its topic when the entry of the alias is new.
LEMMA WithAlias ==
  ASSUME NEW ms, NEW table, NEW s, Good(ms, table, s),
         NEW r \in Senders, Mapped(r), NEW p \in Packets, Meant(ms, p), p.alias # 0,
         r.queue = s.queue, r.wire = s.wire, r.stored = s.stored, r.spoiled = s.spoiled,
         \A i \in 1..Len(r.entries) :
           \/ Gives(<<p>>, 1, r.entries[i].alias) /\ r.entries[i].topic = p.topic
           \/ /\ ~Gives(<<p>>, 1, r.entries[i].alias)
              /\ \E j \in 1..Len(s.entries) : r.entries[i] = s.entries[j],
         s.spoiled \/ (p.topic = NoTopic => \E j \in 1..Len(s.entries) :
                         s.entries[j].alias = p.alias /\ s.entries[j].topic = ms[p.m].topic)
  PROVE  GoodWith(ms, table, r, p)
  <1>1. s \in Senders
    BY DEF Good, Sound
  <1>2. Sound(ms, r)
    BY DEF Good, Sound, AllMeant
  <1>3. CASE ~s.spoiled
    <2>1. Agree(ms, table, s.entries, s.wire) /\ Unaliased(s)
      BY <1>3 DEF Good
    <2>2. p.topic = NoTopic => Says(table, s.wire, 1..Len(s.wire), p.alias, ms[p.m].topic)
      BY <1>3, <2>1 DEF Agree
    <2>3. Agree(ms, table, r.entries, Append(s.wire, p))
      <3>1. s.entries \in Seq(Pairs) /\ s.wire \in Seq(Packets) /\ r.entries \in Seq(Pairs)
        BY <1>1, SenderIs
      <3> QED BY <2>1, <2>2, <3>1, AgreeMore
    <2>4. Unaliased(r)
      BY <2>1 DEF Unaliased
    <2> QED BY <1>2, <2>3, <2>4 DEF GoodWith
  <1>4. CASE s.spoiled
    BY <1>2, <1>4 DEF GoodWith
  <1> QED BY <1>3, <1>4

\* The entries of the sender, and those of a topic.
LEMMA EntriesAre ==
  ASSUME NEW s \in Senders
  PROVE  /\ \A a : Entry(s, a) # {} => \E k \in 1..Len(s.entries) : s.entries[k].alias = a
         /\ \A t : \A a \in AliasesOf(s, t) :
              \E k \in 1..Len(s.entries) : s.entries[k].alias = a /\ s.entries[k].topic = t
         /\ \A k \in 1..Len(s.entries) : s.entries[k] \in Pairs /\ s.entries[k].alias # 0
                                         /\ s.entries[k].alias \in 0..AliasMax
         /\ \A a \in 1..s.max : a # 0 /\ a \in 0..AliasMax
  <1>1. s.entries \in Seq(Pairs) /\ s.max \in 1..AliasMax /\ AliasMax \in Nat
    BY SenderIs, AliasAssumption DEF Aliases
  <1>2. DOMAIN s.entries = 1..Len(s.entries)
    BY <1>1
  <1>3. \A a : Entry(s, a) # {} => \E k \in 1..Len(s.entries) : s.entries[k].alias = a
    BY <1>2 DEF Entry, Elements
  <1>4. \A t : \A a \in AliasesOf(s, t) :
          \E k \in 1..Len(s.entries) : s.entries[k].alias = a /\ s.entries[k].topic = t
    BY <1>2 DEF AliasesOf, Elements
  <1>5. ASSUME NEW k \in 1..Len(s.entries)
        PROVE  s.entries[k] \in Pairs /\ s.entries[k].alias # 0 /\ s.entries[k].alias \in 0..AliasMax
    <2>1. s.entries[k] \in Pairs
      BY <1>1
    <2>2. s.entries[k].alias \in 1..AliasMax
      BY <2>1 DEF Pairs, Aliases
    <2> QED BY <1>1, <2>1, <2>2
  <1>6. \A a \in 1..s.max : a # 0 /\ a \in 0..AliasMax
    BY <1>1
  <1> QED BY <1>3, <1>4, <1>5, <1>6

\* A packet of the application: its alias need not be in range.
Asked == [m : Nat, topic : Topics \cup {NoTopic}, alias : Nat]

\* The entry of the alias a packet without its topic has is about its message's topic.
KnownAs(ms, s, p) ==
  p.topic = NoTopic => \E j \in 1..Len(s.entries) :
    s.entries[j].alias = p.alias /\ s.entries[j].topic = ms[p.m].topic

\* The alias is registered, and the packet has it and its topic.
LEMMA Registering ==
  ASSUME NEW ms, NEW table, NEW s, Good(ms, table, s), NEW p \in Asked, Meant(ms, p),
         p.topic # NoTopic, NEW a \in 1..s.max
  PROVE  GoodWith(ms, table, Register(s, p.topic, a), Packet(p.m, p.topic, a))
  <1>1. s \in Senders /\ Mapped(s)
    BY DEF Good, Sound
  <1> DEFINE r == Register(s, p.topic, a)
             q == Packet(p.m, p.topic, a)
  <1>2. p.topic \in Topics /\ p.m \in Nat
    BY DEF Asked
  <1>3. /\ r \in Senders /\ Mapped(r)
        /\ r.max = s.max /\ r.count = s.count /\ r.queue = s.queue
        /\ r.wire = s.wire /\ r.stored = s.stored /\ r.spoiled = s.spoiled
        /\ \A i \in 1..Len(r.entries) :
             \/ r.entries[i].alias = a /\ r.entries[i].topic = p.topic
             \/ r.entries[i].alias # a /\ \E j \in 1..Len(s.entries) : r.entries[i] = s.entries[j]
    BY <1>1, <1>2, RegisterIs
  <1>4. q \in Packets /\ q.m = p.m /\ q.topic = p.topic /\ q.alias = a /\ a # 0
    BY <1>1, <1>2, EntriesAre DEF Packets, Packet
  <1>5. Meant(ms, q)
    BY <1>4 DEF Meant
  <1>6. \A b : Gives(<<q>>, 1, b) <=> b = a
    BY <1>4 DEF Gives
  <1> HIDE DEF r, q
  <1>7. GoodWith(ms, table, r, q)
    BY <1>3, <1>4, <1>5, <1>6, WithAlias
  <1> QED BY <1>7 DEF r, q

\* The packet goes with the alias alone, and the entries are the same.
LEMMA AliasAlone ==
  ASSUME NEW ms, NEW table, NEW s, Good(ms, table, s), NEW p \in Asked, Meant(ms, p),
         NEW r \in Senders, Mapped(r),
         r.queue = s.queue, r.wire = s.wire, r.stored = s.stored, r.spoiled = s.spoiled,
         \A i \in 1..Len(r.entries) : \E j \in 1..Len(s.entries) : r.entries[i] = s.entries[j],
         NEW a \in 0..AliasMax, a # 0,
         s.spoiled \/ \E j \in 1..Len(s.entries) :
                        s.entries[j].alias = a /\ s.entries[j].topic = ms[p.m].topic
  PROVE  GoodWith(ms, table, r, Packet(p.m, NoTopic, a))
  <1> DEFINE q == Packet(p.m, NoTopic, a)
  <1>1. q \in Packets /\ q.m = p.m /\ q.topic = NoTopic /\ q.alias = a
    BY DEF Packets, Packet, Asked
  <1>2. Meant(ms, q)
    BY <1>1 DEF Meant
  <1>3. \A b : ~Gives(<<q>>, 1, b)
    BY <1>1 DEF Gives
  <1> HIDE DEF q
  <1>4. GoodWith(ms, table, r, q)
    BY <1>1, <1>2, <1>3, WithAlias
  <1> QED BY <1>4 DEF q

\* "apply topic_alias": the packet that is sent goes with the table that is left.
LEMMA Applying ==
  ASSUME NEW ms, NEW table, NEW s, Good(ms, table, s), NEW p \in Asked, Valid(s, p),
         Meant(ms, p), mode \in {"manual", "map", "replace"}, s.spoiled \/ KnownAs(ms, s, p)
  PROVE  GoodWith(ms, table, Table(s, p), Applied(s, p))
  <1>1. s \in Senders /\ Mapped(s)
    BY DEF Good, Sound
  <1>2. p.m \in Nat /\ p.topic \in Topics \cup {NoTopic} /\ p.alias \in Nat
        /\ p = Packet(p.m, p.topic, p.alias)
    BY DEF Asked, Packet
  <1>3. CASE p.topic = NoTopic
    <2>1. PICK k \in 1..Len(s.entries) : s.entries[k].alias = p.alias
      BY <1>1, <1>3, EntriesAre DEF Valid
    <2>2. p.alias # 0 /\ p.alias \in 0..AliasMax
      BY <1>1, <2>1, EntriesAre
    <2>3. Applied(s, p) = Packet(p.m, NoTopic, p.alias) /\ Table(s, p) = Touch(s, p.alias)
      BY <1>3, <2>2 DEF Applied, Table, Chosen, Replaced
    <2> DEFINE r == Touch(s, p.alias)
    <2>4. /\ r \in Senders /\ Mapped(r) /\ r.queue = s.queue
          /\ r.wire = s.wire /\ r.stored = s.stored /\ r.spoiled = s.spoiled
          /\ \A i \in 1..Len(r.entries) : \E j \in 1..Len(s.entries) : r.entries[i] = s.entries[j]
      <3> DEFINE q == Touch(s, s.entries[k].alias)
      <3>1. /\ q \in Senders /\ Mapped(q) /\ q.queue = s.queue
            /\ q.wire = s.wire /\ q.stored = s.stored /\ q.spoiled = s.spoiled
            /\ \A i \in 1..Len(q.entries) : \E j \in 1..Len(s.entries) : q.entries[i] = s.entries[j]
        BY <1>1, TouchIs
      <3>2. q = r
        BY <2>1
      <3> HIDE DEF q, r
      <3> QED BY <3>1, <3>2
    <2> HIDE DEF r
    <2>5. GoodWith(ms, table, r, Packet(p.m, NoTopic, p.alias))
      BY <1>3, <2>2, <2>4, AliasAlone DEF KnownAs
    <2> QED BY <2>3, <2>5 DEF r
  <1>4. CASE p.topic # NoTopic /\ p.alias # 0
    <2>1. p.alias \in 1..s.max
      BY <1>1, <1>2, <1>4, SenderIs DEF Valid
    <2>2. Applied(s, p) = Packet(p.m, p.topic, p.alias)
          /\ Table(s, p) = Register(s, p.topic, p.alias)
      BY <1>4 DEF Applied, Table, Chosen, Replaced
    <2> QED BY <1>4, <2>1, <2>2, Registering
  <1>5. CASE p.topic # NoTopic /\ p.alias = 0
    <2>1. CASE mode = "manual" \/ (AliasesOf(s, p.topic) = {} /\ mode # "map")
      <3>1. Applied(s, p) = Packet(p.m, p.topic, p.alias) /\ Table(s, p) = s
        BY <1>5, <2>1 DEF Applied, Table, Chosen, Replaced
      <3>2. p \in Packets
        <4>1. p.alias \in 0..AliasMax
          BY <1>5, AliasAssumption
        <4> QED BY <1>2, <4>1 DEF Packets, Packet
      <3>3. GoodWith(ms, table, s, p)
        BY <1>5, <3>2, WithTopicAlone
      <3> QED BY <1>2, <3>1, <3>3
    <2>2. CASE mode # "manual" /\ AliasesOf(s, p.topic) # {}
      <3> DEFINE a == CHOOSE b \in AliasesOf(s, p.topic) : TRUE
      <3>1. a \in AliasesOf(s, p.topic)
        BY <2>2
      <3>2. PICK k \in 1..Len(s.entries) : s.entries[k].alias = a /\ s.entries[k].topic = p.topic
        BY <1>1, <3>1, EntriesAre
      <3>3. a # 0 /\ a \in 0..AliasMax
        BY <1>1, <3>2, EntriesAre
      <3>4. Applied(s, p) = Packet(p.m, NoTopic, a) /\ Table(s, p) = s
        BY <1>5, <2>2 DEF Applied, Table, Chosen, Replaced
      <3>5. p.topic = ms[p.m].topic
        BY <1>5 DEF Meant
      <3> HIDE DEF a
      <3>6. GoodWith(ms, table, s, Packet(p.m, NoTopic, a))
        BY <1>1, <3>2, <3>3, <3>5, AliasAlone
      <3> QED BY <3>4, <3>6
    <2>3. CASE mode = "map" /\ AliasesOf(s, p.topic) = {}
      <3>1. LruAlias(s) \in 1..s.max
        BY <1>1, LruIs
      <3>2. LruAlias(s) # 0
        BY <1>1, <3>1, EntriesAre
      <3>3. Applied(s, p) = Packet(p.m, p.topic, LruAlias(s))
            /\ Table(s, p) = Register(s, p.topic, LruAlias(s))
        BY <1>5, <2>3, <3>2 DEF Applied, Table, Chosen, Replaced
      <3> QED BY <1>5, <3>1, <3>3, Registering
    <2> QED BY <2>1, <2>2, <2>3
  <1> QED BY <1>3, <1>4, <1>5
-------------------------------------------------------------------------------
\* The packets of a sender stay sound when one more is written, or kept back.
LEMMA OneMoreMeant ==
  ASSUME NEW ms, NEW w \in Seq(Packets), NEW p \in Packets, Meant(ms, p),
         \A i \in 1..Len(w) : Meant(ms, w[i])
  PROVE  /\ Append(w, p) \in Seq(Packets)
         /\ \A i \in 1..Len(Append(w, p)) : Meant(ms, Append(w, p)[i])
         /\ \A i \in 1..Len(Append(w, p)) : Append(w, p)[i] = p \/ \E j \in 1..Len(w) : Append(w, p)[i] = w[j]
  <1> DEFINE v == Append(w, p)
  <1>1. v \in Seq(Packets) /\ Len(v) = Len(w) + 1 /\ Len(w) \in Nat /\ v[Len(w) + 1] = p
        /\ \A i \in 1..Len(w) : v[i] = w[i]
    OBVIOUS
  <1> HIDE DEF v
  <1>2. \A i \in 1..Len(v) : i = Len(w) + 1 \/ i \in 1..Len(w)
    BY <1>1
  <1>3. \A i \in 1..Len(v) : v[i] = p \/ \E j \in 1..Len(w) : v[i] = w[j]
    BY <1>1, <1>2
  <1>4. \A i \in 1..Len(v) : Meant(ms, v[i])
    BY <1>3
  <1> QED BY <1>1, <1>3, <1>4 DEF v

\* The packet is written, or it does not fit, and the connection is spoiled if it had an
\* alias.
LEMMA Writing ==
  ASSUME NEW ms, NEW table, NEW s, NEW p, GoodWith(ms, table, s, p)
  PROVE  Good(ms, table, Write(ms, s, p)) /\ Write(ms, s, p).stored = s.stored
  <1> DEFINE r == Write(ms, s, p)
  <1>1. s \in Senders /\ Mapped(s) /\ AllMeant(ms, s) /\ p \in Packets /\ Meant(ms, p)
    BY DEF GoodWith, Sound
  <1>2. CASE Size(p) > ms[p.m].room
    <2> DEFINE b == s.spoiled \/ p.alias # 0
    <2>0. b \in BOOLEAN
      OBVIOUS
    <2>1. r = [s EXCEPT !.spoiled = b]
      BY <1>2 DEF Write, Spoil
    <2> HIDE DEF b, r
    <2>2. /\ r.max = s.max /\ r.used = s.used /\ r.count = s.count /\ r.queue = s.queue
          /\ r.wire = s.wire /\ r.stored = s.stored /\ r.spoiled = b /\ r.entries = s.entries
          /\ r \in Senders
      BY <1>1, <2>0, <2>1 DEF Senders
    <2>3. Sound(ms, r)
      BY <1>1, <2>2 DEF Sound, Mapped, AllMeant
    <2>4. CASE b
      BY <2>2, <2>3, <2>4 DEF Good, r
    <2>5. CASE ~b
      <3>1. ~s.spoiled /\ p.alias = 0
        BY <2>5 DEF b
      <3>2. Agree(ms, table, s.entries, s.wire) /\ Unaliased(s)
        BY <3>1 DEF GoodWith
      <3> QED BY <2>2, <2>3, <3>2 DEF Good, Unaliased, r
    <2> QED BY <2>4, <2>5, <2>2 DEF r
  <1>3. CASE ~(Size(p) > ms[p.m].room)
    <2> DEFINE v == Append(s.wire, p)
    <2>1. r = [s EXCEPT !.wire = v]
      BY <1>3 DEF Write
    <2>2. v \in Seq(Packets) /\ \A i \in 1..Len(v) : Meant(ms, v[i])
      BY <1>1, SenderIs, OneMoreMeant DEF AllMeant
    <2> HIDE DEF r
    <2>3. /\ r.max = s.max /\ r.used = s.used /\ r.count = s.count /\ r.queue = s.queue
          /\ r.wire = v /\ r.stored = s.stored /\ r.spoiled = s.spoiled /\ r.entries = s.entries
          /\ r \in Senders
      <3> HIDE DEF v
      <3> QED BY <1>1, <2>1, <2>2 DEF Senders
    <2>4. Sound(ms, r)
      BY <1>1, <2>2, <2>3 DEF Sound, Mapped, AllMeant
    <2>5. r.spoiled \/ (Agree(ms, table, r.entries, r.wire) /\ Unaliased(r))
      BY <2>3 DEF GoodWith, Unaliased
    <2> QED BY <2>3, <2>4, <2>5 DEF Good, r
  <1> QED BY <1>2, <1>3

\* The packet is kept back, which spoils the connection if it has an alias.
LEMMA Holding ==
  ASSUME NEW ms, NEW table, NEW s, NEW p, GoodWith(ms, table, s, p)
  PROVE  LET r == Spoil([s EXCEPT !.queue = Append(@, p)], p)
         IN  Good(ms, table, r) /\ r.stored = s.stored
  <1> DEFINE b == s.spoiled \/ p.alias # 0
             v == Append(s.queue, p)
             r == Spoil([s EXCEPT !.queue = Append(@, p)], p)
  <1>1. s \in Senders /\ Mapped(s) /\ AllMeant(ms, s) /\ p \in Packets /\ Meant(ms, p)
    BY DEF GoodWith, Sound
  <1>2. b \in BOOLEAN
    OBVIOUS
  <1>3. /\ v \in Seq(Packets)
        /\ \A i \in 1..Len(v) : Meant(ms, v[i])
        /\ \A i \in 1..Len(v) : v[i] = p \/ \E j \in 1..Len(s.queue) : v[i] = s.queue[j]
    BY <1>1, SenderIs, OneMoreMeant DEF AllMeant
  <1>4. r = [s EXCEPT !.queue = v, !.spoiled = b]
    BY <1>1 DEF Spoil, Senders
  <1> HIDE DEF v, b, r
  <1>5. /\ r.max = s.max /\ r.used = s.used /\ r.count = s.count /\ r.queue = v
        /\ r.wire = s.wire /\ r.stored = s.stored /\ r.spoiled = b /\ r.entries = s.entries
        /\ r \in Senders
    BY <1>1, <1>2, <1>3, <1>4 DEF Senders
  <1>6. Sound(ms, r)
    BY <1>1, <1>3, <1>5 DEF Sound, Mapped, AllMeant
  <1>7. CASE b
    BY <1>5, <1>6, <1>7 DEF Good, r
  <1>8. CASE ~b
    <2>1. ~s.spoiled /\ p.alias = 0
      BY <1>8 DEF b
    <2>2. Agree(ms, table, s.entries, s.wire) /\ Unaliased(s)
      BY <2>1 DEF GoodWith
    <2>3. Unaliased(r)
      BY <1>3, <1>5, <2>1, <2>2 DEF Unaliased
    <2> QED BY <1>5, <1>6, <2>2, <2>3 DEF Good, r
  <1> QED BY <1>5, <1>7, <1>8 DEF r

\* Counting a packet leaves the table and the packets alone.
LEMMA Counting ==
  ASSUME NEW s \in Senders
  PROVE  LET r == Count(s)
         IN  /\ r \in Senders /\ r.max = s.max /\ r.used = s.used /\ r.queue = s.queue
             /\ r.wire = s.wire /\ r.stored = s.stored /\ r.spoiled = s.spoiled
             /\ r.entries = s.entries
  <1> DEFINE n == (s.count + 1) % Wrap
  <1>1. n \in 0..(Wrap - 1)
    BY SenderIs DEF Wrap
  <1> HIDE DEF n
  <1>2. Count(s) = IF s.count = Maximum THEN s ELSE [s EXCEPT !.count = n]
    BY DEF Count, n
  <1> QED BY <1>1, <1>2 DEF Senders

\* Neither does it make them wrong.
LEMMA CountingIsGood ==
  ASSUME NEW ms, NEW table, NEW s
  PROVE  /\ Good(ms, table, s) => Good(ms, table, Count(s))
         /\ \A p : GoodWith(ms, table, s, p) => GoodWith(ms, table, Count(s), p)
  <1> DEFINE r == Count(s)
  <1>1. ASSUME Sound(ms, s)
        PROVE  /\ Sound(ms, r) /\ r.spoiled = s.spoiled /\ r.entries = s.entries
               /\ r.wire = s.wire /\ r.queue = s.queue
    <2>1. /\ r \in Senders /\ r.max = s.max /\ r.used = s.used /\ r.queue = s.queue
          /\ r.wire = s.wire /\ r.stored = s.stored /\ r.spoiled = s.spoiled
          /\ r.entries = s.entries
      BY <1>1, Counting DEF Sound
    <2> HIDE DEF r
    <2> QED BY <1>1, <2>1 DEF Sound, Mapped, AllMeant
  <1> HIDE DEF r
  <1>2. Good(ms, table, s) => Good(ms, table, r)
    BY <1>1 DEF Good, Unaliased
  <1>3. ASSUME NEW p, GoodWith(ms, table, s, p) PROVE GoodWith(ms, table, r, p)
    BY <1>1, <1>3 DEF GoodWith, Unaliased
  <1> QED BY <1>2, <1>3 DEF r

\* enqueue_publish
LEMMA Enqueuing ==
  ASSUME NEW ms, NEW table, NEW s, NEW p, GoodWith(ms, table, s, p)
  PROVE  Good(ms, table, Enqueue(ms, s, p)) /\ Enqueue(ms, s, p).stored = s.stored
  <1>1. GoodWith(ms, table, Count(s), p) /\ Count(s).stored = s.stored
    BY CountingIsGood, Counting DEF GoodWith, Sound
  <1>2. CASE ms[p.m].qos = 0
    BY <1>2, Writing DEF Enqueue
  <1>3. CASE ms[p.m].qos # 0 /\ Held(s)
    <2>1. Enqueue(ms, s, p) = Spoil([Count(s) EXCEPT !.queue = Append(@, p)], p)
      BY <1>3 DEF Enqueue
    <2> DEFINE r == Spoil([Count(s) EXCEPT !.queue = Append(@, p)], p)
    <2>2. Good(ms, table, r) /\ r.stored = Count(s).stored
      BY <1>1, Holding
    <2> HIDE DEF r
    <2>3. Good(ms, table, r) /\ r.stored = s.stored
      BY <1>1, <2>2
    <2> QED BY <2>1, <2>3 DEF r
  <1>4. CASE ms[p.m].qos # 0 /\ ~Held(s)
    <2>1. Enqueue(ms, s, p) = Write(ms, Count(s), p)
      BY <1>4 DEF Enqueue
    <2> QED BY <1>1, <2>1, Writing
  <1> QED BY <1>2, <1>3, <1>4

\* The store is not changed by what the table does.
LEMMA TableStored ==
  ASSUME NEW s, NEW p
  PROVE  Table(s, p).stored = s.stored /\ Table(s, p).spoiled = s.spoiled
  BY DEF Table, Touch, Register

\* What spoiled a connection is not forgotten.
LEMMA WriteSpoils ==
  ASSUME NEW ms, NEW s \in Senders, NEW p, s.spoiled
  PROVE  Write(ms, s, p).spoiled
  <1>1. CASE Size(p) > ms[p.m].room
    BY <1>1 DEF Write, Spoil, Senders
  <1>2. CASE ~(Size(p) > ms[p.m].room)
    BY <1>2 DEF Write, Senders
  <1> QED BY <1>1, <1>2

\* process_send_packet from "apply topic_alias" on.
LEMMA Sends ==
  ASSUME NEW ms, NEW table, NEW s, Good(ms, table, s), NEW p \in Asked, Meant(ms, p),
         mode \in {"manual", "map", "replace"}, s.spoiled \/ KnownAs(ms, s, p)
  PROVE  /\ Good(ms, table, Send(ms, s, p)) /\ Send(ms, s, p).stored = s.stored
         /\ Good(ms, table, SendQueued(ms, s, p)) /\ SendQueued(ms, s, p).stored = s.stored
         /\ s.spoiled => SendQueued(ms, s, p).spoiled
  <1>1. CASE Valid(s, p)
    <2>1. GoodWith(ms, table, Table(s, p), Applied(s, p))
      BY <1>1, Applying
    <2>2. Send(ms, s, p) = Enqueue(ms, Table(s, p), Applied(s, p))
          /\ SendQueued(ms, s, p) = Write(ms, Table(s, p), Applied(s, p))
      BY <1>1 DEF Send, SendQueued
    <2>3. s.spoiled => SendQueued(ms, s, p).spoiled
      <3>1. s \in Senders /\ Table(s, p) \in Senders
        BY <2>1 DEF Good, GoodWith, Sound
      <3> QED BY <2>2, <3>1, TableStored, WriteSpoils
    <2> QED BY <2>1, <2>2, <2>3, Enqueuing, Writing, TableStored
  <1>2. CASE ~Valid(s, p)
    BY <1>2 DEF Send, SendQueued
  <1> QED BY <1>1, <1>2

\* send_stored(): the packet is kept back, or sent.
LEMMA Resends ==
  ASSUME NEW ms, NEW table, NEW s, Good(ms, table, s), NEW p \in Packets, Meant(ms, p),
         p.alias = 0, mode \in {"manual", "map", "replace"}
  PROVE  Good(ms, table, Resend(ms, s, p)) /\ Resend(ms, s, p).stored = s.stored
  <1>0. Count(s).stored = s.stored /\ Good(ms, table, Count(s)) /\ s \in Senders
    BY CountingIsGood, Counting DEF Good, Sound
  <1>1. CASE Held(s)
    <2> DEFINE c == Count(s)
    <2> DEFINE k == [c EXCEPT !.queue = Append(@, p)]
               r == Spoil(k, p)
    <2>1. GoodWith(ms, table, c, p)
      BY <1>0, WithTopicAlone
    <2>2. Good(ms, table, r) /\ r.stored = c.stored
      <3> HIDE DEF c
      <3> QED BY <2>1, Holding
    <2>3. k = r
      <3>1. c \in Senders /\ c.spoiled \in BOOLEAN
        BY <1>0, Counting, SenderIs
      <3> HIDE DEF c
      <3> QED BY <3>1 DEF Spoil, Senders
    <2>4. Resend(ms, s, p) = k
      BY <1>1 DEF Resend
    <2> HIDE DEF k, r
    <2> QED BY <1>0, <2>2, <2>3, <2>4
  <1>2. CASE ~Held(s)
    <2>1. p \in Asked
      BY AliasAssumption DEF Packets, Asked
    <2>2. KnownAs(ms, Count(s), p)
      BY DEF KnownAs, Meant
    <2>3. Resend(ms, s, p) = Send(ms, Count(s), p)
      BY <1>2 DEF Resend
    <2> QED BY <1>0, <2>1, <2>2, <2>3, Sends
  <1> QED BY <1>1, <1>2
-------------------------------------------------------------------------------
\* Induction over the natural numbers, for a set of them.
LEMMA NaturalsFrom0 ==
  ASSUME NEW B \in SUBSET Nat, 0 \in B, \A n \in B : n + 1 \in B
  PROVE  Nat \subseteq B
  <1> SUFFICES ASSUME Nat \ B # {} PROVE FALSE
    OBVIOUS
  <1>1. PICK m \in Nat \ B : \A n \in Nat \ B : m <= n
    BY LeastOf
  <1>2. m - 1 \in Nat
    BY <1>1
  <1>3. m - 1 \in B
    BY <1>1, <1>2
  <1>4. (m - 1) + 1 \in B
    BY <1>3
  <1> QED BY <1>1, <1>4

\* A set of natural numbers up to n that is not empty has a greatest member.
LEMMA GreatestOf ==
  ASSUME NEW n \in Nat, NEW S \in SUBSET (1..n), S # {}
  PROVE  Max(S) \in S /\ \A i \in S : i <= Max(S)
  <1> DEFINE T == {n - i : i \in S}
  <1>1. T \in SUBSET Nat /\ T # {}
    <2>1. \A i \in S : n - i \in Nat
      OBVIOUS
    <2> QED BY <2>1
  <1>2. PICK j \in T : \A k \in T : j <= k
    BY <1>1, LeastOf
  <1>3. PICK i \in S : j = n - i
    BY <1>2
  <1>4. \A k \in S : i >= k
    BY <1>2, <1>3
  <1>5. Max(S) \in S /\ \A k \in S : Max(S) >= k
    BY <1>4 DEF Max
  <1> QED BY <1>5

\* What holds of no element, and of a set when it holds of the set without its greatest
\* element, holds of all elements.
LEMMA FoldStays ==
  ASSUME NEW n \in Nat, NEW B, {} \in B,
         \A s \in SUBSET (1..n) : s # {} /\ s \ {Max(s)} \in B => s \in B
  PROVE  1..n \in B
  <1> DEFINE D == 1..n
             N0 == {k \in Nat : \A s \in SUBSET D : Cardinality(s) = k => s \in B}
  <1>1. IsFiniteSet(D) /\ \A s \in SUBSET D : IsFiniteSet(s) /\ Cardinality(s) \in Nat
    <2>1. IsFiniteSet(D)
      BY FS_Interval
    <2> HIDE DEF D
    <2> QED BY <2>1, FS_Subset, FS_CardinalityType
  <1>2. 0 \in N0
    <2>1. ASSUME NEW s \in SUBSET D, Cardinality(s) = 0 PROVE s \in B
      <3>1. s = {}
        BY <1>1, <2>1, FS_EmptySet
      <3> QED BY <3>1
    <2> QED BY <2>1
  <1>3. ASSUME NEW k \in N0 PROVE k + 1 \in N0
    <2> SUFFICES ASSUME NEW s \in SUBSET D, Cardinality(s) = k + 1 PROVE s \in B
      OBVIOUS
    <2>1. s # {}
      <3>1. k \in Nat /\ Cardinality({}) = 0 /\ Cardinality(s) = k + 1
        BY FS_EmptySet
      <3>2. Cardinality(s) # 0
        BY <3>1
      <3> QED BY <3>1, <3>2
    <2>2. Max(s) \in s
      BY <2>1, GreatestOf
    <2>3. s \ {Max(s)} \in SUBSET D /\ Cardinality(s \ {Max(s)}) = k
      <3>1. k \in Nat /\ Cardinality(s) = k + 1 /\ IsFiniteSet(s)
        BY <1>1
      <3>2. Cardinality(s \ {Max(s)}) = Cardinality(s) - 1
        BY <2>2, <3>1, FS_RemoveElement
      <3>3. Cardinality(s \ {Max(s)}) = k
        BY <3>1, <3>2
      <3> QED BY <3>3
    <2>4. s \ {Max(s)} \in B
      BY <2>3
    <2> QED BY <2>1, <2>4
  <1> HIDE DEF N0
  <1>4. Nat \subseteq N0
    <2>1. N0 \in SUBSET Nat
      BY DEF N0
    <2> QED BY <1>2, <1>3, <2>1, NaturalsFrom0
  <1> QED BY <1>1, <1>4 DEF N0

\* The fold of a function over the numbers up to n.
FoldIs(n, R, base, F, g) ==
  /\ g \in [SUBSET (1..n) -> R]
  /\ \A s \in SUBSET (1..n) :
       g[s] = IF s = {} THEN base ELSE F[<<g[s \ {Max(s)}], Max(s)>>]

\* It is well defined.
LEMMA FoldExists ==
  ASSUME NEW n \in Nat, NEW R, NEW base \in R, NEW F \in [R \X (1..n) -> R]
  PROVE  \E g : FoldIs(n, R, base, F, g)
  <1> DEFINE D == 1..n
             Body(h, s) == IF s = {} THEN base ELSE F[<<h[s \ {Max(s)}], Max(s)>>]
             Upto(h, k) == \A s \in SUBSET D : Cardinality(s) <= k => h[s] = Body(h, s)
             K == {k \in Nat : \E h \in [SUBSET D -> R] : Upto(h, k)}
  <1>1. IsFiniteSet(D) /\ \A s \in SUBSET D : IsFiniteSet(s) /\ Cardinality(s) \in Nat
    <2>1. IsFiniteSet(D)
      BY FS_Interval
    <2> HIDE DEF D
    <2> QED BY <2>1, FS_Subset, FS_CardinalityType
  <1>2. ASSUME NEW s \in SUBSET D, s # {}
        PROVE  /\ Max(s) \in D /\ s \ {Max(s)} \in SUBSET D
               /\ Cardinality(s \ {Max(s)}) = Cardinality(s) - 1
    BY <1>1, <1>2, GreatestOf, FS_RemoveElement
  <1> HIDE DEF D
  <1>3. ASSUME NEW h \in [SUBSET D -> R], NEW s \in SUBSET D PROVE Body(h, s) \in R
    BY <1>2 DEF D
  <1>4. 0 \in K
    <2> DEFINE h == [s \in SUBSET D |-> base]
    <2>1. Upto(h, 0)
      BY <1>1, FS_EmptySet
    <2> QED BY <2>1
  <1>5. ASSUME NEW k \in K PROVE k + 1 \in K
    <2>1. PICK h \in [SUBSET D -> R] : Upto(h, k)
      OBVIOUS
    <2> DEFINE j == [s \in SUBSET D |-> IF Cardinality(s) <= k THEN h[s] ELSE Body(h, s)]
    <2>2. ASSUME NEW s \in SUBSET D, Cardinality(s) <= k + 1 PROVE j[s] = Body(j, s)
      <3>1. j[s] = Body(h, s)
        BY <2>1
      <3>2. CASE s = {}
        BY <3>1, <3>2
      <3>3. CASE s # {}
        <4>1. j[s \ {Max(s)}] = h[s \ {Max(s)}]
          BY <1>1, <1>2, <2>2, <3>3
        <4> QED BY <3>1, <3>3, <4>1
      <3> QED BY <3>2, <3>3
    <2>3. Upto(j, k + 1)
      BY <2>2
    <2>4. j \in [SUBSET D -> R]
      <3> HIDE DEF Body
      <3> QED BY <1>3
    <2> HIDE DEF j, Upto
    <2> QED BY <2>3, <2>4
  <1>6. Nat \subseteq K
    <2> HIDE DEF K
    <2>1. K \in SUBSET Nat
      BY DEF K
    <2> QED BY <1>4, <1>5, <2>1, NaturalsFrom0
  <1>7. PICK h \in [SUBSET D -> R] : Upto(h, Cardinality(D))
    BY <1>1, <1>6
  <1>8. ASSUME NEW s \in SUBSET D PROVE h[s] = Body(h, s)
    <2>1. Cardinality(s) <= Cardinality(D)
      BY <1>1, FS_Subset
    <2> QED BY <1>7, <2>1
  <1>9. FoldIs(n, R, base, F, h)
    BY <1>8 DEF D, FoldIs
  <1> QED BY <1>9
-------------------------------------------------------------------------------
\* The receiver's table after a packet.
LEMMA UpdateIs ==
  ASSUME NEW table \in Tables, NEW w \in Seq(Packets), NEW i \in 1..Len(w)
  PROVE  /\ Update(table, w[i]) \in Tables
         /\ \A a \in Aliases :
              Update(table, w[i])[a] = IF Gives(w, i, a) THEN w[i].topic ELSE table[a]
  <1>1. w[i] \in Packets
    OBVIOUS
  <1> DEFINE p == w[i]
  <1>2. p.topic \in Topics \cup {NoTopic} /\ p.alias \in 0..AliasMax /\ AliasMax \in Nat
    BY <1>1, AliasAssumption DEF Packets
  <1>3. p.alias # 0 => p.alias \in Aliases
    BY <1>2 DEF Aliases
  <1>4. \A a : Gives(w, i, a) <=> p.alias = a /\ p.topic # NoTopic
    BY DEF Gives
  <1>5. \A a \in Aliases : a # 0
    BY <1>2 DEF Aliases
  <1> HIDE DEF p
  <1>6. Update(table, p) \in Tables
    BY <1>2, <1>3 DEF Update, Tables
  <1>7. ASSUME NEW a \in Aliases
        PROVE  Update(table, p)[a] = IF Gives(w, i, a) THEN p.topic ELSE table[a]
    BY <1>2, <1>3, <1>4, <1>5 DEF Update, Tables
  <1> QED BY <1>6, <1>7 DEF p

\* The receiver's table after a sequence of packets says what the packets say.
Arriving(table, q, g) ==
  g = [s \in SUBSET DOMAIN q |-> IF s = {} THEN table ELSE Update(g[s \ {Max(s)}], q[Max(s)])]

\* It is defined, and says of each alias what the packets and the old table say.
LEMMA AfterAll ==
  ASSUME NEW table \in Tables, NEW q \in Seq(Packets)
  PROVE  /\ FoldLeft(Update, table, q) \in Tables
         /\ \A a \in Aliases : Says(table, q, 1..Len(q), a, FoldLeft(Update, table, q)[a])
  <1> DEFINE n == Len(q)
             D == 1..n
             g == CHOOSE h : Arriving(table, q, h)
  <1>1. D = DOMAIN q /\ n \in Nat
    OBVIOUS
  <1>2. FoldLeft(Update, table, q) = g[D]
    BY DEF FoldLeft, MapThenFoldSet, Arriving
  <1>3. \E h : Arriving(table, q, h)
    <2> DEFINE F == [x \in Tables \X D |-> Update(x[1], q[x[2]])]
    <2>1. F \in [Tables \X D -> Tables]
      BY UpdateIs
    <2> HIDE DEF F
    <2>0. PICK h : FoldIs(n, Tables, table, F, h)
      BY <1>1, <2>1, FoldExists
    <2>2. /\ h \in [SUBSET D -> Tables]
          /\ \A s \in SUBSET D :
               h[s] = IF s = {} THEN table ELSE F[<<h[s \ {Max(s)}], Max(s)>>]
      BY <2>0 DEF FoldIs
    <2>3. ASSUME NEW s \in SUBSET D
          PROVE  h[s] = IF s = {} THEN table ELSE Update(h[s \ {Max(s)}], q[Max(s)])
      <3>1. CASE s = {}
        BY <2>2, <3>1
      <3>2. CASE s # {}
        <4>1. Max(s) \in D /\ h[s \ {Max(s)}] \in Tables
          BY <1>1, <2>2, <3>2, GreatestOf
        <4> QED BY <2>2, <3>2, <4>1 DEF F
      <3> QED BY <3>1, <3>2
    <2> QED BY <1>1, <2>2, <2>3 DEF Arriving
  <1>4. Arriving(table, q, g)
    BY <1>3
  <1> HIDE DEF g
  <1>5. g[{}] = table /\ \A s \in SUBSET D : s # {} => g[s] = Update(g[s \ {Max(s)}], q[Max(s)])
    BY <1>1, <1>4 DEF Arriving
  <1> DEFINE B == {s \in SUBSET D : g[s] \in Tables
                                    /\ \A a \in Aliases : Says(table, q, s, a, g[s][a])}
  <1>6. {} \in B
    BY <1>5 DEF Says
  <1>7. ASSUME NEW s \in SUBSET D, s # {}, s \ {Max(s)} \in B PROVE s \in B
    <2> DEFINE k == Max(s)
               r == s \ {k}
    <2>1. k \in s /\ \A i \in s : i <= k
      BY <1>1, <1>7, GreatestOf
    <2>2. g[s] = Update(g[r], q[k])
      BY <1>5, <1>7
    <2> HIDE DEF k
    <2>3. g[r] \in Tables /\ \A a \in Aliases : Says(table, q, r, a, g[r][a])
      BY <1>7 DEF k
    <2>4. g[s] \in Tables
          /\ \A a \in Aliases : g[s][a] = IF Gives(q, k, a) THEN q[k].topic ELSE g[r][a]
      <3> DEFINE u == g[r]
      <3>1. u \in Tables /\ k \in 1..Len(q) /\ g[s] = Update(u, q[k])
        BY <2>1, <2>2, <2>3
      <3> HIDE DEF u
      <3>2. Update(u, q[k]) \in Tables
            /\ \A a \in Aliases :
                 Update(u, q[k])[a] = IF Gives(q, k, a) THEN q[k].topic ELSE u[a]
        BY <3>1, UpdateIs
      <3> QED BY <3>1, <3>2 DEF u
    <2>5. ASSUME NEW a \in Aliases PROVE Says(table, q, s, a, g[s][a])
      <3>1. CASE Gives(q, k, a)
        BY <2>1, <2>4, <3>1 DEF Says
      <3>2. CASE ~Gives(q, k, a)
        <4>1. Says(table, q, r, a, g[s][a])
          BY <2>3, <2>4, <3>2
        <4>2. \A i : i \in s <=> i \in r \/ i = k
          BY <2>1
        <4> HIDE DEF r
        <4> QED BY <3>2, <4>1, <4>2 DEF Says
      <3> QED BY <3>1, <3>2
    <2> QED BY <2>4, <2>5
  <1>8. D \in B
    <2> HIDE DEF B
    <2>1. \A s \in SUBSET (1..n) : s # {} /\ s \ {Max(s)} \in B => s \in B
      BY <1>7
    <2> QED BY <1>1, <1>6, <2>1, FoldStays
  <1> QED BY <1>2, <1>8

\* send_publish_from_queue: the packets that were kept back are sent, or there is no room.
Flushing(ms, base, q, g) ==
  g = [s \in SUBSET DOMAIN q |->
        IF s = {} THEN base ELSE SendQueued(ms, g[s \ {Max(s)}], q[Max(s)])]

\* The packets go out with the table as it is left, and nothing is lost from the store.
LEMMA Flushes ==
  ASSUME NEW ms, NEW table, NEW s0, Good(ms, table, s0), mode \in {"manual", "map", "replace"}
  PROVE  Good(ms, table, Flush(ms, s0)) /\ Flush(ms, s0).stored = s0.stored
  <1>0. CASE s0.count = Maximum
    BY <1>0 DEF Flush
  <1> SUFFICES ASSUME s0.count # Maximum
               PROVE  Good(ms, table, Flush(ms, s0)) /\ Flush(ms, s0).stored = s0.stored
    BY <1>0
  <1> DEFINE q == s0.queue
             base == [s0 EXCEPT !.queue = <<>>]
             n == Len(q)
             D == 1..n
             g == CHOOSE h : Flushing(ms, base, q, h)
             R == {t \in Senders : /\ Good(ms, table, t) /\ t.stored = s0.stored
                                   /\ s0.spoiled => t.spoiled}
  <1>1. s0 \in Senders /\ Mapped(s0) /\ AllMeant(ms, s0)
    BY DEF Good, Sound
  <1>2. D = DOMAIN q /\ n \in Nat /\ q \in Seq(Packets)
    BY <1>1, SenderIs
  <1>3. Flush(ms, s0) = g[D]
    BY <1>2 DEF Flush, FoldLeft, MapThenFoldSet, Flushing
  <1>4. base \in R
    <2>1. /\ base.max = s0.max /\ base.used = s0.used /\ base.count = s0.count
          /\ base.queue = <<>> /\ base.wire = s0.wire /\ base.stored = s0.stored
          /\ base.spoiled = s0.spoiled /\ base.entries = s0.entries /\ base \in Senders
      <3> DEFINE e == <<>>
      <3>1. e \in Seq(Packets) /\ base = [s0 EXCEPT !.queue = e]
        OBVIOUS
      <3> HIDE DEF e, base
      <3>2. /\ base.max = s0.max /\ base.used = s0.used /\ base.count = s0.count
            /\ base.queue = e /\ base.wire = s0.wire /\ base.stored = s0.stored
            /\ base.spoiled = s0.spoiled /\ base.entries = s0.entries /\ base \in Senders
        BY <1>1, <3>1 DEF Senders
      <3> QED BY <3>2 DEF e
    <2> HIDE DEF base
    <2>2. Sound(ms, base)
      BY <1>1, <2>1 DEF Sound, Mapped, AllMeant
    <2>3. base.spoiled \/ (Agree(ms, table, base.entries, base.wire) /\ Unaliased(base))
      BY <2>1 DEF Good, Unaliased
    <2> QED BY <2>1, <2>2, <2>3 DEF Good
  <1> HIDE DEF base
  <1>5. ASSUME NEW t \in R, NEW i \in D PROVE SendQueued(ms, t, q[i]) \in R
    <2>1. q[i] \in Packets /\ Meant(ms, q[i])
      BY <1>1, <1>2 DEF AllMeant
    <2>2. q[i] \in Asked
      BY <2>1, AliasAssumption DEF Packets, Asked
    <2>3. t.spoiled \/ KnownAs(ms, t, q[i])
      <3>1. CASE s0.spoiled
        BY <3>1
      <3>2. CASE ~s0.spoiled
        <4>1. q[i].alias = 0
          BY <3>2 DEF Good, Unaliased
        <4> QED BY <2>1, <4>1 DEF Meant, KnownAs
      <3> QED BY <3>1, <3>2
    <2> DEFINE r == SendQueued(ms, t, q[i])
    <2>4. Good(ms, table, r) /\ r.stored = t.stored /\ (t.spoiled => r.spoiled)
      BY <2>1, <2>2, <2>3, Sends
    <2>5. r \in Senders
      BY <2>4 DEF Good, Sound
    <2> HIDE DEF r
    <2> QED BY <2>4, <2>5 DEF r
  <1> HIDE DEF R
  <1>6. \E h : Flushing(ms, base, q, h)
    <2> DEFINE F == [x \in R \X D |-> SendQueued(ms, x[1], q[x[2]])]
    <2>1. F \in [R \X D -> R]
      BY <1>5
    <2> HIDE DEF F
    <2>0. PICK h : FoldIs(n, R, base, F, h)
      BY <1>2, <1>4, <2>1, FoldExists
    <2>2. /\ h \in [SUBSET D -> R]
          /\ \A s \in SUBSET D :
               h[s] = IF s = {} THEN base ELSE F[<<h[s \ {Max(s)}], Max(s)>>]
      BY <2>0 DEF FoldIs
    <2>3. ASSUME NEW s \in SUBSET D
          PROVE  h[s] = IF s = {} THEN base ELSE SendQueued(ms, h[s \ {Max(s)}], q[Max(s)])
      <3>1. CASE s = {}
        BY <2>2, <3>1
      <3>2. CASE s # {}
        <4>1. Max(s) \in D /\ h[s \ {Max(s)}] \in R
          BY <1>2, <2>2, <3>2, GreatestOf
        <4> QED BY <2>2, <3>2, <4>1 DEF F
      <3> QED BY <3>1, <3>2
    <2> HIDE DEF q, n, D
    <2>4. h = [s \in SUBSET D |->
                IF s = {} THEN base ELSE SendQueued(ms, h[s \ {Max(s)}], q[Max(s)])]
      BY <2>2, <2>3
    <2> QED BY <1>2, <2>4 DEF Flushing
  <1>7. Flushing(ms, base, q, g)
    BY <1>6
  <1> HIDE DEF g
  <1>8. /\ g[{}] = base
        /\ \A s \in SUBSET D : s # {} => g[s] = SendQueued(ms, g[s \ {Max(s)}], q[Max(s)])
    BY <1>2, <1>7 DEF Flushing
  <1> DEFINE B == {s \in SUBSET D : g[s] \in R}
  <1>9. {} \in B
    BY <1>4, <1>8
  <1>10. ASSUME NEW s \in SUBSET D, s # {}, s \ {Max(s)} \in B PROVE s \in B
    <2>1. Max(s) \in D
      BY <1>2, <1>10, GreatestOf
    <2> QED BY <1>5, <1>8, <1>10, <2>1
  <1>11. D \in B
    <2> HIDE DEF B
    <2>1. \A s \in SUBSET (1..n) : s # {} /\ s \ {Max(s)} \in B => s \in B
      BY <1>10
    <2> QED BY <1>2, <1>9, <2>1, FoldStays
  <1> QED BY <1>3, <1>11 DEF R

\* A connection starts with no entries, and the stored packets are sent on it.
Restoring(ms, base, q, g) ==
  g = [s \in SUBSET DOMAIN q |->
        IF s = {} THEN base ELSE Resend(ms, g[s \ {Max(s)}], q[Max(s)])]
Restored(ms, max, q) == FoldLeft(LAMBDA s, p : Resend(ms, s, p), Sender(max, q), q)

\* Each of them has its topic and needs no alias.
LEMMA Restores ==
  ASSUME NEW ms, NEW table, NEW q \in Seq(Packets), NEW max \in Aliases,
         \A i \in 1..Len(q) : Meant(ms, q[i]) /\ q[i].alias = 0,
         mode \in {"manual", "map", "replace"}
  PROVE  Good(ms, table, Restored(ms, max, q)) /\ Restored(ms, max, q).stored = q
  <1> DEFINE base == Sender(max, q)
             n == Len(q)
             D == 1..n
             g == CHOOSE h : Restoring(ms, base, q, h)
             R == {t \in Senders : Good(ms, table, t) /\ t.stored = q}
  <1>2. D = DOMAIN q /\ n \in Nat
    OBVIOUS
  <1>3. Restored(ms, max, q) = g[D]
    BY <1>2 DEF Restored, FoldLeft, MapThenFoldSet, Restoring
  <1>4. base \in R
    <2>1. /\ base.max = max /\ base.used = {} /\ base.count = 0
          /\ base.queue = <<>> /\ base.wire = <<>> /\ base.stored = q
          /\ base.spoiled = FALSE /\ base.entries = <<>> /\ base \in Senders
      BY DEF Senders, Sender, Wrap
    <2> HIDE DEF base
    <2>2. Sound(ms, base)
      BY <2>1 DEF Sound, Mapped, AllMeant, Distinct
    <2>3. Agree(ms, table, base.entries, base.wire) /\ Unaliased(base)
      BY <2>1 DEF Agree, Unaliased
    <2> QED BY <2>1, <2>2, <2>3 DEF Good
  <1> HIDE DEF base
  <1>5. ASSUME NEW t \in R, NEW i \in D PROVE Resend(ms, t, q[i]) \in R
    <2>1. q[i] \in Packets /\ Meant(ms, q[i]) /\ q[i].alias = 0
      OBVIOUS
    <2> DEFINE r == Resend(ms, t, q[i])
    <2>4. Good(ms, table, r) /\ r.stored = t.stored
      BY <2>1, Resends
    <2>5. r \in Senders
      BY <2>4 DEF Good, Sound
    <2> HIDE DEF r
    <2> QED BY <2>4, <2>5 DEF r
  <1> HIDE DEF R
  <1>6. \E h : Restoring(ms, base, q, h)
    <2> DEFINE F == [x \in R \X D |-> Resend(ms, x[1], q[x[2]])]
    <2>1. F \in [R \X D -> R]
      BY <1>5
    <2> HIDE DEF F
    <2>0. PICK h : FoldIs(n, R, base, F, h)
      BY <1>2, <1>4, <2>1, FoldExists
    <2>2. /\ h \in [SUBSET D -> R]
          /\ \A s \in SUBSET D :
               h[s] = IF s = {} THEN base ELSE F[<<h[s \ {Max(s)}], Max(s)>>]
      BY <2>0 DEF FoldIs
    <2>3. ASSUME NEW s \in SUBSET D
          PROVE  h[s] = IF s = {} THEN base ELSE Resend(ms, h[s \ {Max(s)}], q[Max(s)])
      <3>1. CASE s = {}
        BY <2>2, <3>1
      <3>2. CASE s # {}
        <4>1. Max(s) \in D /\ h[s \ {Max(s)}] \in R
          BY <1>2, <2>2, <3>2, GreatestOf
        <4> QED BY <2>2, <3>2, <4>1 DEF F
      <3> QED BY <3>1, <3>2
    <2> QED BY <1>2, <2>2, <2>3 DEF Restoring
  <1>7. Restoring(ms, base, q, g)
    BY <1>6
  <1> HIDE DEF g
  <1>8. /\ g[{}] = base
        /\ \A s \in SUBSET D : s # {} => g[s] = Resend(ms, g[s \ {Max(s)}], q[Max(s)])
    BY <1>2, <1>7 DEF Restoring
  <1> DEFINE B == {s \in SUBSET D : g[s] \in R}
  <1>9. {} \in B
    BY <1>4, <1>8
  <1>10. ASSUME NEW s \in SUBSET D, s # {}, s \ {Max(s)} \in B PROVE s \in B
    <2>1. Max(s) \in D
      BY <1>2, <1>10, GreatestOf
    <2> QED BY <1>5, <1>8, <1>10, <2>1
  <1>11. D \in B
    <2> HIDE DEF B
    <2>1. \A s \in SUBSET (1..n) : s # {} /\ s \ {Max(s)} \in B => s \in B
      BY <1>10
    <2> QED BY <1>2, <1>9, <2>1, FoldStays
  <1>12. Good(ms, table, g[D]) /\ g[D].stored = q
    BY <1>11 DEF R
  <1> HIDE DEF g
  <1> QED BY <1>3, <1>12
-------------------------------------------------------------------------------
\* The messages that were published.
Messages == [topic : Topics, qos : {0, 1}, room : Rooms]

\* Every action keeps this.
Inv ==
  /\ mode \in Modes /\ next = Len(message) + 1 /\ next <= N + 1 /\ downs \in 0..MaxDowns
  /\ message \in Seq(Messages)
  /\ rcv.table \in Tables /\ rcv.pending \subseteq 1..Len(message)
  /\ Sound(message, snd)
  /\ link = "up" => Good(message, rcv.table, snd)
  /\ link = "topic_alias_invalid" => snd.spoiled

\* The modes of the sender, and the bounds.
LEMMA ModeIs == ASSUME Inv PROVE mode \in {"manual", "map", "replace"}
  BY AliasAssumption DEF Inv

\* One more message does not make the others' packets wrong.
LEMMA MoreMessages ==
  ASSUME NEW ms \in Seq(Messages), NEW x \in Messages, NEW table, NEW s
  PROVE  /\ Append(ms, x) \in Seq(Messages) /\ Len(Append(ms, x)) = Len(ms) + 1
         /\ Append(ms, x)[Len(ms) + 1] = x /\ Len(ms) \in Nat
         /\ Sound(ms, s) => Sound(Append(ms, x), s)
         /\ Good(ms, table, s) => Good(Append(ms, x), table, s)
  <1> DEFINE ns == Append(ms, x)
  <1>1. ns \in Seq(Messages) /\ Len(ns) = Len(ms) + 1 /\ ns[Len(ms) + 1] = x /\ Len(ms) \in Nat
        /\ \A i \in 1..Len(ms) : ns[i] = ms[i] /\ i \in 1..Len(ns)
    OBVIOUS
  <1> HIDE DEF ns
  <1>2. \A p : Meant(ms, p) => Meant(ns, p) /\ ns[p.m] = ms[p.m]
    BY <1>1 DEF Meant
  <1>3. Sound(ms, s) => Sound(ns, s)
    BY <1>2 DEF Sound, AllMeant
  <1>4. ASSUME Good(ms, table, s) PROVE Good(ns, table, s)
    <2>1. \A i \in 1..Len(s.wire) : ns[s.wire[i].m] = ms[s.wire[i].m]
      BY <1>2, <1>4 DEF Good, Sound, AllMeant
    <2> QED BY <1>3, <1>4, <2>1 DEF Good, Agree
  <1> QED BY <1>1, <1>3, <1>4 DEF ns

\* The entries in another order.
LEMMA TouchIsGood ==
  ASSUME NEW ms, NEW table, NEW s, Good(ms, table, s), NEW k \in 1..Len(s.entries)
  PROVE  Good(ms, table, Touch(s, s.entries[k].alias))
  <1> DEFINE r == Touch(s, s.entries[k].alias)
  <1>1. s \in Senders /\ Mapped(s) /\ AllMeant(ms, s)
    BY DEF Good, Sound
  <1>2. /\ r \in Senders /\ Mapped(r) /\ r.queue = s.queue
        /\ r.wire = s.wire /\ r.stored = s.stored /\ r.spoiled = s.spoiled
        /\ \A i \in 1..Len(r.entries) : \E j \in 1..Len(s.entries) : r.entries[i] = s.entries[j]
    BY <1>1, TouchIs
  <1> HIDE DEF r
  <1>3. Sound(ms, r)
    BY <1>1, <1>2 DEF Sound, AllMeant
  <1>4. r.spoiled \/ (Agree(ms, table, r.entries, r.wire) /\ Unaliased(r))
    <2>1. CASE ~s.spoiled
      <3>1. Agree(ms, table, s.entries, s.wire) /\ Unaliased(s)
        BY <2>1 DEF Good
      <3>2. \A i \in 1..Len(r.entries) :
              Says(table, r.wire, 1..Len(r.wire), r.entries[i].alias, r.entries[i].topic)
        BY <1>2, <3>1 DEF Agree
      <3> QED BY <1>2, <3>1, <3>2 DEF Agree, Unaliased
    <2>2. CASE s.spoiled
      BY <1>2, <2>2
    <2> QED BY <2>1, <2>2
  <1>5. Good(ms, table, r)
    BY <1>3, <1>4 DEF Good
  <1> QED BY <1>5 DEF r

\* A packet more in the store, with its topic and without an alias.
LEMMA StoreIsGood ==
  ASSUME NEW ms, NEW table, NEW s, Good(ms, table, s), NEW v \in Seq(Packets),
         \A i \in 1..Len(v) : Meant(ms, v[i]) /\ v[i].alias = 0
  PROVE  Good(ms, table, [s EXCEPT !.stored = v])
  <1> DEFINE r == [s EXCEPT !.stored = v]
  <1>1. s \in Senders /\ Mapped(s) /\ AllMeant(ms, s)
    BY DEF Good, Sound
  <1>2. /\ r.max = s.max /\ r.used = s.used /\ r.count = s.count /\ r.queue = s.queue
        /\ r.wire = s.wire /\ r.stored = v /\ r.spoiled = s.spoiled /\ r.entries = s.entries
        /\ r \in Senders
    BY <1>1 DEF Senders
  <1> HIDE DEF r
  <1>3. Sound(ms, r)
    BY <1>1, <1>2 DEF Sound, Mapped, AllMeant
  <1>4. r.spoiled \/ (Agree(ms, table, r.entries, r.wire) /\ Unaliased(r))
    BY <1>2 DEF Good, Unaliased
  <1>5. Good(ms, table, r)
    BY <1>3, <1>4 DEF Good
  <1> QED BY <1>5 DEF r

\* The initial state.
LEMMA AtFirst == ASSUME Init PROVE Inv
  <1>1. PICK x \in Aliases : snd = Sender(x, <<>>)
    BY DEF Init
  <1>2. /\ snd.max = x /\ snd.used = {} /\ snd.count = 0
        /\ snd.queue = <<>> /\ snd.wire = <<>> /\ snd.stored = <<>>
        /\ snd.spoiled = FALSE /\ snd.entries = <<>> /\ snd \in Senders
    BY <1>1 DEF Senders, Sender, Wrap
  <1>3. Sound(message, snd) /\ Agree(message, rcv.table, snd.entries, snd.wire) /\ Unaliased(snd)
    BY <1>2 DEF Sound, Mapped, AllMeant, Distinct, Agree, Unaliased
  <1>4. rcv.table \in Tables /\ rcv.pending = {}
    BY DEF Init, Receiver, Tables
  <1>5. message = <<>> /\ message \in Seq(Messages) /\ Len(message) = 0
    BY DEF Init
  <1> QED BY <1>3, <1>4, <1>5, AliasAssumption DEF Init, Inv, Good

\* What is published is sent, kept back or refused, and stored with its topic.
LEMMA PublishKeeps ==
  ASSUME Inv, NEW t \in Topics \cup {NoTopic}, NEW a \in 0..(AliasMax + 1), NEW q \in {0, 1},
         NEW room \in Rooms, Publish(t, a, q, room)
  PROVE  Inv'
  <1> DEFINE p == Packet(next, t, a)
             x == [topic |-> TopicOf(snd, p), qos |-> q, room |-> room]
             ms == Append(message, x)
             one == IF t = NoTopic THEN Touch(snd, a) ELSE snd
             v == IF q = 0 THEN one.stored ELSE Append(one.stored, Plain(snd, p))
             kept == [one EXCEPT !.stored = v]
  <1>1. /\ link = "up" /\ next <= N /\ (t # NoTopic \/ Valid(snd, p))
        /\ next' = next + 1 /\ message' = ms /\ snd' = Send(ms, kept, p)
        /\ mode' = mode /\ rcv' = rcv /\ link' = link /\ downs' = downs
    BY DEF Publish
  <1>2. Good(message, rcv.table, snd) /\ snd \in Senders /\ Mapped(snd)
    BY <1>1 DEF Inv, Good, Sound
  <1>3. p.m = next /\ p.topic = t /\ p.alias = a
    BY DEF Packet
  <1>4. ASSUME t = NoTopic
        PROVE  \E k \in 1..Len(snd.entries) :
                 snd.entries[k].alias = a /\ snd.entries[k].topic = TopicOf(snd, p)
    <2>1. Entry(snd, a) # {}
      BY <1>1, <1>3, <1>4 DEF Valid
    <2>2. (CHOOSE e \in Entry(snd, a) : TRUE) \in Entry(snd, a)
      BY <2>1
    <2>3. TopicOf(snd, p) = (CHOOSE e \in Entry(snd, a) : TRUE).topic
      BY <1>3, <1>4 DEF TopicOf
    <2>4. DOMAIN snd.entries = 1..Len(snd.entries)
      BY <1>2, SenderIs
    <2> QED BY <2>2, <2>3, <2>4 DEF Entry, Elements
  <1>5. TopicOf(snd, p) \in Topics /\ (t = NoTopic => a # 0)
        /\ (t # NoTopic => TopicOf(snd, p) = t)
    <2>1. CASE t = NoTopic
      BY <1>2, <1>4, <2>1, EntriesAre DEF Pairs
    <2>2. CASE t # NoTopic
      BY <1>3, <2>2 DEF TopicOf
    <2> QED BY <2>1, <2>2
  <1>6. x \in Messages /\ x.topic = TopicOf(snd, p)
    BY <1>5 DEF Messages
  <1> HIDE DEF p, x
  <1>7. /\ ms \in Seq(Messages) /\ Len(ms) = Len(message) + 1 /\ ms[Len(message) + 1] = x
        /\ Len(message) \in Nat /\ Good(ms, rcv.table, snd)
    BY <1>2, <1>6, MoreMessages DEF Inv
  <1>8. next = Len(message) + 1 /\ ms[next].topic = TopicOf(snd, p) /\ next \in 1..Len(ms)
        /\ next \in Nat
    BY <1>6, <1>7 DEF Inv
  <1> HIDE DEF ms
  <1>9. p \in Asked /\ Meant(ms, p)
    <2>1. AliasMax \in Nat
      BY AliasAssumption
    <2>2. p \in Asked
      BY <1>8, <2>1 DEF Asked, p, Packet
    <2> QED BY <1>3, <1>5, <1>8, <2>2 DEF Meant
  <1>10. /\ Good(ms, rcv.table, one) /\ one.stored = snd.stored
         /\ t = NoTopic => \E k \in 1..Len(one.entries) :
              one.entries[k].alias = a /\ one.entries[k].topic = TopicOf(snd, p)
    <2>1. CASE t = NoTopic
      <3>1. PICK k \in 1..Len(snd.entries) :
              snd.entries[k].alias = a /\ snd.entries[k].topic = TopicOf(snd, p)
        BY <1>4, <2>1
      <3> DEFINE r == Touch(snd, snd.entries[k].alias)
      <3>2. Good(ms, rcv.table, r)
        BY <1>7, TouchIsGood
      <3>3. r.stored = snd.stored /\ \E i \in 1..Len(r.entries) : r.entries[i] = snd.entries[k]
        BY <1>2, TouchIs
      <3>4. one = r
        BY <2>1, <3>1
      <3> HIDE DEF one, r
      <3> QED BY <3>1, <3>2, <3>3, <3>4
    <2>2. CASE t # NoTopic
      BY <1>7, <2>2
    <2> QED BY <2>1, <2>2
  <1>11. /\ v \in Seq(Packets)
         /\ \A i \in 1..Len(v) : Meant(ms, v[i]) /\ v[i].alias = 0
    <2>1. one.stored \in Seq(Packets)
          /\ \A i \in 1..Len(one.stored) : Meant(ms, one.stored[i]) /\ one.stored[i].alias = 0
      BY <1>10, SenderIs DEF Good, Sound, AllMeant
    <2> DEFINE plain == Plain(snd, p)
    <2>2. plain \in Packets /\ Meant(ms, plain) /\ plain.alias = 0
      <3>1. plain = [m |-> next, topic |-> TopicOf(snd, p), alias |-> 0]
        BY <1>3 DEF Plain, Packet
      <3>2. plain \in Packets
        BY <1>5, <1>8, <3>1, AliasAssumption DEF Packets
      <3>3. TopicOf(snd, p) # NoTopic
        BY <1>5, AliasAssumption
      <3> QED BY <1>8, <3>1, <3>2, <3>3 DEF Meant
    <2> HIDE DEF one, plain
    <2>3. CASE q = 0
      BY <2>1, <2>3
    <2>4. CASE q # 0
      <3> DEFINE u == one.stored
      <3>0. v = Append(u, plain)
        BY <2>4 DEF plain
      <3>1. /\ Append(u, plain) \in Seq(Packets)
            /\ \A i \in 1..Len(Append(u, plain)) : Meant(ms, Append(u, plain)[i])
            /\ \A i \in 1..Len(Append(u, plain)) :
                 Append(u, plain)[i] = plain \/ \E j \in 1..Len(u) : Append(u, plain)[i] = u[j]
        <4> HIDE DEF u
        <4>1. u \in Seq(Packets) /\ \A i \in 1..Len(u) : Meant(ms, u[i])
          BY <2>1 DEF u
        <4> QED BY <2>2, <4>1, OneMoreMeant
      <3> HIDE DEF v
      <3> QED BY <2>1, <2>2, <3>0, <3>1
    <2> QED BY <2>3, <2>4
  <1> HIDE DEF v
  <1>12. Good(ms, rcv.table, kept) /\ kept.entries = one.entries
    <2> HIDE DEF one
    <2>1. one \in Senders
      BY <1>10 DEF Good, Sound
    <2>2. kept.entries = one.entries
      BY <2>1 DEF Senders
    <2> QED BY <1>10, <1>11, <2>2, StoreIsGood
  <1> HIDE DEF one, kept
  <1>13. KnownAs(ms, kept, p)
    BY <1>3, <1>8, <1>10, <1>12 DEF KnownAs
  <1>14. Good(ms, rcv.table, Send(ms, kept, p))
    BY <1>9, <1>12, <1>13, ModeIs, Sends
  <1>15. rcv.pending \subseteq 1..Len(ms)
    BY <1>7 DEF Inv
  <1>16. next' = Len(message') + 1 /\ next' <= N + 1
    <2>1. N \in Nat
      BY AliasAssumption
    <2> QED BY <1>1, <1>7, <1>8, <2>1
  <1> QED BY <1>1, <1>7, <1>14, <1>15, <1>16 DEF Inv, Good
-------------------------------------------------------------------------------
\* The first packet arrives: what is told of is the same.
LEMMA SaysLess ==
  ASSUME NEW table \in Tables, NEW w \in Seq(Packets), Len(w) # 0, NEW k \in 1..Len(w),
         NEW a \in Aliases, NEW t, Says(table, w, 1..k, a, t)
  PROVE  Says(Update(table, w[1]), Tail(w), 1..(k - 1), a, t)
  <1> DEFINE v == Tail(w)
             new == Update(table, w[1])
  <1>1. Len(w) \in Nat /\ 1 \in 1..Len(w) /\ Len(v) = Len(w) - 1
        /\ \A i \in 1..(Len(w) - 1) : v[i] = w[i + 1]
    OBVIOUS
  <1>2. new[a] = IF Gives(w, 1, a) THEN w[1].topic ELSE table[a]
    BY <1>1, UpdateIs
  <1> HIDE DEF v, new
  <1>3. \A i \in 1..(k - 1) : i + 1 \in 1..k /\ v[i] = w[i + 1]
                              /\ (Gives(v, i, a) <=> Gives(w, i + 1, a))
    BY <1>1 DEF Gives
  <1>4. \A i \in 1..k : i = 1 \/ (i - 1 \in 1..(k - 1) /\ (i - 1) + 1 = i)
    BY <1>1
  <1>5. ASSUME \E i \in 1..k : /\ Gives(w, i, a) /\ w[i].topic = t
                               /\ \A j \in 1..k : Gives(w, j, a) => j <= i
        PROVE  Says(new, v, 1..(k - 1), a, t)
    <2>1. PICK i \in 1..k : /\ Gives(w, i, a) /\ w[i].topic = t
                            /\ \A j \in 1..k : Gives(w, j, a) => j <= i
      BY <1>5
    <2>2. CASE i = 1
      <3>1. \A j \in 1..(k - 1) : ~Gives(v, j, a)
        <4> SUFFICES ASSUME NEW j \in 1..(k - 1), Gives(v, j, a) PROVE FALSE
          OBVIOUS
        <4>1. j + 1 <= 1
          BY <1>3, <2>1, <2>2
        <4> QED BY <4>1
      <3> QED BY <1>2, <2>1, <2>2, <3>1 DEF Says
    <2>3. CASE i # 1
      <3>1. i - 1 \in 1..(k - 1) /\ (i - 1) + 1 = i
        BY <1>4, <2>3
      <3>2. Gives(v, i - 1, a) /\ v[i - 1].topic = t
        BY <1>3, <2>1, <3>1
      <3>3. ASSUME NEW j \in 1..(k - 1), Gives(v, j, a) PROVE j <= i - 1
        <4>1. j + 1 <= i
          BY <1>3, <2>1, <3>3
        <4> QED BY <4>1, <1>1
      <3> QED BY <3>1, <3>2, <3>3 DEF Says
    <2> QED BY <2>2, <2>3
  <1>6. ASSUME \A i \in 1..k : ~Gives(w, i, a), table[a] = t
        PROVE  Says(new, v, 1..(k - 1), a, t)
    <2>1. 1 \in 1..k
      BY <1>1
    <2> QED BY <1>2, <1>3, <1>6, <2>1 DEF Says
  <1>7. Says(new, v, 1..(k - 1), a, t)
    BY <1>5, <1>6 DEF Says
  <1> QED BY <1>7 DEF new, v

\* Without any packet the table says what is in it.
LEMMA SaysNone ==
  ASSUME NEW table, NEW w, NEW a, NEW t, Says(table, w, 1..0, a, t)
  PROVE  table[a] = t
  <1>1. \A i \in 1..0 : FALSE
    OBVIOUS
  <1> QED BY <1>1 DEF Says

\* A packet has arrived and the table was updated.
LEMMA ArrivesGood ==
  ASSUME NEW ms, NEW table \in Tables, NEW s, Sound(ms, s), Len(s.wire) # 0
  PROVE  LET r == [s EXCEPT !.wire = Tail(@)]
         IN  /\ Sound(ms, r) /\ r.spoiled = s.spoiled
             /\ Good(ms, table, s) => Good(ms, Update(table, s.wire[1]), r)
  <1> DEFINE w == s.wire
             v == Tail(w)
             r == [s EXCEPT !.wire = Tail(@)]
  <1>1. s \in Senders /\ Mapped(s) /\ AllMeant(ms, s)
    BY DEF Sound
  <1>2. w \in Seq(Packets) /\ Len(w) \in Nat
    BY <1>1, SenderIs
  <1>3. v \in Seq(Packets) /\ Len(v) = Len(w) - 1 /\ \A i \in 1..Len(v) : v[i] = w[i + 1]
    BY <1>2
  <1>4. r = [s EXCEPT !.wire = v]
    BY <1>1 DEF Senders
  <1>5. \A i \in 1..Len(v) : i + 1 \in 1..Len(w)
    BY <1>2, <1>3
  <1> HIDE DEF v, r
  <1>6. /\ r.max = s.max /\ r.used = s.used /\ r.count = s.count /\ r.queue = s.queue
        /\ r.wire = v /\ r.stored = s.stored /\ r.spoiled = s.spoiled /\ r.entries = s.entries
        /\ r \in Senders
    BY <1>1, <1>3, <1>4 DEF Senders
  <1>7. Sound(ms, r)
    <2>1. \A i \in 1..Len(v) : Meant(ms, v[i])
      BY <1>1, <1>3, <1>5 DEF AllMeant
    <2> QED BY <1>1, <1>6, <2>1 DEF Sound, Mapped, AllMeant
  <1>8. ASSUME Good(ms, table, s) PROVE Good(ms, Update(table, w[1]), r)
    <2> DEFINE new == Update(table, w[1])
    <2>1. CASE ~s.spoiled
      <3>1. Agree(ms, table, s.entries, w) /\ Unaliased(s)
        BY <1>8, <2>1 DEF Good
      <3>2. ASSUME NEW i \in 1..Len(s.entries)
            PROVE  Says(new, v, 1..Len(v), s.entries[i].alias, s.entries[i].topic)
        <4>0. s.entries[i] \in Pairs
          BY <1>1, SenderIs
        <4>1. s.entries[i].alias \in Aliases
          BY <4>0 DEF Pairs
        <4>2. Says(table, w, 1..Len(w), s.entries[i].alias, s.entries[i].topic)
          BY <3>1 DEF Agree
        <4>3. Len(w) \in 1..Len(w) /\ Len(v) = Len(w) - 1
          BY <1>2, <1>3
        <4> DEFINE al == s.entries[i].alias
                   to == s.entries[i].topic
                   k == Len(w)
        <4> HIDE DEF al, to, new, k
        <4>4. Says(table, w, 1..k, al, to) /\ al \in Aliases /\ k \in 1..Len(w) /\ Len(w) # 0
          BY <1>2, <4>1, <4>2, <4>3 DEF al, to, k
        <4> HIDE DEF w
        <4>5. Says(new, v, 1..(k - 1), al, to)
          BY <1>2, <4>4, SaysLess DEF new, v
        <4> QED BY <4>3, <4>5 DEF al, to, k
      <3>3. ASSUME NEW i \in 1..Len(v), v[i].topic = NoTopic
            PROVE  Says(new, v, 1..(i - 1), v[i].alias, ms[v[i].m].topic)
        <4> DEFINE al == v[i].alias
                   to == ms[v[i].m].topic
        <4>1. v[i] = w[i + 1] /\ i + 1 \in 1..Len(w) /\ i \in 1..Len(w) /\ (i + 1) - 1 = i
          BY <1>2, <1>3, <1>5
        <4>2. Says(table, w, 1..((i + 1) - 1), w[i + 1].alias, ms[w[i + 1].m].topic)
          BY <3>1, <3>3, <4>1 DEF Agree
        <4>3. al \in Aliases
          <5>1. v[i] \in Packets /\ Meant(ms, v[i])
            BY <1>1, <1>3, <4>1 DEF AllMeant
          <5>2. AliasMax \in Nat /\ v[i].alias \in 0..AliasMax /\ v[i].alias # 0
            BY <3>3, <5>1, AliasAssumption DEF Packets, Meant
          <5> QED BY <5>2 DEF Aliases
        <4>4. Says(table, w, 1..i, al, to)
          BY <4>1, <4>2
        <4> HIDE DEF al, to, new, w
        <4>5. Says(new, v, 1..(i - 1), al, to)
          BY <1>2, <4>1, <4>3, <4>4, SaysLess DEF new, v, w
        <4> QED BY <4>5 DEF al, to
      <3> HIDE DEF new
      <3>4. Agree(ms, new, r.entries, r.wire) /\ Unaliased(r)
        BY <1>6, <3>1, <3>2, <3>3 DEF Agree, Unaliased
      <3> QED BY <1>7, <3>4 DEF Good, new
    <2>2. CASE s.spoiled
      BY <1>6, <1>7, <2>2 DEF Good
    <2> QED BY <2>1, <2>2
  <1> QED BY <1>6, <1>7, <1>8 DEF r

\* A packet arrives.  While the connection is not spoiled, its topic is known.
LEMMA ReceiveKeeps == ASSUME Inv, Receive PROVE Inv'
  <1> DEFINE p == snd.wire[1]
             w == snd.wire
             s == [snd EXCEPT !.wire = Tail(@)]
             table == Update(rcv.table, p)
             counted == message[p.m].qos # 0
             full == counted /\ Cardinality(rcv.pending) = Maximum
             topic == Resolve(rcv.table, p)
  <1>1. snd \in Senders /\ Sound(message, snd) /\ AllMeant(message, snd) /\ w \in Seq(Packets)
        /\ Len(w) \in Nat /\ rcv.table \in Tables /\ Good(message, rcv.table, snd)
    BY SenderIs DEF Inv, Sound, Receive
  <1>2. Len(w) # 0 /\ Head(w) = p /\ 1 \in 1..Len(w)
    <2>1. w # <<>>
      BY DEF Receive
    <2> HIDE DEF w
    <2>2. Len(w) # 0
      BY <1>1, <2>1
    <2> QED BY <1>1, <2>1, <2>2 DEF w
  <1>3. /\ snd' = s /\ mode' = mode /\ next' = next /\ message' = message /\ downs' = downs
        /\ rcv' = IF full THEN rcv
                  ELSE [table |-> table, pending |-> IF counted THEN rcv.pending \cup {p.m}
                                                     ELSE rcv.pending]
        /\ link' = IF full THEN "receive_maximum_exceeded"
                   ELSE IF topic = NoTopic THEN "topic_alias_invalid" ELSE "up"
    BY <1>2 DEF Receive
  <1>4. /\ Sound(message, s) /\ s.spoiled = snd.spoiled /\ Good(message, table, s)
    BY <1>1, <1>2, ArrivesGood
  <1>5. table \in Tables
    BY <1>1, <1>2, UpdateIs
  <1>6. Meant(message, p) /\ p \in Packets
    BY <1>1, <1>2 DEF AllMeant
  <1>7. topic = NoTopic => snd.spoiled
    <2> SUFFICES ASSUME topic = NoTopic, ~snd.spoiled PROVE FALSE
      OBVIOUS
    <2>1. p.topic = NoTopic
      BY DEF Resolve
    <2>2. Says(rcv.table, w, 1..(1 - 1), p.alias, message[p.m].topic)
      BY <1>1, <1>2, <2>1 DEF Good, Agree
    <2>3. rcv.table[p.alias] = message[p.m].topic
      BY <2>2, SaysNone
    <2>4. message[p.m].topic \in Topics
      <3>1. message[p.m] \in Messages
        BY <1>6 DEF Meant, Inv
      <3> QED BY <3>1 DEF Messages
    <2> QED BY <2>1, <2>3, <2>4, AliasAssumption DEF Resolve
  <1> HIDE DEF s, table, p, topic, w
  <1>8. rcv'.table \in Tables /\ rcv'.pending \subseteq 1..Len(message)
    <2>1. p.m \in 1..Len(message)
      BY <1>6 DEF Meant
    <2> HIDE DEF full, counted
    <2> QED BY <1>3, <1>5, <2>1 DEF Inv
  <1>9. link' = "up" => Good(message, rcv'.table, s)
    BY <1>3, <1>4
  <1>10. link' = "topic_alias_invalid" => s.spoiled
    BY <1>3, <1>4, <1>7
  <1> QED BY <1>3, <1>4, <1>8, <1>9, <1>10 DEF Inv

\* store::erase: one packet goes, the others stay.
Erased(q, m) == RemoveFirstMatch(q, LAMBDA p : p.m = m)

\* It is one of the sequences the store can be.
LEMMA ErasedIs ==
  ASSUME NEW q \in Seq(Packets), NEW m
  PROVE  /\ Erased(q, m) \in Seq(Packets)
         /\ \A i \in 1..Len(Erased(q, m)) : \E j \in 1..Len(q) : Erased(q, m)[i] = q[j]
  <1> DEFINE r == Erased(q, m)
  <1>0. Len(q) \in Nat
    OBVIOUS
  <1>1. CASE \E i \in 1..Len(q) : q[i].m = m
    <2> DEFINE I == {i \in 1..Len(q) : q[i].m = m}
    <2>1. I # {} /\ I \in SUBSET Nat
      BY <1>1, <1>0
    <2>2. Min(I) \in I
      BY <2>1, LeastOf DEF Min
    <2>3. PICK k \in 1..Len(q) : r = RemoveAt(q, k)
      BY <1>1, <2>1, <2>2 DEF Erased, RemoveFirstMatch, SelectInSeq
    <2>4. /\ RemoveAt(q, k) \in Seq(Packets) /\ Len(RemoveAt(q, k)) = Len(q) - 1
          /\ \A j \in 1..(Len(q) - 1) : RemoveAt(q, k)[j] = IF j < k THEN q[j] ELSE q[j + 1]
      BY RemovedIs
    <2> HIDE DEF r
    <2>5. ASSUME NEW i \in 1..Len(r) PROVE \E j \in 1..Len(q) : r[i] = q[j]
      <3>1. i \in 1..(Len(q) - 1) /\ i \in 1..Len(q) /\ i + 1 \in 1..Len(q)
        BY <1>0, <2>3, <2>4
      <3> QED BY <2>3, <2>4, <3>1
    <2> QED BY <2>3, <2>4, <2>5 DEF r
  <1>2. CASE ~\E i \in 1..Len(q) : q[i].m = m
    BY <1>2 DEF Erased, RemoveFirstMatch
  <1> QED BY <1>1, <1>2

\* An acknowledgement frees a place, and what was kept back is sent.
LEMMA PubackKeeps == ASSUME Inv, RecvPuback PROVE Inv'
  <1> DEFINE n == (snd.count - 1) % Wrap
             v == Erased(snd.stored, Head(back))
             s == [snd EXCEPT !.stored = v]
             k == [snd EXCEPT !.count = n, !.stored = v]
  <1>1. /\ snd' = Flush(message, [snd EXCEPT !.count = (@ - 1) % Wrap,
                                    !.stored = RemoveFirstMatch(@, LAMBDA p : p.m = Head(back))])
        /\ mode' = mode /\ next' = next /\ message' = message /\ rcv' = rcv
        /\ link' = link /\ downs' = downs /\ link = "up"
    BY DEF RecvPuback
  <1>2. /\ snd \in Senders /\ AllMeant(message, snd) /\ Good(message, rcv.table, snd)
        /\ snd.stored \in Seq(Packets) /\ snd.count \in 0..(Wrap - 1)
    BY <1>1, SenderIs DEF Inv, Sound
  <1>3. v \in Seq(Packets) /\ \A i \in 1..Len(v) : \E j \in 1..Len(snd.stored) : v[i] = snd.stored[j]
    BY <1>2, ErasedIs
  <1>4. [snd EXCEPT !.count = (@ - 1) % Wrap,
                    !.stored = RemoveFirstMatch(@, LAMBDA p : p.m = Head(back))] = k
    BY <1>2 DEF Senders, Erased
  <1> HIDE DEF v
  <1>5. n \in 0..(Wrap - 1)
    BY <1>2 DEF Wrap
  <1>6. \A i \in 1..Len(v) : Meant(message, v[i]) /\ v[i].alias = 0
    BY <1>2, <1>3 DEF AllMeant
  <1>7. Good(message, rcv.table, s)
    BY <1>2, <1>3, <1>6, StoreIsGood
  <1> HIDE DEF n
  <1>8. /\ k.max = s.max /\ k.used = s.used /\ k.queue = s.queue
        /\ k.wire = s.wire /\ k.stored = s.stored /\ k.spoiled = s.spoiled
        /\ k.entries = s.entries /\ k \in Senders
    BY <1>2, <1>3, <1>5 DEF Senders
  <1> HIDE DEF s, k
  <1>9. Good(message, rcv.table, k)
    BY <1>7, <1>8 DEF Good, Sound, Mapped, AllMeant, Unaliased
  <1>10. Good(message, rcv.table, Flush(message, k))
    BY <1>9, ModeIs, Flushes
  <1> QED BY <1>1, <1>4, <1>10 DEF Inv, Good

\* A connection comes back with empty tables.
LEMMA ConnectKeeps == ASSUME Inv, Connect PROVE Inv'
  <1>1. PICK max \in Aliases :
          snd' = FoldLeft(LAMBDA s, p : Resend(message, s, p), Sender(max, snd.stored), snd.stored)
    BY DEF Connect
  <1>2. snd.stored \in Seq(Packets)
        /\ \A i \in 1..Len(snd.stored) : Meant(message, snd.stored[i]) /\ snd.stored[i].alias = 0
    BY SenderIs DEF Inv, Sound, AllMeant
  <1>3. Good(message, rcv'.table, snd')
    <2> DEFINE q == snd.stored
    <2>1. snd' = Restored(message, max, q)
      BY <1>1 DEF Restored
    <2>2. q \in Seq(Packets) /\ \A i \in 1..Len(q) : Meant(message, q[i]) /\ q[i].alias = 0
      BY <1>2
    <2> HIDE DEF q
    <2> QED BY <2>1, <2>2, ModeIs, Restores
  <1>4. /\ link' = "up" /\ downs' = downs + 1 /\ downs < MaxDowns /\ rcv' = Receiver
        /\ mode' = mode /\ next' = next /\ message' = message
    BY DEF Connect
  <1>5. rcv'.table \in Tables /\ rcv'.pending = {}
    BY <1>4 DEF Receiver, Tables
  <1>6. downs' \in 0..MaxDowns
    BY <1>4, AliasAssumption DEF Inv
  <1> QED BY <1>3, <1>4, <1>5, <1>6 DEF Inv, Good

\* Acknowledging and losing the connection change nothing of the sender's.
LEMMA OthersKeep ==
  ASSUME Inv, Down \/ (\E m \in Msgs : Acknowledge(m)) \/ UNCHANGED vars
  PROVE  Inv'
  <1>1. CASE Down
    BY <1>1 DEF Inv, Down
  <1>2. CASE \E m \in Msgs : Acknowledge(m)
    <2>1. PICK m \in Msgs : Acknowledge(m)
      BY <1>2
    <2>2. rcv'.table = rcv.table /\ rcv'.pending \subseteq rcv.pending
      BY <2>1 DEF Acknowledge, Inv
    <2> QED BY <2>1, <2>2 DEF Inv, Acknowledge
  <1>3. CASE UNCHANGED vars
    BY <1>3 DEF Inv, vars
  <1> QED BY <1>1, <1>2, <1>3

\* Every step keeps the invariant.
LEMMA StepKeeps == ASSUME Inv, [Next]_vars PROVE Inv'
  <1>1. ASSUME NEW t \in Topics \cup {NoTopic}, NEW a \in 0..(AliasMax + 1), NEW q \in {0, 1},
               NEW room \in Rooms, Publish(t, a, q, room)
        PROVE  Inv'
    BY <1>1, PublishKeeps
  <1> QED BY <1>1, ReceiveKeeps, PubackKeeps, ConnectKeeps, OthersKeep DEF Next
-------------------------------------------------------------------------------
\* The inductive invariant holds in every behaviour.
THEOREM Invariance == Spec => []Inv
  <1> QED BY AtFirst, StepKeeps, PTL DEF Spec

\* The values of the variables.
THEOREM TypeCorrect == Spec => []TypeOK
  <1>1. ASSUME Inv PROVE TypeOK
    <2>1. snd \in Senders /\ Mapped(snd) /\ snd.entries \in Seq(Pairs)
      BY <1>1, SenderIs DEF Inv, Sound
    <2>2. \A e \in Elements(snd.entries) : e.alias \in snd.used /\ e.topic \in Topics
      <3>1. \A i \in 1..Len(snd.entries) : snd.entries[i] \in Pairs
        BY <2>1
      <3>2. \A i \in 1..Len(snd.entries) : snd.entries[i].topic \in Topics
        BY <3>1 DEF Pairs
      <3>3. DOMAIN snd.entries = 1..Len(snd.entries)
        BY <2>1
      <3> QED BY <2>1, <3>2, <3>3 DEF Elements, Mapped
    <2>3. rcv.pending \subseteq Msgs
      <3>1. Len(message) <= N /\ Len(message) \in Nat /\ N \in Nat
        BY <1>1, AliasAssumption DEF Inv
      <3> QED BY <1>1, <3>1 DEF Inv, Msgs
    <2> QED BY <1>1, <2>1, <2>2, <2>3, SenderIs DEF Inv, TypeOK, Mapped, Tables
  <1> QED BY <1>1, Invariance, PTL

\* What the receiver's table will be, in the terms of the invariant.
LEMMA TableAfterIs ==
  ASSUME NEW n \in Nat, snd.wire \in Seq(Packets), n <= Len(snd.wire), rcv.table \in Tables,
         NEW a \in Aliases, NEW t, Says(rcv.table, snd.wire, 1..n, a, t)
  PROVE  TableAfter(n)[a] = t
  <1> DEFINE w == snd.wire
             q == SubSeq(w, 1, n)
             x == FoldLeft(Update, rcv.table, q)[a]
  <1>1. q \in Seq(Packets) /\ Len(q) = n /\ \A i \in 1..n : q[i] = w[i]
    BY SubSeqProperties
  <1> HIDE DEF q
  <1>2. Says(rcv.table, q, 1..n, a, x)
    BY <1>1, AfterAll
  <1> HIDE DEF x, w
  <1>3. \A i \in 1..n : Gives(q, i, a) <=> Gives(w, i, a)
    BY <1>1 DEF Gives
  <1>4. Says(rcv.table, w, 1..n, a, x) /\ Says(rcv.table, w, 1..n, a, t)
    BY <1>1, <1>2, <1>3 DEF Says, w
  <1>5. x = t
    <2>1. \A i, j \in 1..n : i <= j /\ j <= i => i = j
      OBVIOUS
    <2> QED BY <1>4, <2>1 DEF Says
  <1> QED BY <1>5 DEF TableAfter, x, q, w

\* TablesAgree: the receiver will know every alias the sender may use.
THEOREM TablesAlwaysAgree == Spec => []TablesAgree
  <1>1. ASSUME Inv PROVE TablesAgree
    <2> SUFFICES ASSUME link = "up", ~snd.spoiled, NEW e \in Elements(snd.entries)
                 PROVE  TableAfter(Len(snd.wire))[e.alias] = e.topic
      BY DEF TablesAgree
    <2>1. /\ snd \in Senders /\ snd.entries \in Seq(Pairs) /\ snd.wire \in Seq(Packets)
          /\ Len(snd.wire) \in Nat
          /\ rcv.table \in Tables /\ Agree(message, rcv.table, snd.entries, snd.wire)
      BY <1>1, SenderIs DEF Inv, Sound, Good
    <2>2. PICK i \in 1..Len(snd.entries) : e = snd.entries[i]
      BY <2>1 DEF Elements
    <2>3. e.alias \in Aliases
      <3>1. e \in Pairs
        BY <2>1, <2>2
      <3> QED BY <3>1 DEF Pairs
    <2>4. Says(rcv.table, snd.wire, 1..Len(snd.wire), e.alias, e.topic)
      BY <2>1, <2>2 DEF Agree
    <2> QED BY <2>1, <2>3, <2>4, TableAfterIs
  <1> QED BY <1>1, Invariance, PTL

\* UnderstoodAsPublished: each packet underway will be understood as it was meant.
THEOREM AlwaysUnderstood == Spec => []UnderstoodAsPublished
  <1>1. ASSUME Inv PROVE UnderstoodAsPublished
    <2> SUFFICES ASSUME link = "up", ~snd.spoiled, NEW i \in DOMAIN snd.wire
                 PROVE  Resolve(TableAfter(i - 1), snd.wire[i]) = message[snd.wire[i].m].topic
      BY DEF UnderstoodAsPublished
    <2>1. /\ snd \in Senders /\ snd.wire \in Seq(Packets) /\ Len(snd.wire) \in Nat
          /\ AllMeant(message, snd)
          /\ rcv.table \in Tables /\ Agree(message, rcv.table, snd.entries, snd.wire)
      BY <1>1, SenderIs DEF Inv, Sound, Good
    <2>2. i \in 1..Len(snd.wire) /\ i - 1 \in Nat /\ i - 1 <= Len(snd.wire)
      BY <2>1
    <2> DEFINE p == snd.wire[i]
    <2>3. p \in Packets /\ Meant(message, p)
      BY <2>1, <2>2 DEF AllMeant
    <2>4. CASE p.topic # NoTopic
      BY <2>3, <2>4 DEF Resolve, Meant
    <2>5. CASE p.topic = NoTopic
      <3>1. Says(rcv.table, snd.wire, 1..(i - 1), p.alias, message[p.m].topic)
        BY <2>1, <2>2, <2>5 DEF Agree
      <3>2. p.alias \in Aliases
        <4>1. AliasMax \in Nat /\ p.alias \in 0..AliasMax /\ p.alias # 0
          BY <2>3, <2>5, AliasAssumption DEF Packets, Meant
        <4> QED BY <4>1 DEF Aliases
      <3> HIDE DEF p
      <3>3. TableAfter(i - 1)[p.alias] = message[p.m].topic
        BY <2>1, <2>2, <3>1, <3>2, TableAfterIs
      <3> QED BY <2>5, <3>3 DEF Resolve, p
    <2> QED BY <2>4, <2>5
  <1> QED BY <1>1, Invariance, PTL

\* StoredWithTopic: a later connection can resend what is stored.
THEOREM AlwaysStoredWithTopic == Spec => []StoredWithTopic
  <1>1. ASSUME Inv PROVE StoredWithTopic
    <2>1. snd.stored \in Seq(Packets) /\ AllMeant(message, snd)
      BY <1>1, SenderIs DEF Inv, Sound
    <2> QED BY <2>1 DEF StoredWithTopic, Elements, AllMeant, Meant
  <1> QED BY <1>1, Invariance, PTL

\* The receiver finds no packet's alias unknown, unless an alias was applied to a packet
\* that did not go out at once.
THEOREM InvalidOnlyIfSpoiled == Spec => [](link = "topic_alias_invalid" => snd.spoiled)
  <1>1. Inv => (link = "topic_alias_invalid" => snd.spoiled)
    BY DEF Inv
  <1> QED BY <1>1, Invariance, PTL
===============================================================================
