----------------------------- MODULE Stream_proofs -----------------------------
(***************************************************************************)
(* The write queue of the stream, for every number of packets, both modes  *)
(* and any interleaving with connections that break, close and come again: *)
(* packets are written in the order of async_write_packet, none twice on   *)
(* one connection, and an operation that succeeds has had its packet       *)
(* written.  An async_recv that has failed leaves the connection closed.   *)
(* The reader, for all sizes of packets, reads and chunks:                 *)
(* async_recv completes with the packets that were written and that it     *)
(* asks for, in their order, each with its own bytes.                      *)
(***************************************************************************)
EXTENDS Stream, SequenceTheorems, FiniteSetTheorems, WellFoundedInduction, TLAPS

\* The packets of a queue stand in the order of their operations.
Increasing(q) == \A i, j \in DOMAIN q : i < j => q[i] < q[j]
Before(q, r) == \A o \in ToSet(q), p \in ToSet(r) : o < p

Waiting == {"write", "bulk_write"}

\* The ranges of the writer's state.
Typed ==
  /\ link \in {"up", "broken", "shut", "closed"} /\ phase \in {"idle", "polling", "working"}
  /\ state \in [Ops -> Waiting \cup {"new", "working", "ok", "error"}]
  /\ bulkWrite \in BOOLEAN
  /\ storing \in Seq(Ops) /\ sending \in Seq(Ops) /\ written \in Seq(Ops)
  /\ posted \in Seq(Ops)

\* One operation works at a time, and only then is something being sent; those that
\* wait are in the queue, in the mode of the stream.
OneWorks ==
  /\ \A o \in Ops : state[o] = "working" => phase = "working"
  /\ \A o, p \in Ops : state[o] = "working" /\ state[p] = "working" => o = p
  /\ phase # "working" => sending = <<>>
  /\ phase = "idle" => posted = <<>>
  /\ \A o \in Ops : /\ state[o] \in Waiting <=> o \in ToSet(posted)
                    /\ state[o] = "bulk_write" => bulkWrite
                    /\ state[o] = "write" => ~bulkWrite

\* A packet is stored while its operation waits; a closed connection has none stored.
StoredWait ==
  /\ Open => ToSet(storing) \subseteq ToSet(posted)
  /\ link = "closed" => storing = <<>>
  /\ ~bulkWrite => storing = <<>>

\* The packets that are still to be sent: in bulk mode the stored ones.
Line == IF bulkWrite THEN storing ELSE posted

\* Operations are called in order, and so are their packets written, sent and to be sent.
CalledInOrder == \A o, p \in Ops : o < p /\ state[p] # "new" => state[o] # "new"
InOrder ==
  /\ CalledInOrder
  /\ \A o \in ToSet(written) \cup ToSet(sending) \cup ToSet(storing) : state[o] # "new"
  /\ Increasing(written) /\ Increasing(sending) /\ Increasing(storing) /\ Increasing(posted)
  /\ Before(written, sending) /\ Before(written, Line) /\ Before(sending, Line)

\* On a connection that is up no packet of an unfinished operation is lost.
Kept ==
  link = "up" => \A o \in Ops :
    /\ state[o] = "bulk_write" => o \in ToSet(storing) \cup ToSet(sending) \cup ToSet(written)
    /\ state[o] = "working" => o \in ToSet(sending) \cup ToSet(written)

\* The inductive invariant.
IInv == Typed /\ OneWorks /\ StoredWait /\ InOrder /\ Kept
-------------------------------------------------------------------------------
\* The empty queue, and a queue of one.
LEMMA Singletons ==
  /\ ToSet(<<>>) = {} /\ Increasing(<<>>) /\ <<>> \in Seq(Ops)
  /\ \A q : Before(<<>>, q) /\ Before(q, <<>>)
  /\ \A o \in Ops : <<o>> \in Seq(Ops) /\ ToSet(<<o>>) = {o} /\ Increasing(<<o>>)
  <1>1. ToSet(<<>>) = {}
    BY DEF ToSet
  <1>2. Increasing(<<>>) /\ <<>> \in Seq(Ops)
    BY DEF Increasing
  <1>3. \A o \in Ops : <<o>> \in Seq(Ops) /\ ToSet(<<o>>) = {o} /\ Increasing(<<o>>)
    BY DEF ToSet, Increasing
  <1> QED BY <1>1, <1>2, <1>3 DEF Before

\* An operation joins the end of a queue.
LEMMA Joined ==
  ASSUME NEW q \in Seq(Ops), NEW o \in Ops
  PROVE  /\ Append(q, o) \in Seq(Ops) /\ ToSet(Append(q, o)) = ToSet(q) \cup {o}
         /\ Increasing(q) /\ (\A p \in ToSet(q) : p < o) => Increasing(Append(q, o))
  <1>1. /\ Append(q, o) \in Seq(Ops) /\ Len(Append(q, o)) = Len(q) + 1 /\ Len(q) \in Nat
        /\ \A i \in 1..Len(q) : Append(q, o)[i] = q[i]
        /\ Append(q, o)[Len(q) + 1] = o
        /\ DOMAIN q = 1..Len(q) /\ DOMAIN Append(q, o) = 1..(Len(q) + 1)
    OBVIOUS
  <1>2. ToSet(Append(q, o)) = ToSet(q) \cup {o}
    BY <1>1 DEF ToSet
  <1>3. ASSUME Increasing(q), \A p \in ToSet(q) : p < o PROVE Increasing(Append(q, o))
    <2>1. \A i \in 1..Len(q) : q[i] < o
      BY <1>1, <1>3 DEF ToSet
    <2> QED BY <1>1, <1>3, <2>1 DEF Increasing
  <1> QED BY <1>1, <1>2, <1>3

\* The first operation of a queue leaves.
LEMMA Left ==
  ASSUME NEW q \in Seq(Ops), q # <<>>
  PROVE  /\ Head(q) \in Ops /\ Tail(q) \in Seq(Ops)
         /\ ToSet(q) = {Head(q)} \cup ToSet(Tail(q))
         /\ Increasing(q) => Increasing(Tail(q)) /\ \A o \in ToSet(Tail(q)) : Head(q) < o
  <1>1. /\ Tail(q) \in Seq(Ops) /\ Len(Tail(q)) = Len(q) - 1 /\ Len(q) \in Nat \ {0}
        /\ \A i \in 1..Len(Tail(q)) : Tail(q)[i] = q[i + 1] /\ i + 1 \in 1..Len(q)
        /\ Head(q) = q[1] /\ q[1] \in Ops
        /\ DOMAIN q = 1..Len(q) /\ DOMAIN Tail(q) = 1..Len(Tail(q))
    OBVIOUS
  <1>2. ASSUME NEW o \in ToSet(q) PROVE o = Head(q) \/ o \in ToSet(Tail(q))
    <2>1. PICK i \in 1..Len(q) : o = q[i]
      BY <1>1 DEF ToSet
    <2>2. i = 1 \/ (i - 1 \in 1..Len(Tail(q)) /\ Tail(q)[i - 1] = q[i])
      BY <1>1
    <2> QED BY <1>1, <2>1, <2>2 DEF ToSet
  <1>3. Head(q) \in ToSet(q) /\ ToSet(Tail(q)) \subseteq ToSet(q)
    BY <1>1 DEF ToSet
  <1>4. ASSUME Increasing(q) PROVE Increasing(Tail(q)) /\ \A o \in ToSet(Tail(q)) : Head(q) < o
    <2>1. Increasing(Tail(q))
      BY <1>1, <1>4 DEF Increasing
    <2>2. \A i \in 1..Len(Tail(q)) : q[1] < q[i + 1]
      BY <1>1, <1>4 DEF Increasing
    <2> QED BY <1>1, <2>1, <2>2 DEF ToSet
  <1> QED BY <1>1, <1>2, <1>3, <1>4

\* One queue after the other.
LEMMA Joint ==
  ASSUME NEW q \in Seq(Ops), NEW r \in Seq(Ops)
  PROVE  /\ q \o r \in Seq(Ops) /\ ToSet(q \o r) = ToSet(q) \cup ToSet(r)
         /\ Increasing(q) /\ Increasing(r) /\ Before(q, r) => Increasing(q \o r)
  <1>1. /\ q \o r \in Seq(Ops) /\ Len(q \o r) = Len(q) + Len(r)
        /\ Len(q) \in Nat /\ Len(r) \in Nat
        /\ \A i \in 1..(Len(q) + Len(r)) :
             (q \o r)[i] = IF i <= Len(q) THEN q[i] ELSE r[i - Len(q)]
        /\ DOMAIN q = 1..Len(q) /\ DOMAIN r = 1..Len(r) /\ DOMAIN (q \o r) = 1..(Len(q) + Len(r))
        /\ q \in [1..Len(q) -> Ops] /\ r \in [1..Len(r) -> Ops]
    OBVIOUS
  <1>2. ToSet(q \o r) = ToSet(q) \cup ToSet(r)
    <2>1. \A o \in ToSet(q \o r) : o \in ToSet(q) \cup ToSet(r)
      BY <1>1 DEF ToSet
    <2>2. ToSet(q) \subseteq ToSet(q \o r)
      BY <1>1 DEF ToSet
    <2>3. ASSUME NEW o \in ToSet(r) PROVE o \in ToSet(q \o r)
      <3>1. PICK i \in 1..Len(r) : o = r[i]
        BY <1>1 DEF ToSet
      <3>2. Len(q) + i \in 1..(Len(q) + Len(r)) /\ (q \o r)[Len(q) + i] = r[i]
        BY <1>1
      <3> QED BY <1>1, <3>1, <3>2 DEF ToSet
    <2> QED BY <2>1, <2>2, <2>3
  <1>3. ASSUME Increasing(q), Increasing(r), Before(q, r),
               NEW i \in 1..(Len(q) + Len(r)), NEW j \in 1..(Len(q) + Len(r)), i < j
        PROVE  (q \o r)[i] < (q \o r)[j]
    <2>1. CASE j <= Len(q)
      BY <1>1, <1>3, <2>1 DEF Increasing
    <2>2. CASE i <= Len(q) /\ j > Len(q)
      <3>1. i \in 1..Len(q) /\ j - Len(q) \in 1..Len(r)
        BY <1>1, <2>2
      <3>2. q[i] \in ToSet(q) /\ r[j - Len(q)] \in ToSet(r)
        BY <1>1, <3>1 DEF ToSet
      <3> QED BY <1>1, <1>3, <2>2, <3>2 DEF Before
    <2>3. CASE i > Len(q)
      <3>1. i - Len(q) \in 1..Len(r) /\ j - Len(q) \in 1..Len(r) /\ i - Len(q) < j - Len(q)
        BY <1>1, <1>3, <2>3
      <3> QED BY <1>1, <1>3, <2>3, <3>1 DEF Increasing
    <2> QED BY <1>1, <2>1, <2>2, <2>3
  <1> QED BY <1>1, <1>2, <1>3 DEF Increasing

\* A queue is cut in two.
LEMMA Cut ==
  ASSUME NEW q \in Seq(Ops), NEW k \in 0..(Len(q) - 1)
  PROVE  LET a == SubSeq(q, 1, k)
             b == SubSeq(q, k + 1, Len(q))
         IN  /\ a \in Seq(Ops) /\ b \in Seq(Ops)
             /\ ToSet(a) \subseteq ToSet(q) /\ ToSet(b) \subseteq ToSet(q)
             /\ Increasing(q) => Increasing(a) /\ Increasing(b) /\ Before(a, b)
  <1> DEFINE a == SubSeq(q, 1, k)
             b == SubSeq(q, k + 1, Len(q))
  <1>1. /\ a \in Seq(Ops) /\ Len(a) = k /\ \A i \in 1..k : a[i] = q[i]
        /\ DOMAIN a = 1..k /\ DOMAIN q = 1..Len(q) /\ Len(q) \in Nat /\ k \in Nat /\ k < Len(q)
    OBVIOUS
  <1>2. /\ b \in Seq(Ops) /\ Len(b) = Len(q) - k /\ \A i \in 1..(Len(q) - k) : b[i] = q[k + i]
        /\ DOMAIN b = 1..(Len(q) - k)
    BY <1>1, SubSeqProperties
  <1> HIDE DEF a, b
  <1>3. ToSet(a) \subseteq ToSet(q)
    BY <1>1 DEF ToSet
  <1>4. \A i \in 1..(Len(q) - k) : k + i \in 1..Len(q) /\ b[i] = q[k + i]
    BY <1>1, <1>2
  <1>5. ToSet(b) \subseteq ToSet(q)
    <2> SUFFICES ASSUME NEW i \in 1..(Len(q) - k) PROVE b[i] \in ToSet(q)
      BY <1>2 DEF ToSet
    <2> QED BY <1>1, <1>4 DEF ToSet
  <1>6. ASSUME Increasing(q) PROVE Increasing(a) /\ Increasing(b) /\ Before(a, b)
    <2>1. Increasing(a)
      BY <1>1, <1>6 DEF Increasing
    <2>2. ASSUME NEW i \in 1..(Len(q) - k), NEW j \in 1..(Len(q) - k), i < j PROVE b[i] < b[j]
      <3>1. k + i < k + j /\ k + i \in DOMAIN q /\ k + j \in DOMAIN q
        BY <1>1, <1>4, <2>2
      <3> QED BY <1>4, <1>6, <3>1 DEF Increasing
    <2>3. ASSUME NEW i \in 1..k, NEW j \in 1..(Len(q) - k) PROVE a[i] < b[j]
      <3>1. i < k + j /\ i \in DOMAIN q /\ k + j \in DOMAIN q
        BY <1>1, <1>4
      <3> QED BY <1>1, <1>4, <1>6, <3>1 DEF Increasing
    <2>4. Increasing(b)
      BY <1>2, <2>2 DEF Increasing
    <2> QED BY <1>1, <1>2, <2>1, <2>3, <2>4 DEF Before, ToSet
  <1> QED BY <1>1, <1>2, <1>3, <1>5, <1>6 DEF a, b
-------------------------------------------------------------------------------
\* Initially there is nothing.
LEMMA InitInvariant == Init => IInv
  <1> SUFFICES ASSUME Init PROVE IInv
    OBVIOUS
  <1>1. Typed
    BY Singletons DEF Init, Typed
  <1>2. OneWorks /\ StoredWait /\ InOrder /\ Kept
    BY Singletons DEF Init, OneWorks, StoredWait, InOrder, CalledInOrder, Kept, Waiting, Line
  <1> QED BY <1>1, <1>2 DEF IInv

\* An operation is started as soon as it is called, or it leaves the queue.
CalledAtOnce(o) ==
  /\ phase = "idle" /\ Open /\ state[o] = "new" /\ \A p \in Ops : p < o => state[p] # "new"
  /\ posted' = posted
Polled(o) == phase = "polling" /\ posted # <<>> /\ o = Head(posted) /\ posted' = Tail(posted)

\* What an operation takes when it starts on an open connection: what is stored, and
\* nothing stays there.
LEMMA Takes ==
  ASSUME IInv, NEW o \in Ops, Start(o), CalledAtOnce(o) \/ Polled(o),
         UNCHANGED <<link, written, bulkWrite>>
  PROVE  /\ posted' \in Seq(Ops) /\ Increasing(posted') /\ phase # "working" /\ sending = <<>>
         /\ o \notin ToSet(posted') /\ ToSet(posted) \subseteq ToSet(posted') \cup {o}
         /\ ToSet(posted') \subseteq ToSet(posted)
         /\ ~bulkWrite => Before(<<o>>, posted')
         /\ Polled(o) => state[o] = (IF bulkWrite THEN "bulk_write" ELSE "write")
         /\ Open => \/ /\ Taken(o) = <<o>> /\ storing = <<>> /\ state[o] # "bulk_write"
                       /\ \A p \in ToSet(written) : p < o
                    \/ /\ Taken(o) = storing /\ bulkWrite /\ state[o] = "bulk_write"
  <1>1. posted \in Seq(Ops) /\ storing \in Seq(Ops) /\ Increasing(posted)
    BY DEF IInv, Typed, InOrder
  <1>2. phase # "working" /\ sending = <<>>
    BY DEF CalledAtOnce, Polled, IInv, OneWorks
  <1>3. CASE CalledAtOnce(o)
    <2>1. posted = <<>> /\ posted' = <<>> /\ Open /\ state[o] = "new"
      BY <1>3 DEF CalledAtOnce, IInv, OneWorks
    <2>2. storing = <<>>
      <3>1. ToSet(storing) = {}
        BY <2>1, Singletons DEF IInv, StoredWait
      <3>2. storing # <<>> => Head(storing) \in ToSet(storing)
        BY <1>1, Left
      <3> QED BY <3>1, <3>2
    <2>3. Taken(o) = <<o>> /\ ~Polled(o)
      BY <1>3, <2>1 DEF Taken, CalledAtOnce, Polled
    <2>4. ASSUME NEW p \in ToSet(written) PROVE p < o
      <3>1. p \in Ops /\ state[p] # "new"
        BY <2>4 DEF IInv, Typed, InOrder, ToSet
      <3>2. ~(o < p)
        BY <2>1, <3>1 DEF IInv, InOrder, CalledInOrder
      <3> QED BY <2>1, <3>1, <3>2 DEF Ops
    <2> QED BY <1>2, <2>1, <2>2, <2>3, <2>4, Singletons
  <1>4. CASE Polled(o)
    <2>1. /\ posted' \in Seq(Ops) /\ ToSet(posted) = {o} \cup ToSet(posted')
          /\ Increasing(posted') /\ \A p \in ToSet(posted') : o < p
      BY <1>1, <1>4, Left DEF Polled
    <2>2. o \notin ToSet(posted') /\ Before(<<o>>, posted')
      BY <2>1, Singletons DEF Before, Ops
    <2>3. state[o] = IF bulkWrite THEN "bulk_write" ELSE "write"
      BY <2>1 DEF IInv, OneWorks, Waiting, Typed
    <2>4. CASE bulkWrite
      BY <1>2, <1>4, <2>1, <2>2, <2>3, <2>4 DEF Taken
    <2>5. CASE ~bulkWrite
      <3>1. storing = <<>> /\ Line = posted
        BY <2>5 DEF IInv, StoredWait, Line
      <3>2. \A p \in ToSet(written) : p < o
        BY <2>1, <3>1 DEF IInv, InOrder, Before
      <3> QED BY <1>2, <2>1, <2>2, <2>3, <2>5, <3>1, <3>2 DEF Taken
    <2> QED BY <2>4, <2>5
  <1> QED BY <1>3, <1>4

\* What starting an operation changes.
LEMMA Started ==
  ASSUME IInv, NEW o \in Ops, Start(o), CalledAtOnce(o) \/ Polled(o),
         UNCHANGED <<link, written, bulkWrite>>
  PROVE  \E s \in {"working", "ok", "error"} :
           /\ state' = [state EXCEPT ![o] = s]
           /\ phase' = IF s = "working" THEN "working" ELSE "polling"
           /\ s # "working" => sending' = <<>>
           /\ s = "working" => Open /\ sending' = Taken(o) /\ sending' # <<>>
           /\ s = "error" => ~Open
           /\ s = "ok" => Taken(o) = <<>> /\ state[o] = "bulk_write" /\ bulkWrite
           /\ IF Open THEN storing' = <<>> ELSE storing' = storing
  <1>1. sending = <<>> /\ storing \in Seq(Ops)
    BY Takes DEF IInv, Typed
  <1>2. CASE ~Open
    <2>1. Finish(o, "error") /\ UNCHANGED <<storing, sending>>
      BY <1>2 DEF Start
    <2> QED BY <1>1, <1>2, <2>1 DEF Finish
  <1>3. CASE Open /\ Taken(o) = <<>>
    <2>1. Finish(o, "ok") /\ UNCHANGED <<storing, sending>>
      BY <1>3 DEF Start
    <2>2. Taken(o) = storing /\ state[o] = "bulk_write" /\ bulkWrite
      <3>1. <<o>> # <<>>
        OBVIOUS
      <3> QED BY <1>3, <3>1, Takes
    <2> QED BY <1>1, <1>3, <2>1, <2>2 DEF Finish
  <1>4. CASE Open /\ Taken(o) # <<>>
    <2>1. /\ state' = [state EXCEPT ![o] = "working"] /\ phase' = "working"
          /\ sending' = Taken(o)
          /\ storing' = IF state[o] = "bulk_write" THEN <<>> ELSE storing
      BY <1>4 DEF Start
    <2>2. storing' = <<>>
      BY <1>4, <2>1, Takes
    <2> QED BY <1>4, <2>1, <2>2
  <1> QED BY <1>2, <1>3, <1>4

\* Starting an operation keeps the invariant.
LEMMA StartKeeps ==
  ASSUME IInv, NEW o \in Ops, Start(o), CalledAtOnce(o) \/ Polled(o),
         UNCHANGED <<link, written, bulkWrite>>
  PROVE  IInv'
  <1>1. PICK s \in {"working", "ok", "error"} :
           /\ state' = [state EXCEPT ![o] = s]
           /\ phase' = (IF s = "working" THEN "working" ELSE "polling")
           /\ s # "working" => sending' = <<>>
           /\ s = "working" => Open /\ sending' = Taken(o) /\ sending' # <<>>
           /\ s = "error" => ~Open
           /\ s = "ok" => Taken(o) = <<>> /\ state[o] = "bulk_write" /\ bulkWrite
           /\ IF Open THEN storing' = <<>> ELSE storing' = storing
    BY Started
  <1>2. /\ posted' \in Seq(Ops) /\ Increasing(posted') /\ phase # "working" /\ sending = <<>>
        /\ o \notin ToSet(posted') /\ ToSet(posted) \subseteq ToSet(posted') \cup {o}
        /\ ToSet(posted') \subseteq ToSet(posted)
        /\ ~bulkWrite => Before(<<o>>, posted')
        /\ Polled(o) => state[o] = (IF bulkWrite THEN "bulk_write" ELSE "write")
        /\ Open => \/ /\ Taken(o) = <<o>> /\ storing = <<>> /\ state[o] # "bulk_write"
                      /\ \A p \in ToSet(written) : p < o
                   \/ /\ Taken(o) = storing /\ bulkWrite /\ state[o] = "bulk_write"
    BY Takes
  <1>3. /\ link' = link /\ written' = written /\ bulkWrite' = bulkWrite /\ Open' = Open
    BY DEF Open
  <1>4. /\ Typed /\ state'[o] = s /\ \A p \in Ops : p # o => state'[p] = state[p]
        /\ state[o] \in Waiting \cup {"new"}
    BY <1>1, <1>2 DEF IInv, Typed, Waiting, CalledAtOnce
  <1>5. sending' \in {<<>>, <<o>>, storing} /\ storing' \in {<<>>, storing}
    BY <1>1, <1>2
  <1>6. Typed'
    BY <1>1, <1>2, <1>3, <1>4, <1>5, Singletons DEF Typed
  <1>7. OneWorks'
    <2>1. \A p \in Ops : state'[p] = "working" => p = o /\ s = "working"
      BY <1>2, <1>4 DEF IInv, OneWorks
    <2>2. \A p \in Ops : state'[p] \in Waiting <=> p \in ToSet(posted')
      <3>1. \A p \in Ops : p # o => (p \in ToSet(posted) <=> p \in ToSet(posted'))
        BY <1>2
      <3>2. state'[o] \notin Waiting
        BY <1>1, <1>4 DEF Waiting
      <3> QED BY <1>2, <1>4, <3>1, <3>2 DEF IInv, OneWorks
    <2>3. \A p \in Ops : /\ state'[p] = "bulk_write" => bulkWrite'
                         /\ state'[p] = "write" => ~bulkWrite'
      BY <1>1, <1>3, <1>4 DEF IInv, OneWorks
    <2> QED BY <1>1, <2>1, <2>2, <2>3 DEF OneWorks
  <1>8. StoredWait'
    BY <1>1, <1>3, Singletons DEF IInv, StoredWait, Open
  <1>9. CalledInOrder'
    <2> SUFFICES ASSUME NEW p \in Ops, NEW q \in Ops, p < q, state'[q] # "new"
                 PROVE  state'[p] # "new"
      BY DEF CalledInOrder
    <2>1. CASE q # o
      BY <1>1, <1>4, <2>1 DEF IInv, InOrder, CalledInOrder
    <2>2. CASE q = o
      <3>1. CASE CalledAtOnce(o)
        BY <1>1, <1>4, <2>2, <3>1 DEF CalledAtOnce
      <3>2. CASE Polled(o)
        <4>1. state[o] # "new"
          BY <1>2, <3>2
        <4> QED BY <1>1, <1>4, <2>2, <4>1 DEF IInv, InOrder, CalledInOrder
      <3> QED BY <3>1, <3>2
    <2> QED BY <2>1, <2>2
  <1>10. InOrder'
    <2>1. \A p \in ToSet(written') \cup ToSet(sending') \cup ToSet(storing') : state'[p] # "new"
      <3>1. \A p \in ToSet(written) \cup ToSet(storing) \cup {o} :
              p \in Ops /\ (p = o \/ state[p] # "new")
        BY DEF IInv, Typed, InOrder, ToSet
      <3> QED BY <1>1, <1>3, <1>4, <1>5, <3>1, Singletons
    <2>2. Increasing(written') /\ Increasing(sending') /\ Increasing(storing')
      BY <1>3, <1>5, Singletons DEF IInv, InOrder
    <2>3. Before(written', sending')
      <3>1. CASE sending' = <<>>
        BY <3>1, Singletons
      <3>2. CASE sending' # <<>> /\ state[o] # "bulk_write"
        <4>1. sending' = <<o>> /\ \A p \in ToSet(written) : p < o
          BY <1>1, <1>2, <3>2
        <4> QED BY <1>3, <4>1, Singletons DEF Before
      <3>3. CASE sending' # <<>> /\ state[o] = "bulk_write"
        BY <1>1, <1>2, <1>3, <3>3 DEF IInv, InOrder, Line
      <3> QED BY <3>1, <3>2, <3>3
    <2>4. Before(written', Line')
      <3>1. CASE bulkWrite
        BY <1>1, <1>3, <3>1, Singletons DEF Line, IInv, InOrder
      <3>2. CASE ~bulkWrite
        BY <1>2, <1>3, <3>2 DEF Line, IInv, InOrder, Before
      <3> QED BY <3>1, <3>2
    <2>5. Before(sending', Line')
      <3>1. CASE sending' = <<>>
        BY <3>1, Singletons
      <3>2. CASE sending' # <<>> /\ bulkWrite
        BY <1>1, <1>3, <3>2, Singletons DEF Line
      <3>3. CASE sending' # <<>> /\ ~bulkWrite
        BY <1>1, <1>2, <1>3, <3>3 DEF Line
      <3> QED BY <3>1, <3>2, <3>3
    <2> QED BY <1>2, <1>9, <2>1, <2>2, <2>3, <2>4, <2>5 DEF InOrder
  <1>11. Kept'
    <2> SUFFICES ASSUME link = "up", NEW p \in Ops
                 PROVE  /\ state'[p] = "bulk_write" =>
                             p \in ToSet(storing') \cup ToSet(sending') \cup ToSet(written')
                        /\ state'[p] = "working" => p \in ToSet(sending') \cup ToSet(written')
      BY <1>3 DEF Kept
    <2>1. Open /\ Kept
      BY DEF Open, IInv
    <2>2. ASSUME state'[p] = "bulk_write" PROVE p \in ToSet(sending') \cup ToSet(written')
      <3>1. p # o /\ state[p] = "bulk_write"
        BY <1>1, <1>4, <2>2
      <3>2. p \in ToSet(storing) \cup ToSet(written) /\ p \in ToSet(posted)
        BY <1>2, <2>1, <3>1, Singletons DEF Kept, IInv, OneWorks, Waiting
      <3>3. Polled(o)
        BY <3>2, Singletons DEF CalledAtOnce, IInv, OneWorks
      <3>4. Taken(o) = storing
        BY <1>2, <3>1, <3>3 DEF IInv, OneWorks, Taken
      <3> QED BY <1>1, <1>3, <2>1, <3>2, <3>4, Singletons
    <2>3. ASSUME state'[p] = "working" PROVE p \in ToSet(sending') \cup ToSet(written')
      <3>1. p = o /\ s = "working"
        BY <1>2, <1>4, <2>3 DEF IInv, OneWorks
      <3>2. CASE Taken(o) = <<o>>
        BY <1>1, <3>1, <3>2, Singletons
      <3>3. CASE Taken(o) # <<o>>
        BY <1>1, <1>2, <1>3, <2>1, <3>1, <3>3, Singletons DEF Kept
      <3> QED BY <3>2, <3>3
    <2> QED BY <2>2, <2>3
  <1> QED BY <1>6, <1>7, <1>8, <1>10, <1>11 DEF IInv
-------------------------------------------------------------------------------
\* A step that leaves the writer and the connection alone.
LEMMA StaysKept == IInv /\ UNCHANGED <<modes, writer, link>> => IInv'
  BY DEF IInv, Typed, OneWorks, StoredWait, InOrder, CalledInOrder, Kept, Line, Open, modes, writer

\* An operation is called: it starts or joins the queue.
LEMMA CallKeeps ==
  ASSUME IInv, NEW o \in Ops, Call(o)
  PROVE  IInv'
  <1>1. /\ Open /\ state[o] = "new" /\ \A p \in Ops : p < o => state[p] # "new"
        /\ UNCHANGED <<link, written, bulkWrite>>
    BY DEF Call, modes
  <1>2. CASE phase = "idle"
    BY <1>1, <1>2, StartKeeps DEF Call, Immediate, CalledAtOnce
  <1>3. CASE phase # "idle"
    <2>1. /\ state' = [state EXCEPT ![o] = IF bulkWrite THEN "bulk_write" ELSE "write"]
          /\ storing' = (IF bulkWrite THEN Append(storing, o) ELSE storing)
          /\ posted' = Append(posted, o) /\ phase' = phase /\ sending' = sending
      BY <1>3 DEF Call, Immediate
    <2>2. /\ Typed /\ state'[o] = (IF bulkWrite THEN "bulk_write" ELSE "write")
          /\ \A p \in Ops : p # o => state'[p] = state[p]
      BY <2>1 DEF IInv, Typed
    <2>3. ASSUME NEW p \in Ops, state[p] # "new" PROVE p < o
      <3>1. ~(o < p)
        BY <1>1, <2>3 DEF IInv, InOrder, CalledInOrder
      <3> QED BY <1>1, <2>3, <3>1 DEF Ops
    <2>4. \A p \in ToSet(written) \cup ToSet(sending) \cup ToSet(storing) \cup ToSet(posted) :
            p \in Ops /\ state[p] # "new" /\ p < o
      <3>1. \A p \in ToSet(posted) : p \in Ops /\ state[p] # "new"
        BY DEF IInv, Typed, OneWorks, Waiting, ToSet
      <3>2. \A p \in ToSet(written) \cup ToSet(sending) \cup ToSet(storing) :
              p \in Ops /\ state[p] # "new"
        BY DEF IInv, Typed, InOrder, ToSet
      <3> QED BY <2>3, <3>1, <3>2
    <2>5. /\ posted' \in Seq(Ops) /\ ToSet(posted') = ToSet(posted) \cup {o}
          /\ Increasing(posted')
      BY <2>1, <2>2, <2>4, Joined DEF Typed, IInv, InOrder
    <2>6. /\ storing' \in Seq(Ops) /\ Increasing(storing')
          /\ ToSet(storing') = IF bulkWrite THEN ToSet(storing) \cup {o} ELSE ToSet(storing)
      BY <2>1, <2>2, <2>4, Joined DEF Typed, IInv, InOrder
    <2>7. Typed'
      BY <1>1, <2>1, <2>2, <2>5, <2>6 DEF Typed, Waiting
    <2>8. OneWorks'
      <3>1. \A p \in Ops : state'[p] = "working" => state[p] = "working" /\ p # o
        BY <2>2
      <3>2. \A p \in Ops : /\ state'[p] \in Waiting <=> p \in ToSet(posted')
                           /\ state'[p] = "bulk_write" => bulkWrite
                           /\ state'[p] = "write" => ~bulkWrite
        BY <2>2, <2>5 DEF IInv, OneWorks, Waiting
      <3>3. phase' # "idle" /\ (phase' # "working" => sending' = <<>>)
        BY <1>3, <2>1 DEF IInv, OneWorks
      <3> QED BY <1>1, <2>1, <3>1, <3>2, <3>3 DEF IInv, OneWorks
    <2>9. StoredWait'
      BY <1>1, <2>1, <2>5, <2>6 DEF IInv, StoredWait, Open
    <2>10. CalledInOrder'
      BY <1>1, <2>2 DEF IInv, InOrder, CalledInOrder
    <2>11. ToSet(Line') = ToSet(Line) \cup {o}
      BY <1>1, <2>5, <2>6 DEF Line
    <2>12. InOrder'
      <3>1. \A p \in ToSet(written') \cup ToSet(sending') \cup ToSet(storing') : state'[p] # "new"
        BY <1>1, <2>1, <2>2, <2>4, <2>6
      <3>2. Before(written', sending') /\ Before(written', Line') /\ Before(sending', Line')
        BY <1>1, <2>1, <2>4, <2>11 DEF IInv, InOrder, Before
      <3> QED BY <1>1, <2>1, <2>5, <2>6, <2>10, <3>1, <3>2 DEF IInv, InOrder
    <2>13. Kept'
      BY <1>1, <2>1, <2>2, <2>6 DEF IInv, Kept
    <2> QED BY <2>7, <2>8, <2>9, <2>12, <2>13 DEF IInv
  <1> QED BY <1>2, <1>3

\* The queue starts its next operation, or is idle.
LEMMA PollKeeps ==
  ASSUME IInv, Poll
  PROVE  IInv'
  <1>1. phase = "polling" /\ UNCHANGED <<link, written, bulkWrite>>
    BY DEF Poll, modes
  <1>2. CASE posted = <<>>
    <2>1. phase' = "idle" /\ UNCHANGED <<state, posted, storing, sending>>
      BY <1>2 DEF Poll
    <2>2. Typed' /\ StoredWait' /\ InOrder' /\ Kept'
      BY <1>1, <2>1
      DEF IInv, Typed, StoredWait, InOrder, CalledInOrder, Kept, Line, Open
    <2>3. OneWorks'
      BY <1>1, <1>2, <2>1 DEF IInv, OneWorks
    <2> QED BY <2>2, <2>3 DEF IInv
  <1>3. CASE posted # <<>>
    <2>1. Head(posted) \in Ops /\ Start(Head(posted)) /\ Polled(Head(posted))
      BY <1>1, <1>3, Left DEF Poll, Polled, IInv, Typed
    <2> QED BY <1>1, <2>1, StartKeeps
  <1> QED BY <1>2, <1>3

\* A write ends, and with it its operation.
LEMMA WriteKeeps ==
  ASSUME IInv, NEW o \in Ops, WriteDone(o) \/ WriteFail(o)
  PROVE  IInv'
  <1>1. PICK r \in {"ok", "error"} :
          /\ state' = [state EXCEPT ![o] = r] /\ phase' = "polling" /\ sending' = <<>>
          /\ state[o] = "working"
          /\ UNCHANGED <<link, bulkWrite, posted, storing>>
          /\ \/ link = "up" /\ written' = written \o sending
             \/ link # "up" /\ written' = written
    BY DEF WriteDone, WriteFail, Finish, modes
  <1>2. /\ Typed /\ state'[o] = r /\ \A p \in Ops : p # o => state'[p] = state[p]
    BY <1>1 DEF IInv, Typed
  <1>3. /\ written' \in Seq(Ops) /\ Increasing(written')
        /\ ToSet(written') \subseteq ToSet(written) \cup ToSet(sending)
        /\ link = "up" => ToSet(written') = ToSet(written) \cup ToSet(sending)
    BY <1>1, <1>2, Joint DEF Typed, IInv, InOrder
  <1>4. Typed'
    BY <1>1, <1>2, <1>3, Singletons DEF Typed
  <1>5. OneWorks'
    <2>1. \A p \in Ops : state'[p] # "working"
      BY <1>1, <1>2 DEF IInv, OneWorks
    <2>2. \A p \in Ops : state'[p] \in Waiting <=> state[p] \in Waiting
      BY <1>1, <1>2 DEF Waiting
    <2> QED BY <1>1, <1>2, <2>1, <2>2 DEF IInv, OneWorks
  <1>6. StoredWait'
    BY <1>1 DEF IInv, StoredWait, Open
  <1>7. InOrder'
    <2>1. Line' = Line
      BY <1>1 DEF Line
    <2>2. CalledInOrder'
      BY <1>1, <1>2 DEF IInv, InOrder, CalledInOrder
    <2>3. \A p \in ToSet(written') \cup ToSet(sending') \cup ToSet(storing') : state'[p] # "new"
      <3>1. \A p \in ToSet(written) \cup ToSet(sending) \cup ToSet(storing) :
              p \in Ops /\ state[p] # "new"
        BY DEF IInv, Typed, InOrder, ToSet
      <3> QED BY <1>1, <1>2, <1>3, <3>1, Singletons
    <2>4. Before(written', Line')
      BY <1>3, <2>1 DEF IInv, InOrder, Before
    <2> QED BY <1>1, <1>3, <2>2, <2>3, <2>4, Singletons DEF IInv, InOrder
  <1>8. Kept'
    <2>1. \A p \in Ops : state'[p] # "working" /\ (state'[p] = "bulk_write" => state[p] = "bulk_write")
      BY <1>1, <1>2 DEF IInv, OneWorks
    <2> QED BY <1>1, <1>3, <2>1 DEF IInv, Kept
  <1> QED BY <1>4, <1>5, <1>6, <1>7, <1>8 DEF IInv

\* The connection ends, in the middle of a write or between two.
LEMMA EndKeeps ==
  ASSUME IInv, NEW to \in {"broken", "shut"}, Open, Ending(to)
  PROVE  IInv'
  <1>1. CASE UNCHANGED <<modes, writer>> /\ link' = to
    BY <1>1 DEF IInv, Typed, OneWorks, StoredWait, InOrder, CalledInOrder, Kept, Line, Open,
       modes, writer
  <1>2. CASE link = "up" /\ sending # <<>>
    <2>1. PICK k \in 0..(Len(sending) - 1) : \E n \in 0..(Len(Bytes(sending[k + 1])) - 1) : End(to, k, n)
      BY <1>2 DEF Ending
    <2> DEFINE a == SubSeq(sending, 1, k)
               b == SubSeq(sending, k + 1, Len(sending))
    <2>2. /\ link' = to /\ written' = written \o a /\ sending' = b
          /\ UNCHANGED <<bulkWrite, state, posted, phase, storing>>
      BY <2>1 DEF End, modes
    <2>3. sending \in Seq(Ops) /\ written \in Seq(Ops) /\ Increasing(sending)
      BY DEF IInv, Typed, InOrder
    <2>4. /\ a \in Seq(Ops) /\ b \in Seq(Ops)
          /\ ToSet(a) \subseteq ToSet(sending) /\ ToSet(b) \subseteq ToSet(sending)
          /\ Increasing(a) /\ Increasing(b) /\ Before(a, b)
      BY <2>3, Cut
    <2> HIDE DEF a, b
    <2>5. Before(written, a) /\ Before(written, b)
      BY <2>4 DEF IInv, InOrder, Before
    <2>6. /\ written' \in Seq(Ops) /\ Increasing(written')
          /\ ToSet(written') = ToSet(written) \cup ToSet(a)
      BY <2>2, <2>3, <2>4, <2>5, Joint DEF IInv, InOrder
    <2>7. Typed'
      BY <2>2, <2>4, <2>6 DEF IInv, Typed
    <2>8. OneWorks'
      BY <1>2, <2>2 DEF IInv, OneWorks
    <2>9. StoredWait' /\ Kept'
      BY <2>2 DEF IInv, StoredWait, Kept, Open
    <2>10. Line' = Line
      BY <2>2 DEF Line
    <2>11. InOrder'
      <3>1. Before(written', sending') /\ Before(written', Line') /\ Before(sending', Line')
        BY <2>2, <2>4, <2>5, <2>6, <2>10 DEF IInv, InOrder, Before
      <3> QED BY <2>2, <2>4, <2>6, <3>1 DEF IInv, InOrder, CalledInOrder
    <2> QED BY <2>7, <2>8, <2>9, <2>11 DEF IInv
  <1> QED BY <1>1, <1>2 DEF Ending

\* The connection is closed and made anew: then nothing is pending.
LEMMA ConnectionKeeps ==
  ASSUME IInv, Break \/ Close \/ CloseComplete \/ Reopen
  PROVE  IInv'
  <1>1. CASE Break \/ Close
    BY <1>1, EndKeeps DEF Break, Close, Open
  <1>2. CASE CloseComplete
    <2>1. /\ link = "shut" /\ link' = "closed" /\ storing' = <<>>
          /\ UNCHANGED <<bulkWrite, state, posted, phase, sending, written>>
      BY <1>2 DEF CloseComplete, modes
    <2>2. Typed' /\ OneWorks' /\ StoredWait' /\ Kept'
      BY <2>1, Singletons DEF IInv, Typed, OneWorks, StoredWait, Kept, Open
    <2>3. Line' = IF bulkWrite THEN <<>> ELSE Line
      BY <2>1 DEF Line
    <2>4. InOrder'
      BY <2>1, <2>3, Singletons DEF IInv, InOrder, CalledInOrder
    <2> QED BY <2>2, <2>4 DEF IInv
  <1>3. CASE Reopen
    <2>1. /\ link = "closed" /\ phase = "idle" /\ link' = "up" /\ written' = <<>>
          /\ UNCHANGED <<bulkWrite, state, posted, phase, storing, sending>>
      BY <1>3 DEF Reopen, modes
    <2>2. posted = <<>> /\ storing = <<>> /\ sending = <<>>
      BY <2>1 DEF IInv, OneWorks, StoredWait
    <2>3. Typed' /\ OneWorks'
      BY <2>1, Singletons DEF IInv, Typed, OneWorks
    <2>4. StoredWait' /\ InOrder'
      BY <2>1, <2>2, Singletons DEF IInv, StoredWait, InOrder, CalledInOrder, Line
    <2>5. \A o \in Ops : state[o] # "bulk_write" /\ state[o] # "working"
      BY <2>1, <2>2, Singletons DEF IInv, OneWorks, Waiting
    <2> QED BY <2>1, <2>3, <2>4, <2>5 DEF IInv, Kept
  <1> QED BY <1>1, <1>2, <1>3

\* What reads leaves the writer alone.
LEMMA ReadingKeeps ==
  ASSUME IInv, Arrive \/ Receive \/ SendConnect
  PROVE  IInv'
  <1>1. UNCHANGED <<modes, writer, link>>
    BY DEF Arrive, Receive, SendConnect, ReadExactly, ReadParsed, ReadError, ReadSome, RejectionSent, ReceiveFails
  <1> QED BY <1>1, StaysKept

\* Every step keeps the inductive invariant.
LEMMA NextInvariant == IInv /\ [Next]_vars => IInv'
  <1> SUFFICES ASSUME IInv, [Next]_vars PROVE IInv'
    OBVIOUS
  <1>1. CASE UNCHANGED vars
    BY <1>1, StaysKept DEF vars
  <1>2. CASE Next
    BY <1>2, CallKeeps, PollKeeps, WriteKeeps, ConnectionKeeps, ReadingKeeps DEF Next, Work
  <1> QED BY <1>1, <1>2

\* The write queue of the stream, used in any way, keeps the inductive invariant.
THEOREM Invariance == Spec => []IInv
  BY InitInvariant, NextInvariant, PTL DEF Spec
-------------------------------------------------------------------------------
\* On each connection packets are written in the order of async_write_packet, and none
\* of them twice: a bulk write takes what is stored before anything that comes later,
\* and what a broken connection or a close leaves unwritten does not come after.
WrittenInOrder == Increasing(written)

\* It follows from the order in which packets are stored, sent and written.
THEOREM WritesKeepOrder == Spec => []WrittenInOrder
  <1>1. IInv => WrittenInOrder
    BY DEF IInv, InOrder, WrittenInOrder
  <1> QED BY <1>1, Invariance, PTL

\* A write_packet_op that completes without an error has written its packet, or another
\* operation has done so on the same connection; a follower of a bulk write that fails
\* is not counted.
THEOREM SuccessMeansWritten == Spec => SuccessIsWritten
  <1>1. ASSUME IInv, [Next]_vars, NEW o \in Ops, state[o] # "ok", state'[o] = "ok",
               bulkWrite => link = "up"
        PROVE  o \in ToSet(written')
    <2>1. state \in [Ops -> Waiting \cup {"new", "working", "ok", "error"}]
      BY <1>1 DEF IInv, Typed
    <2>2. ASSUME NEW p \in Ops, Start(p), CalledAtOnce(p) \/ Polled(p),
                 UNCHANGED <<link, written, bulkWrite>>
          PROVE  o \in ToSet(written')
      <3>1. PICK s \in {"working", "ok", "error"} :
              /\ state' = [state EXCEPT ![p] = s]
              /\ s = "ok" => Taken(p) = <<>> /\ state[p] = "bulk_write" /\ bulkWrite
        BY <1>1, <2>2, Started
      <3>2. p = o /\ s = "ok"
        BY <1>1, <2>1, <3>1
      <3>3. storing = <<>> /\ link = "up" /\ state[o] = "bulk_write"
        BY <1>1, <3>1, <3>2 DEF Taken
      <3>4. sending = <<>>
        BY <1>1, <2>2, Takes
      <3> QED BY <1>1, <2>2, <3>3, <3>4, Singletons DEF IInv, Kept
    <2>3. CASE \E p \in Ops : Call(p)
      <3>1. PICK p \in Ops : Call(p)
        BY <2>3
      <3>2. CASE phase = "idle"
        BY <2>2, <3>1, <3>2 DEF Call, Immediate, CalledAtOnce, modes
      <3>3. CASE phase # "idle"
        BY <1>1, <2>1, <3>1, <3>3 DEF Call, Immediate
      <3> QED BY <3>2, <3>3
    <2>4. CASE Poll
      <3>1. CASE posted = <<>>
        BY <1>1, <2>4, <3>1 DEF Poll
      <3>2. CASE posted # <<>>
        <4>1. Head(posted) \in Ops /\ Start(Head(posted)) /\ Polled(Head(posted))
              /\ UNCHANGED <<link, written, bulkWrite>>
          BY <1>1, <2>4, <3>2, Left DEF Poll, Polled, IInv, Typed, modes
        <4> QED BY <2>2, <4>1
      <3> QED BY <3>1, <3>2
    <2>5. CASE \E p \in Ops : WriteDone(p) \/ WriteFail(p)
      <3>1. PICK p \in Ops : WriteDone(p) \/ WriteFail(p)
        BY <2>5
      <3>2. p = o /\ WriteDone(o)
        BY <1>1, <2>1, <3>1 DEF WriteDone, WriteFail, Finish
      <3>3. state[o] = "working" /\ link = "up" /\ written' = written \o sending
        BY <3>2 DEF WriteDone
      <3>4. ToSet(written') = ToSet(written) \cup ToSet(sending)
        BY <1>1, <3>3, Joint DEF IInv, Typed
      <3> QED BY <1>1, <3>3, <3>4 DEF IInv, Kept
    <2>6. CASE \/ Arrive \/ Receive \/ SendConnect \/ Break \/ Close \/ CloseComplete \/ Reopen
               \/ UNCHANGED vars
      <3>1. state' = state
        BY <2>6 DEF Arrive, Receive, SendConnect, ReadExactly, ReadParsed, ReadError, ReadSome, RejectionSent,
           ReceiveFails, Break, Close, Ending, End, CloseComplete, Reopen, vars, writer
      <3> QED BY <1>1, <3>1
    <2> QED BY <1>1, <2>3, <2>4, <2>5, <2>6 DEF Next, Work
  <1>2. IInv /\ [Next]_vars =>
          [\A o \in Ops : state[o] # "ok" /\ state'[o] = "ok" /\ (bulkWrite => link = "up")
              => o \in ToSet(written')]_vars
    BY <1>1
  <1> QED BY <1>2, Invariance, PTL DEF Spec, SuccessIsWritten
-------------------------------------------------------------------------------
\* What async_recv has completed with is a queue, and the last completion is the one
\* that was added.
Listed(q) == q \in Seq(ToSet(q))

\* The last completion is the one added.
LEMMA Completed ==
  ASSUME NEW q, Listed(q), NEW r
  PROVE  Listed(Append(q, r)) /\ Append(q, r) # <<>> /\ Last(Append(q, r)) = r
  <1> DEFINE S == ToSet(q) \cup {r}
  <1>1. q \in Seq(S)
    BY SeqMonotonic DEF Listed
  <1> HIDE DEF S
  <1>2. r \in S
    BY DEF S
  <1>3. /\ Append(q, r) \in Seq(S) /\ Len(Append(q, r)) = Len(q) + 1 /\ Len(q) \in Nat
        /\ Append(q, r)[Len(q) + 1] = r /\ Append(q, r) # <<>>
        /\ DOMAIN Append(q, r) = 1..(Len(q) + 1)
    BY <1>1, <1>2
  <1>4. \A i \in 1..Len(Append(q, r)) : Append(q, r)[i] \in ToSet(Append(q, r))
    BY <1>3 DEF ToSet
  <1> QED BY <1>3, <1>4, SeqDef DEF Listed, Last

\* Once the endpoint has sent or read a CONNECT, the connection is closed when async_recv
\* has failed for another reason than an abort, and stays so until the application connects
\* again, which begins a new list of completions.
THEOREM FailedMeansClosed == Spec => []FailedIsClosed
  <1> DEFINE I == Listed(delivered) /\ FailedIsClosed
  <1>1. Init => I
    <2>1. Listed(<<>>)
      BY DEF Listed, ToSet
    <2> QED BY <2>1 DEF Init, FailedIsClosed, Failed
  <1>2. I /\ [Next]_vars => I'
    <2> SUFFICES ASSUME I, [Next]_vars PROVE I'
      OBVIOUS
    <2>1. ASSUME delivered' = delivered, link = "closed" => link' = "closed" PROVE I'
      BY <2>1 DEF FailedIsClosed, Failed
    <2>2. ASSUME NEW r, delivered' = Append(delivered, r),
                 r.ec # "error" \/ link' = "closed"
          PROVE  I'
      <3>1. Listed(delivered') /\ Last(delivered') = r
        BY <2>2, Completed
      <3> QED BY <2>2, <3>1 DEF FailedIsClosed, Failed
    <2>3. ASSUME NEW f, NEW r, HandleRead(f, r), link' = link PROVE I'
      <3>1. Failure("aborted").ec = "aborted"
        BY DEF Failure
      <3>2. CASE r.ec = "success"
        <4>1. delivered' = delivered \/ delivered' = Append(delivered, r)
          BY <2>3, <3>2 DEF HandleRead, HandlePacket, GiveUp
        <4> QED BY <2>1, <2>2, <2>3, <3>2, <4>1
      <3>3. CASE r.ec # "success"
        <4>1. Abort(f) \/ GiveUp("close", f)
          BY <2>3, <3>3 DEF HandleRead, HandleError
        <4> QED BY <2>1, <2>2, <2>3, <3>1, <4>1 DEF Abort, GiveUp
      <3> QED BY <3>2, <3>3
    <2>4. CASE ReadExactly
      <3>1. link' = link
        BY <2>4 DEF ReadExactly
      <3>2. delivered' = delivered \/ \E f, r : HandleRead(f, r)
        BY <2>4 DEF ReadExactly
      <3> QED BY <2>1, <2>3, <3>1, <3>2
    <2>5. CASE ReadParsed
      BY <2>3, <2>5 DEF ReadParsed
    <2>6. CASE ReadError
      <3>1. link' = link
        BY <2>6 DEF ReadError
      <3>2. delivered' = delivered \/ \E f, r : HandleRead(f, r)
        BY <2>6 DEF ReadError
      <3> QED BY <2>1, <2>3, <3>1, <3>2
    <2>7. CASE RejectionSent
      <3>1. CASE Abort(frame)
        <4>1. Failure("aborted").ec = "aborted"
          BY DEF Failure
        <4> QED BY <2>2, <3>1, <4>1 DEF Abort
      <3>2. CASE GiveUp("close", frame)
        BY <2>1, <2>7, <3>2 DEF RejectionSent, GiveUp
      <3> QED BY <2>7, <3>1, <3>2 DEF RejectionSent
    <2>8. CASE ReceiveFails
      <3>1. Failure("unstarted").ec = "unstarted"
        BY DEF Failure
      <3>2. CASE link = "closed" /\ delivered' = Append(delivered, Failure("error"))
        BY <2>2, <2>8, <3>2 DEF ReceiveFails
      <3>3. CASE delivered' = Append(delivered, Failure("unstarted"))
        BY <2>2, <3>1, <3>3
      <3> QED BY <2>8, <3>2, <3>3 DEF ReceiveFails
    <2>9. CASE Reopen
      <3>1. Listed(<<>>)
        BY DEF Listed, ToSet
      <3> QED BY <2>9, <3>1 DEF Reopen, FailedIsClosed, Failed
    <2>10. CASE \/ Receive \/ SendConnect \/ Poll \/ CloseComplete \/ Break \/ Close \/ UNCHANGED vars
                \/ (\E n \in 1..Chunk : ReadSome(n))
                \/ (\E o \in Ops : Call(o) \/ WriteDone(o) \/ WriteFail(o))
      <3>1. delivered' = delivered
        BY <2>10 DEF Receive, SendConnect, Poll, CloseComplete, Break, Close, Ending, End, ReadSome,
           Call, WriteDone, WriteFail, vars
      <3>2. link = "closed" => link' = "closed"
        BY <2>10 DEF Receive, SendConnect, Poll, CloseComplete, Break, Close, Open, ReadSome, Call,
           WriteDone, WriteFail, vars
      <3> QED BY <2>1, <3>1, <3>2
    <2> QED BY <2>4, <2>5, <2>6, <2>7, <2>8, <2>9, <2>10 DEF Next, Work, Arrive
  <1>3. I => FailedIsClosed
    OBVIOUS
  <1> QED BY <1>1, <1>2, <1>3, PTL DEF Spec

--------------------------------------------------------------------------------
\* The length of a packet: a number in digits of one byte each.

\* A byte has two digits at least.
LEMMA BaseIs == Base \in Nat /\ Base > 1
  <1>1. Base \in Nat \ {0, 1}
    BY StreamAssumption, Zenon
  <1> QED BY <1>1

\* A quotient by the base is smaller, and the remainder is a digit.
LEMMA Divided ==
  ASSUME NEW n \in Nat
  PROVE  /\ n % Base \in Nat /\ n % Base < Base /\ n \div Base \in Nat
         /\ n = Base * (n \div Base) + (n % Base)
         /\ n >= Base => n \div Base < n
  <1>1. Base \in Nat /\ Base > 1
    BY BaseIs
  <1>2. n % Base \in Nat /\ n % Base < Base
    BY <1>1
  <1>3. n \div Base \in Nat
    <2>1. n \div Base \in Int
      BY <1>1
    <2>2. n \div Base >= 0
      BY <1>1
    <2> QED BY <2>1, <2>2
  <1>4. n = Base * (n \div Base) + (n % Base)
    BY <1>1
  <1>5. ASSUME NEW q \in Nat, NEW r \in Nat, n = Base * q + r, n >= Base PROVE q < n
    <2>1. Base * q >= 2 * q
      BY <1>1
    <2>2. q = 0 \/ q >= 1
      OBVIOUS
    <2> QED BY <1>1, <1>5, <2>1, <2>2
  <1>6. n >= Base => n \div Base < n
    BY <1>2, <1>3, <1>4, <1>5
  <1> QED BY <1>2, <1>3, <1>4, <1>6

\* What a byte of a length says.
LEMMA Digits ==
  ASSUME NEW d \in Nat, d < Base
  PROVE  /\ Digit(d) = d /\ ~Continues(d)
         /\ Digit(d + Base) = d /\ Continues(d + Base)
  <1>1. Base \in Nat /\ Base > 1
    BY BaseIs
  <1>2. (d + Base) % Base = d /\ d % Base = d
    BY <1>1
  <1> QED BY <1>1, <1>2 DEF Digit, Continues

\* The natural numbers are well ordered.
LEMMA NaturalsWellFounded == IsWellFoundedOn({p \in Nat \X Nat : p[1] < p[2]}, Nat)
  BY NatLessThanWellFounded DEF OpToRel

\* A set of numbers has a least one.
LEMMA LeastOf ==
  ASSUME NEW S \in SUBSET Nat, S # {}
  PROVE  \E i \in S : \A j \in S : i <= j
  <1> DEFINE R == {p \in Nat \X Nat : p[1] < p[2]}
  <1>1. IsWellFoundedOn(R, Nat)
    BY NaturalsWellFounded
  <1> HIDE DEF R
  <1>2. PICK i \in S : \A j \in S : ~(<<j, i>> \in R)
    BY <1>1, WFMin
  <1>3. ASSUME NEW j \in S PROVE i <= j
    <2>1. \A a, b \in Nat : a < b => <<a, b>> \in R
      BY DEF R
    <2>2. ~(j < i)
      BY <1>2, <2>1
    <2> QED BY <2>2
  <1> QED BY <1>3

\* Induction over the natural numbers, for a set of them.
LEMMA NaturalsFrom0 ==
  ASSUME NEW B \in SUBSET Nat, 0 \in B, \A n \in B : n + 1 \in B
  PROVE  Nat \subseteq B
  <1> SUFFICES ASSUME Nat \ B # {} PROVE FALSE
    OBVIOUS
  <1>1. PICK m \in Nat \ B : \A n \in Nat \ B : m <= n
    BY LeastOf
  <1>2. m - 1 \in Nat
    BY <1>1
  <1>3. m - 1 \in B
    BY <1>1, <1>2
  <1>4. (m - 1) + 1 \in B
    BY <1>3
  <1> QED BY <1>1, <1>4

\* A number is written digit by digit.
FieldOf(h, n) == IF n < Base THEN <<n>> ELSE <<(n % Base) + Base>> \o h[n \div Base]
\* A function that is right up to k.
WellWritten(h, k) == h \in [Nat -> Seq(Nat)] /\ \A n \in 0..k : h[n] = FieldOf(h, n)

\* The field of a length is what its definition says, byte by byte: the recursion ends.
LEMMA FieldIs ==
  /\ Field \in [Nat -> Seq(Nat)]
  /\ \A n \in Nat : Field[n] = FieldOf(Field, n)
  <1>1. ASSUME NEW h \in [Nat -> Seq(Nat)], NEW n \in Nat PROVE FieldOf(h, n) \in Seq(Nat)
    <2>1. (n % Base) + Base \in Nat /\ n \div Base \in Nat
      BY BaseIs, Divided
    <2> QED BY <2>1 DEF FieldOf
  <1>2. ASSUME NEW h, NEW g, NEW n \in Nat, n >= Base => h[n \div Base] = g[n \div Base]
        PROVE  FieldOf(h, n) = FieldOf(g, n)
    BY <1>2, BaseIs DEF FieldOf
  <1> DEFINE Made == {k \in Nat : \E h : WellWritten(h, k)}
             Same == {k \in Nat : \A h, g : WellWritten(h, k) /\ WellWritten(g, k)
                                    => \A n \in 0..k : h[n] = g[n]}
  <1>3. \A h, k : k \in Nat /\ WellWritten(h, k + 1) => WellWritten(h, k)
    BY DEF WellWritten
  <1>4. \A n \in Nat : n >= Base => n \div Base \in Nat /\ n \div Base < n
    BY Divided
  <1>5. ASSUME NEW k \in Nat, NEW h \in [Nat -> Seq(Nat)], \A n \in 0..(k - 1) : h[n] = FieldOf(h, n)
        PROVE  \E g : WellWritten(g, k)
    <2> DEFINE g == [n \in Nat |-> IF n = k THEN FieldOf(h, k) ELSE h[n]]
    <2>1. g \in [Nat -> Seq(Nat)]
      BY <1>1
    <2>2. ASSUME NEW n \in 0..k PROVE g[n] = FieldOf(g, n)
      <3>1. n >= Base => g[n \div Base] = h[n \div Base]
        BY <1>4, <2>2
      <3>2. FieldOf(g, n) = FieldOf(h, n)
        <4> HIDE DEF g
        <4> QED BY <1>2, <2>2, <3>1
      <3> QED BY <1>5, <3>2
    <2>3. WellWritten(g, k)
      BY <2>1, <2>2 DEF WellWritten
    <2> QED BY <2>3
  <1>6. Nat \subseteq Made
    <2>1. 0 \in Made
      <3> DEFINE h == [n \in Nat |-> <<>>]
      <3>1. h \in [Nat -> Seq(Nat)]
        OBVIOUS
      <3> HIDE DEF h
      <3>2. \A n \in 0..(0 - 1) : h[n] = FieldOf(h, n)
        OBVIOUS
      <3>3. \E g : WellWritten(g, 0)
        BY <1>5, <3>1, <3>2
      <3> QED BY <3>3
    <2>2. ASSUME NEW k \in Made PROVE k + 1 \in Made
      <3>1. PICK h : WellWritten(h, k)
        OBVIOUS
      <3>2. k + 1 \in Nat /\ (k + 1) - 1 = k
        OBVIOUS
      <3>3. h \in [Nat -> Seq(Nat)] /\ \A n \in 0..((k + 1) - 1) : h[n] = FieldOf(h, n)
        BY <3>1, <3>2 DEF WellWritten
      <3>4. \E g : WellWritten(g, k + 1)
        BY <1>5, <3>2, <3>3
      <3> QED BY <3>2, <3>4
    <2>3. Made \in SUBSET Nat
      OBVIOUS
    <2> HIDE DEF Made
    <2> QED BY <2>1, <2>2, <2>3, NaturalsFrom0
  <1>7. Nat \subseteq Same
    <2>1. 0 \in Same
      <3>1. \A h : WellWritten(h, 0) => h[0] = <<0>>
        BY BaseIs DEF WellWritten, FieldOf
      <3> QED BY <3>1
    <2>2. ASSUME NEW k \in Same, NEW h, NEW g, WellWritten(h, k + 1), WellWritten(g, k + 1),
                 NEW n \in 0..(k + 1)
          PROVE  h[n] = g[n]
      <3>1. \A m \in 0..k : h[m] = g[m]
        BY <1>3, <2>2
      <3>2. CASE n = k + 1
        <4>1. n >= Base => h[n \div Base] = g[n \div Base]
          BY <1>4, <3>1, <3>2
        <4>2. FieldOf(h, n) = FieldOf(g, n)
          BY <1>2, <4>1
        <4> QED BY <2>2, <4>2 DEF WellWritten
      <3> QED BY <3>1, <3>2
    <2>3. Same \in SUBSET Nat /\ \A k \in Same : k + 1 \in Same
      BY <2>2
    <2> HIDE DEF Same
    <2> QED BY <2>1, <2>3, NaturalsFrom0
  <1> DEFINE best(n) == CHOOSE h : WellWritten(h, n)
             F == [n \in Nat |-> best(n)[n]]
  <1>8. \A n \in Nat : WellWritten(best(n), n)
    BY <1>6
  <1> HIDE DEF best
  <1>9. \A k, n \in Nat : n <= k => WellWritten(best(k), n)
    BY <1>8 DEF WellWritten
  <1>10. F \in [Nat -> Seq(Nat)]
    BY <1>8 DEF WellWritten
  <1>11. ASSUME NEW n \in Nat PROVE F[n] = FieldOf(F, n)
    <2>1. F[n] = FieldOf(best(n), n)
      BY <1>8 DEF WellWritten
    <2>2. ASSUME n >= Base PROVE F[n \div Base] = best(n)[n \div Base]
      <3> DEFINE m == n \div Base
      <3>1. m \in Nat /\ m < n
        BY <1>4, <2>2
      <3> HIDE DEF m
      <3>2. WellWritten(best(n), m) /\ WellWritten(best(m), m)
        BY <1>9, <3>1
      <3>3. best(n)[m] = best(m)[m]
        BY <1>7, <3>1, <3>2
      <3> QED BY <3>1, <3>3 DEF m
    <2> HIDE DEF F
    <2>3. FieldOf(F, n) = FieldOf(best(n), n)
      BY <1>2, <2>2
    <2> QED BY <2>1, <2>3
  <1> HIDE DEF F
  <1>12. F = [n \in Nat |-> FieldOf(F, n)]
    BY <1>10, <1>11
  <1>13. Field = [n \in Nat |-> FieldOf(Field, n)]
    BY <1>12 DEF Field, FieldOf
  <1>14. \A n \in Nat : Field[n] = FieldOf(Field, n)
    BY <1>13
  <1> DEFINE Proper == {k \in Nat : \A n \in 0..k : Field[n] \in Seq(Nat)}
  <1>15. ASSUME NEW k \in Nat, \A n \in Nat : n < k => Field[n] \in Seq(Nat)
         PROVE  Field[k] \in Seq(Nat)
    <2>1. CASE k < Base
      <3>1. Field[k] = <<k>>
        BY <1>14, <2>1 DEF FieldOf
      <3> QED BY <3>1
    <2>2. CASE ~(k < Base)
      <3>1. Field[k] = <<(k % Base) + Base>> \o Field[k \div Base]
        BY <1>14, <2>2 DEF FieldOf
      <3>2. k \div Base \in Nat /\ k \div Base < k
        BY <1>4, <2>2, BaseIs
      <3>3. (k % Base) + Base \in Nat /\ Field[k \div Base] \in Seq(Nat)
        BY <1>15, <3>2, BaseIs, Divided
      <3> QED BY <3>1, <3>3
    <2> QED BY <2>1, <2>2
  <1>16. 0 \in Proper
    BY <1>15
  <1>17. ASSUME NEW k \in Proper PROVE k + 1 \in Proper
    <2>1. k \in Nat /\ \A n \in Nat : n < k + 1 => Field[n] \in Seq(Nat)
      OBVIOUS
    <2>2. Field[k + 1] \in Seq(Nat)
      BY <1>15, <2>1
    <2> QED BY <2>1, <2>2
  <1>18. 0 \in Proper /\ \A k \in Proper : k + 1 \in Proper
    BY <1>16, <1>17
  <1>19. Proper \in SUBSET Nat
    OBVIOUS
  <1>20. \A n \in Nat : Field[n] \in Seq(Nat)
    <2>1. \A k \in Proper : Field[k] \in Seq(Nat)
      OBVIOUS
    <2> HIDE DEF Proper
    <2> QED BY <1>18, <1>19, <2>1, NaturalsFrom0
  <1>21. Field = [n \in Nat |-> Field[n]]
    BY <1>13
  <1> QED BY <1>14, <1>20, <1>21

--------------------------------------------------------------------------------
\* The bytes of packets, one after the other.

\* The joining of sequences of bytes, and a sequence of one, as operators that the provers
\* need not look into.
Cat(a, b) == a \o b
One(b) == <<b>>

\* It does not matter in which order sequences of bytes are joined.
LEMMA Associative ==
  \A a, b, c \in Seq(Nat) : (a \o b) \o c = a \o (b \o c) /\ a \o b \in Seq(Nat)
  BY ConcatAssociative

\* The same of the operator.
LEMMA Cats ==
  \A a, b, c : a \in Seq(Nat) /\ b \in Seq(Nat) /\ c \in Seq(Nat) =>
     Cat(a, b) \in Seq(Nat) /\ Cat(Cat(a, b), c) = Cat(a, Cat(b, c))
  BY ConcatAssociative DEF Cat

\* The lengths of what is joined; an empty sequence adds nothing.
LEMMA CatLengths ==
  /\ \A a, b : a \in Seq(Nat) /\ b \in Seq(Nat) => Len(Cat(a, b)) = Len(a) + Len(b)
  /\ \A a : a \in Seq(Nat) => Len(a) \in Nat /\ Cat(a, <<>>) = a /\ Cat(<<>>, a) = a
  /\ \A b : b \in Nat => One(b) \in Seq(Nat) /\ Len(One(b)) = 1
  BY DEF Cat, One

\* Sequences that are the same have the same first byte and the same rest.
LEMMA FirstByte ==
  ASSUME NEW a \in Nat, NEW b \in Nat, NEW t \in Seq(Nat), NEW u \in Seq(Nat),
         Cat(One(a), t) = Cat(One(b), u)
  PROVE  a = b /\ t = u
  <1>1. ASSUME NEW c \in Nat, NEW q \in Seq(Nat)
        PROVE  /\ Len(Cat(One(c), q)) = Len(q) + 1 /\ Cat(One(c), q)[1] = c
               /\ \A i \in 1..Len(q) : Cat(One(c), q)[i + 1] = q[i]
    <2>1. /\ <<c>> \in Seq(Nat) /\ Len(<<c>>) = 1 /\ Len(q) \in Nat /\ <<c>>[1] = c
      OBVIOUS
    <2>2. /\ Len(<<c>> \o q) = 1 + Len(q)
          /\ \A i \in 1..(1 + Len(q)) : (<<c>> \o q)[i] = IF i <= 1 THEN <<c>>[i] ELSE q[i - 1]
      BY <2>1, ConcatProperties
    <2>3. (<<c>> \o q)[1] = c
      BY <2>1, <2>2
    <2>4. \A i \in 1..Len(q) : (<<c>> \o q)[i + 1] = q[i]
      BY <2>1, <2>2
    <2> QED BY <2>1, <2>2, <2>3, <2>4 DEF Cat, One
  <1>2. a = b
    BY <1>1
  <1>3. Len(t) = Len(u)
    BY <1>1
  <1>4. \A i \in 1..Len(t) : t[i] = u[i]
    BY <1>1, <1>3
  <1>5. t = u
    BY <1>3, <1>4, SeqEqual
  <1> QED BY <1>2, <1>5

\* The bytes of a packet: a header, a length of one byte at least, a payload.
Measured == lengths \in [Ops -> Nat]
\* The bytes of a payload.
Copies(n, o) == [i \in 1..n |-> o]

\* A payload has the bytes of its length, the first one like the others.
LEMMA CopiesAre ==
  ASSUME NEW n \in Nat, NEW o \in Ops
  PROVE  /\ Copies(n, o) \in Seq(Nat) /\ Len(Copies(n, o)) = n
         /\ Copies(n + 1, o) = Cat(One(o), Copies(n, o))
         /\ n = 0 => Copies(n, o) = <<>>
  <1>1. o \in Nat
    BY DEF Ops
  <1>2. \A k \in Nat : Copies(k, o) \in Seq(Nat) /\ Len(Copies(k, o)) = k
    BY <1>1 DEF Copies
  <1>3. Copies(n + 1, o) = <<o>> \o Copies(n, o)
    <2>1. /\ <<o>> \o Copies(n, o) \in Seq(Nat) /\ Len(<<o>> \o Copies(n, o)) = n + 1
          /\ \A i \in 1..(n + 1) : (<<o>> \o Copies(n, o))[i] = o
      BY <1>1, <1>2 DEF Copies
    <2>2. \A i \in 1..(n + 1) : Copies(n + 1, o)[i] = o
      BY DEF Copies
    <2>3. Copies(n + 1, o) \in Seq(Nat) /\ Len(Copies(n + 1, o)) = n + 1
      BY <1>2
    <2> QED BY <2>1, <2>2, <2>3, SeqEqual
  <1>4. n = 0 => Copies(n, o) = <<>>
    BY <1>2
  <1> QED BY <1>2, <1>3, <1>4 DEF Cat, One

\* A packet has two bytes at least, and the first one is its header.
LEMMA BytesAre ==
  ASSUME Measured, NEW o \in Ops
  PROVE  /\ o \in Nat /\ lengths[o] \in Nat
         /\ Bytes(o) = Cat(Cat(One(o), Field[lengths[o]]), Copies(lengths[o], o))
         /\ Bytes(o) \in Seq(Nat) /\ Len(Bytes(o)) >= 2
         /\ Head(Bytes(o)) = o
  <1>1. o \in Nat /\ lengths[o] \in Nat
    BY DEF Measured, Ops
  <1>2. Bytes(o) = <<o>> \o Field[lengths[o]] \o Copies(lengths[o], o)
    BY DEF Bytes, Copies
  <1> DEFINE f == Field[lengths[o]]
             c == Copies(lengths[o], o)
  <1>3. f \in Seq(Nat) /\ c \in Seq(Nat)
    BY <1>1, FieldIs, CopiesAre
  <1>4. Len(f) >= 1
    <2>1. f = FieldOf(Field, lengths[o])
      BY <1>1, FieldIs
    <2>2. CASE lengths[o] < Base
      BY <2>1, <2>2 DEF FieldOf
    <2>3. CASE ~(lengths[o] < Base)
      <3> DEFINE d == (lengths[o] % Base) + Base
                 r == Field[lengths[o] \div Base]
      <3>1. d \in Nat /\ r \in Seq(Nat)
        <4>1. \A n \in Nat : (n % Base) + Base \in Nat /\ n \div Base \in Nat
          BY BaseIs, Divided
        <4> QED BY <1>1, <4>1, FieldIs
      <3>2. f = <<d>> \o r
        BY <2>1, <2>3 DEF FieldOf
      <3> HIDE DEF d, r, f
      <3> QED BY <3>1, <3>2
    <2> QED BY <2>2, <2>3
  <1> HIDE DEF f, c
  <1>5. <<o>> \o f \o c \in Seq(Nat) /\ Len(<<o>> \o f \o c) >= 2 /\ Head(<<o>> \o f \o c) = o
    BY <1>1, <1>3, <1>4
  <1> QED BY <1>1, <1>2, <1>5 DEF f, c, Cat, One

\* One sequence of bytes after the other, as FlattenSeq joins them.
Piles == Seq(Seq(Nat))
Flat(h, s) ==
  h = [i \in 1..Len(s) |-> IF i = 1 THEN s[i] ELSE h[i - 1] \o s[i]]

\* There is such a function, and it gives sequences of bytes.
LEMMA FlatIs ==
  ASSUME NEW s \in Piles
  PROVE  /\ \E h : Flat(h, s)
         /\ \A h : Flat(h, s) => h \in [1..Len(s) -> Seq(Nat)]
  <1>1. /\ Len(s) \in Nat /\ \A i \in 1..Len(s) : s[i] \in Seq(Nat)
    BY DEF Piles
  <1> DEFINE n == Len(s)
             Glued(h, i) == IF i = 1 THEN s[i] ELSE h[i - 1] \o s[i]
             Made == {k \in Nat : k <= n =>
                        \E h \in [1..n -> Seq(Nat)] : \A i \in 1..k : h[i] = Glued(h, i)}
  <1>2. 0 \in Made
    <2> DEFINE h == [i \in 1..n |-> <<>>]
    <2>1. h \in [1..n -> Seq(Nat)]
      OBVIOUS
    <2> HIDE DEF h, Glued
    <2> QED BY <2>1
  <1>3. ASSUME NEW k \in Made, k + 1 <= n PROVE k + 1 \in Made
    <2>1. PICK h \in [1..n -> Seq(Nat)] : \A i \in 1..k : h[i] = Glued(h, i)
      BY <1>1, <1>3
    <2> DEFINE g == [i \in 1..n |-> IF i = k + 1 THEN Glued(h, i) ELSE h[i]]
    <2>2. g \in [1..n -> Seq(Nat)]
      BY <1>1
    <2>3. \A i \in 1..(k + 1) : g[i] = Glued(g, i)
      BY <1>1, <1>3, <2>1
    <2> HIDE DEF g, Glued
    <2> QED BY <1>1, <2>2, <2>3
  <1>4. ASSUME NEW k \in Made PROVE k + 1 \in Made
    <2>1. CASE k + 1 <= n
      BY <1>3, <2>1
    <2>2. CASE ~(k + 1 <= n)
      BY <2>2
    <2> QED BY <2>1, <2>2
  <1>5. n \in Made
    <2>1. Made \in SUBSET Nat
      OBVIOUS
    <2> HIDE DEF Made
    <2> QED BY <1>1, <1>2, <1>4, <2>1, NaturalsFrom0
  <1>6. \E h : Flat(h, s)
    <2>1. PICK h \in [1..n -> Seq(Nat)] : \A i \in 1..n : h[i] = Glued(h, i)
      BY <1>1, <1>5
    <2>2. h = [i \in 1..n |-> Glued(h, i)]
      BY <2>1
    <2> QED BY <2>2 DEF Flat
  <1>7. ASSUME NEW h, Flat(h, s) PROVE h \in [1..Len(s) -> Seq(Nat)]
    <2> DEFINE Joins == {k \in Nat : \A i \in 1..n : i <= k => h[i] \in Seq(Nat)}
    <2>1. h = [i \in 1..n |-> Glued(h, i)]
      BY <1>7 DEF Flat
    <2>2. 0 \in Joins
      BY <1>1
    <2>3. ASSUME NEW k \in Joins PROVE k + 1 \in Joins
      <3>1. ASSUME NEW i \in 1..n, i = k + 1 PROVE h[i] \in Seq(Nat)
        <4>1. h[i] = Glued(h, i)
          BY <2>1
        <4>2. i # 1 => h[i - 1] \in Seq(Nat)
          BY <1>1, <3>1
        <4> QED BY <1>1, <4>1, <4>2
      <3> QED BY <1>1, <3>1
    <2>4. n \in Joins
      <3>1. Joins \in SUBSET Nat
        OBVIOUS
      <3> HIDE DEF Joins
      <3> QED BY <1>1, <2>2, <2>3, <3>1, NaturalsFrom0
    <2>5. \A i \in 1..n : h[i] \in Seq(Nat)
      BY <1>1, <2>4
    <2>6. h = [i \in 1..n |-> h[i]]
      BY <2>1
    <2> QED BY <2>5, <2>6
  <1> QED BY <1>6, <1>7

\* FlattenSeq joins the last sequence to what the others gave.
LEMMA FlattenAppend ==
  ASSUME NEW s \in Piles, NEW x \in Seq(Nat)
  PROVE  /\ FlattenSeq(s) \in Seq(Nat)
         /\ FlattenSeq(Append(s, x)) = FlattenSeq(s) \o x
  <1> DEFINE t == Append(s, x)
             n == Len(s)
             h == CHOOSE h : Flat(h, s)
             g == CHOOSE g : Flat(g, t)
  <1>1. /\ t \in Piles /\ Len(t) = n + 1 /\ n \in Nat /\ t[n + 1] = x
        /\ \A i \in 1..n : t[i] = s[i] /\ s[i] \in Seq(Nat)
    BY DEF Piles
  <1>2. Flat(h, s) /\ h \in [1..n -> Seq(Nat)]
    BY FlatIs
  <1>3. Flat(g, t) /\ g \in [1..(n + 1) -> Seq(Nat)]
    BY <1>1, FlatIs
  <1>4. FlattenSeq(s) = IF n = 0 THEN s ELSE h[n]
    BY DEF FlattenSeq, Flat
  <1>5. FlattenSeq(t) = IF Len(t) = 0 THEN t ELSE g[Len(t)]
    BY DEF FlattenSeq, Flat
  <1> HIDE DEF h, g, t
  <1>6. n = 0 => s = <<>>
    BY DEF Piles
  <1>7. FlattenSeq(s) \in Seq(Nat)
    BY <1>1, <1>2, <1>4, <1>6
  <1>8. FlattenSeq(t) = g[n + 1]
    BY <1>1, <1>5
  <1> DEFINE Same == {k \in Nat : \A i \in 1..n : i <= k => g[i] = h[i]}
  <1>9. /\ \A i \in 1..n : h[i] = IF i = 1 THEN s[i] ELSE h[i - 1] \o s[i]
        /\ \A i \in 1..(n + 1) : g[i] = IF i = 1 THEN t[i] ELSE g[i - 1] \o t[i]
    BY <1>1, <1>2, <1>3 DEF Flat
  <1>10. 0 \in Same
    BY <1>1
  <1>11. ASSUME NEW k \in Same PROVE k + 1 \in Same
    <2>1. ASSUME NEW i \in 1..n, i = k + 1 PROVE g[i] = h[i]
      <3>1. i # 1 => g[i - 1] = h[i - 1]
        BY <1>1, <2>1
      <3> QED BY <1>1, <1>9, <2>1, <3>1
    <2> QED BY <1>1, <2>1
  <1>12. \A i \in 1..n : g[i] = h[i]
    <2>1. n \in Same
      <3>1. Same \in SUBSET Nat
        OBVIOUS
      <3> HIDE DEF Same
      <3> QED BY <1>1, <1>10, <1>11, <3>1, NaturalsFrom0
    <2> QED BY <1>1, <2>1
  <1>13. CASE n = 0
    <2>1. g[n + 1] = x
      BY <1>1, <1>9, <1>13
    <2>2. FlattenSeq(s) = <<>>
      BY <1>4, <1>6, <1>13
    <2> QED BY <1>7, <1>8, <2>1, <2>2 DEF t
  <1>14. CASE n # 0
    <2>1. n + 1 \in 1..(n + 1) /\ n + 1 # 1 /\ (n + 1) - 1 = n
      BY <1>1, <1>14
    <2>2. g[n + 1] = g[n] \o x
      BY <1>1, <1>9, <2>1
    <2>3. g[n] = FlattenSeq(s)
      BY <1>1, <1>4, <1>12, <1>14
    <2> QED BY <1>7, <1>8, <2>3, <2>2 DEF t
  <1> QED BY <1>13, <1>14

\* The bytes of no packet, and of one packet more.
LEMMA BytesOfAppend ==
  ASSUME Measured, NEW q \in Seq(Ops), NEW o \in Ops
  PROVE  /\ BytesOf(q) \in Seq(Nat) /\ BytesOf(<<>>) = <<>>
         /\ BytesOf(Append(q, o)) = BytesOf(q) \o Bytes(o)
  <1> DEFINE s(r) == [i \in DOMAIN r |-> Bytes(r[i])]
  <1>1. ASSUME NEW r \in Seq(Ops)
        PROVE  s(r) \in Piles /\ Len(s(r)) = Len(r) /\ \A i \in 1..Len(r) : s(r)[i] = Bytes(r[i])
    <2>1. DOMAIN r = 1..Len(r) /\ Len(r) \in Nat /\ \A i \in 1..Len(r) : Bytes(r[i]) \in Seq(Nat)
      <3>1. \A i \in 1..Len(r) : r[i] \in Ops
        OBVIOUS
      <3>2. \A i \in 1..Len(r) : Bytes(r[i]) \in Seq(Nat)
        BY <3>1, BytesAre
      <3> QED BY <3>2
    <2> QED BY <2>1 DEF Piles
  <1>2. BytesOf(q) = FlattenSeq(s(q)) /\ BytesOf(Append(q, o)) = FlattenSeq(s(Append(q, o)))
    BY DEF BytesOf
  <1>3. Bytes(o) \in Seq(Nat)
    BY BytesAre
  <1>4. s(Append(q, o)) = Append(s(q), Bytes(o))
    <2>1. /\ Append(q, o) \in Seq(Ops) /\ Len(Append(q, o)) = Len(q) + 1 /\ Len(q) \in Nat
          /\ \A i \in 1..Len(q) : Append(q, o)[i] = q[i]
          /\ Append(q, o)[Len(q) + 1] = o
      OBVIOUS
    <2>2. s(Append(q, o)) \in Piles /\ s(q) \in Piles
      BY <1>1, <2>1
    <2>3. /\ Len(s(Append(q, o))) = Len(q) + 1 /\ Len(s(q)) = Len(q)
          /\ \A i \in 1..(Len(q) + 1) : s(Append(q, o))[i] = Bytes(Append(q, o)[i])
          /\ \A i \in 1..Len(q) : s(q)[i] = Bytes(q[i])
      BY <1>1, <2>1
    <2> HIDE DEF s
    <2>4. /\ Append(s(q), Bytes(o)) \in Piles /\ Len(Append(s(q), Bytes(o))) = Len(q) + 1
          /\ \A i \in 1..(Len(q) + 1) : Append(s(q), Bytes(o))[i] = Bytes(Append(q, o)[i])
      BY <1>3, <2>1, <2>2, <2>3 DEF Piles
    <2> QED BY <2>2, <2>3, <2>4, SeqEqual DEF Piles
  <1>5. s(q) \in Piles
    BY <1>1
  <1>6. BytesOf(<<>>) = <<>>
    BY DEF BytesOf, FlattenSeq
  <1> HIDE DEF s
  <1> QED BY <1>2, <1>3, <1>4, <1>5, <1>6, FlattenAppend

\* The bytes of two queues, one after the other.
LEMMA BytesOfJoint ==
  ASSUME Measured, NEW q \in Seq(Ops), NEW r \in Seq(Ops)
  PROVE  BytesOf(q \o r) = BytesOf(q) \o BytesOf(r)
  <1> DEFINE B == {k \in Nat : \A t \in Seq(Ops) : Len(t) = k =>
                                 BytesOf(q \o t) = BytesOf(q) \o BytesOf(t)}
  <1>1. \A t \in Seq(Ops) : BytesOf(t) \in Seq(Nat)
    <2>1. CASE Ops = {}
      <3>1. \A t \in Seq(Ops) : t = <<>>
        BY <2>1
      <3>2. BytesOf(<<>>) = <<>>
        BY DEF BytesOf, FlattenSeq
      <3> QED BY <3>1, <3>2
    <2> QED BY <2>1, BytesOfAppend
  <1>2. 0 \in B
    <2>1. \A t \in Seq(Ops) : Len(t) = 0 => t = <<>>
      OBVIOUS
    <2>2. BytesOf(<<>>) = <<>> /\ q \o <<>> = q
      BY DEF BytesOf, FlattenSeq
    <2>3. BytesOf(q) \o <<>> = BytesOf(q)
      BY <1>1
    <2> QED BY <2>1, <2>2, <2>3
  <1>3. ASSUME NEW k \in B PROVE k + 1 \in B
    <2>1. ASSUME NEW t \in Seq(Ops), Len(t) = k + 1
          PROVE  BytesOf(q \o t) = BytesOf(q) \o BytesOf(t)
      <3>1. PICK u \in Seq(Ops), o \in Ops : t = Append(u, o)
        <4>1. t # <<>>
          BY <2>1
        <4> QED BY <4>1, SequenceEmptyOrAppend
      <3>2. Len(u) = k
        BY <2>1, <3>1
      <3>3. BytesOf(q \o u) = BytesOf(q) \o BytesOf(u)
        BY <3>2
      <3>4. q \o t = Append(q \o u, o) /\ q \o u \in Seq(Ops)
        BY <3>1
      <3>5. /\ BytesOf(t) = BytesOf(u) \o Bytes(o)
            /\ BytesOf(q \o t) = BytesOf(q \o u) \o Bytes(o)
        BY <3>1, <3>4, BytesOfAppend
      <3>6. BytesOf(q) \in Seq(Nat) /\ BytesOf(u) \in Seq(Nat) /\ Bytes(o) \in Seq(Nat)
        BY <1>1, BytesAre
      <3>7. (BytesOf(q) \o BytesOf(u)) \o Bytes(o) = BytesOf(q) \o (BytesOf(u) \o Bytes(o))
        BY <3>6, Associative
      <3> QED BY <3>3, <3>5, <3>7
    <2> QED BY <2>1
  <1>4. Len(r) \in B
    <2>1. B \in SUBSET Nat
      OBVIOUS
    <2> HIDE DEF B
    <2> QED BY <1>2, <1>3, <2>1, NaturalsFrom0
  <1> QED BY <1>4

\* The bytes of the packets of a queue from the i-th on.
Rest(Q, i) == BytesOf(SubSeq(Q, i, Len(Q)))

\* They begin with those of the i-th packet, two at least.
LEMMA RestIs ==
  ASSUME Measured, NEW Q \in Seq(Ops)
  PROVE  /\ \A i \in 1..(Len(Q) + 1) : Rest(Q, i) \in Seq(Nat)
         /\ Rest(Q, Len(Q) + 1) = <<>>
         /\ \A i \in 1..Len(Q) : /\ Rest(Q, i) = Cat(Bytes(Q[i]), Rest(Q, i + 1))
                                 /\ Len(Rest(Q, i)) >= Len(Rest(Q, i + 1)) + 2
  <1>1. \A q \in Seq(Ops) : BytesOf(q) \in Seq(Nat)
    <2>1. CASE Ops = {}
      <3>1. \A t \in Seq(Ops) : t = <<>>
        BY <2>1
      <3>2. BytesOf(<<>>) = <<>>
        BY DEF BytesOf, FlattenSeq
      <3> QED BY <3>1, <3>2
    <2> QED BY <2>1, BytesOfAppend
  <1>2. BytesOf(<<>>) = <<>>
    BY DEF BytesOf, FlattenSeq
  <1>3. /\ Len(Q) \in Nat /\ \A i \in 1..Len(Q) : Q[i] \in Ops
        /\ \A i \in 1..(Len(Q) + 1) : SubSeq(Q, i, Len(Q)) \in Seq(Ops)
        /\ SubSeq(Q, Len(Q) + 1, Len(Q)) = <<>>
    OBVIOUS
  <1>4. \A i \in 1..(Len(Q) + 1) : Rest(Q, i) \in Seq(Nat)
    BY <1>1, <1>3 DEF Rest
  <1>5. Rest(Q, Len(Q) + 1) = <<>>
    BY <1>2, <1>3 DEF Rest
  <1>6. ASSUME NEW i \in 1..Len(Q)
        PROVE  /\ Rest(Q, i) = Bytes(Q[i]) \o Rest(Q, i + 1)
               /\ Len(Rest(Q, i)) >= Len(Rest(Q, i + 1)) + 2
    <2> DEFINE r == SubSeq(Q, i + 1, Len(Q))
    <2>1. SubSeq(Q, i, Len(Q)) = <<Q[i]>> \o r
      BY SubSeqRecursiveFirst
    <2>2. r \in Seq(Ops) /\ <<Q[i]>> \in Seq(Ops) /\ Q[i] \in Ops /\ <<>> \in Seq(Ops)
      BY <1>3
    <2>3. Append(<<>>, Q[i]) = <<Q[i]>>
      OBVIOUS
    <2>4. BytesOf(<<Q[i]>>) = <<>> \o Bytes(Q[i])
      BY <2>2, <2>3, BytesOfAppend, <1>2
    <2>5. Bytes(Q[i]) \in Seq(Nat) /\ Len(Bytes(Q[i])) >= 2
      BY <2>2, BytesAre
    <2>6. BytesOf(<<Q[i]>>) = Bytes(Q[i])
      BY <2>4, <2>5
    <2> HIDE DEF r
    <2>7. BytesOf(<<Q[i]>> \o r) = Bytes(Q[i]) \o BytesOf(r)
      BY <2>2, <2>6, BytesOfJoint
    <2>8. Rest(Q, i) = Bytes(Q[i]) \o Rest(Q, i + 1)
      BY <2>1, <2>7 DEF Rest, r
    <2>9. Rest(Q, i + 1) \in Seq(Nat)
      BY <1>4
    <2> QED BY <2>5, <2>8, <2>9
  <1> QED BY <1>4, <1>5, <1>6 DEF Cat

\* The later a packet, the fewer bytes are left.
LEMMA RestShrinks ==
  ASSUME Measured, NEW Q \in Seq(Ops), NEW i \in 1..(Len(Q) + 1), NEW k \in 1..(Len(Q) + 1)
  PROVE  i < k => Len(Rest(Q, i)) > Len(Rest(Q, k))
  <1> DEFINE B == {d \in Nat : \A a \in 1..(Len(Q) + 1) :
                    a + d + 1 <= Len(Q) + 1 => Len(Rest(Q, a)) > Len(Rest(Q, a + d + 1))}
             l(a) == Len(Rest(Q, a))
  <1>1. Len(Q) \in Nat
    OBVIOUS
  <1>2. /\ \A a \in 1..(Len(Q) + 1) : l(a) \in Nat
        /\ \A a \in 1..Len(Q) : l(a) > l(a + 1)
    <2>1. \A a \in 1..(Len(Q) + 1) : l(a) \in Nat
      BY RestIs
    <2>2. \A a \in 1..Len(Q) : l(a) >= l(a + 1) + 2 /\ a + 1 \in 1..(Len(Q) + 1)
      BY RestIs
    <2> QED BY <1>1, <2>1, <2>2
  <1> HIDE DEF l
  <1>3. B = {d \in Nat : \A a \in 1..(Len(Q) + 1) : a + d + 1 <= Len(Q) + 1 => l(a) > l(a + d + 1)}
    BY DEF l
  <1> HIDE DEF B
  <1>4. 0 \in B
    BY <1>1, <1>2, <1>3
  <1>5. ASSUME NEW d \in B PROVE d + 1 \in B
    <2>1. d \in Nat
      BY <1>3
    <2>2. ASSUME NEW a \in 1..(Len(Q) + 1), a + (d + 1) + 1 <= Len(Q) + 1
          PROVE  l(a) > l(a + (d + 1) + 1)
      <3>1. a + 1 \in 1..(Len(Q) + 1) /\ a \in 1..Len(Q) /\ (a + 1) + d + 1 <= Len(Q) + 1
        BY <1>1, <2>1, <2>2
      <3>2. l(a + 1) > l((a + 1) + d + 1)
        BY <1>3, <3>1
      <3>3. (a + 1) + d + 1 = a + (d + 1) + 1 /\ a + (d + 1) + 1 \in 1..(Len(Q) + 1)
        BY <1>1, <2>1, <2>2
      <3> QED BY <1>2, <3>1, <3>2, <3>3
    <2> QED BY <1>3, <2>1, <2>2
  <1>6. ASSUME i < k PROVE l(i) > l(k)
    <2>1. k - i - 1 \in Nat /\ i + (k - i - 1) + 1 = k
      BY <1>1, <1>6
    <2>2. B \in SUBSET Nat
      BY <1>3
    <2>3. k - i - 1 \in B
      BY <1>4, <1>5, <2>1, <2>2, NaturalsFrom0
    <2> QED BY <1>1, <1>3, <2>1, <2>3
  <1> QED BY <1>6 DEF l

\* What is written later comes after.
LEMMA RestJoint ==
  ASSUME Measured, NEW Q \in Seq(Ops), NEW r \in Seq(Ops), NEW i \in 1..(Len(Q) + 1)
  PROVE  Rest(Q \o r, i) = Cat(Rest(Q, i), BytesOf(r))
  <1> DEFINE a == SubSeq(Q, i, Len(Q))
             t == Q \o r
             b == SubSeq(t, i, Len(t))
  <1>1. /\ Len(Q) \in Nat /\ Len(r) \in Nat /\ t \in Seq(Ops) /\ Len(t) = Len(Q) + Len(r)
        /\ \A k \in 1..Len(t) : t[k] = IF k <= Len(Q) THEN Q[k] ELSE r[k - Len(Q)]
    OBVIOUS
  <1>2. /\ a \in Seq(Ops) /\ Len(a) = Len(Q) - i + 1
        /\ \A k \in 1..Len(a) : a[k] = Q[k + i - 1]
    BY <1>1
  <1> HIDE DEF t
  <1>3. /\ b \in Seq(Ops) /\ Len(b) = Len(t) - i + 1
        /\ \A k \in 1..Len(b) : b[k] = t[k + i - 1]
    BY <1>1
  <1> HIDE DEF a, b
  <1>4. /\ a \o r \in Seq(Ops) /\ Len(a \o r) = Len(a) + Len(r)
        /\ \A k \in 1..(Len(a) + Len(r)) :
             (a \o r)[k] = IF k <= Len(a) THEN a[k] ELSE r[k - Len(a)]
    BY <1>2, ConcatProperties
  <1>5. ASSUME NEW k \in 1..Len(b) PROVE b[k] = (a \o r)[k]
    <2>1. k \in 1..(Len(Q) + Len(r) - i + 1) /\ k + i - 1 \in 1..Len(t)
      BY <1>1, <1>3
    <2>2. CASE k <= Len(a)
      <3>1. k \in 1..Len(a) /\ k \in 1..(Len(a) + Len(r)) /\ k + i - 1 <= Len(Q)
        BY <1>1, <1>2, <2>1, <2>2
      <3>2. (a \o r)[k] = Q[k + i - 1]
        BY <1>2, <1>4, <2>2, <3>1
      <3> QED BY <1>1, <1>3, <2>1, <3>1, <3>2
    <2>3. CASE ~(k <= Len(a))
      <3>1. (k + i - 1) - Len(Q) = k - Len(a) /\ ~(k + i - 1 <= Len(Q))
        BY <1>1, <1>2, <2>1, <2>3
      <3>2. k \in 1..(Len(a) + Len(r))
        BY <1>1, <1>2, <1>4, <2>1
      <3> QED BY <1>1, <1>3, <1>4, <2>1, <2>3, <3>1, <3>2
    <2> QED BY <2>2, <2>3
  <1>6. Len(b) = Len(a \o r)
    BY <1>1, <1>2, <1>3, <1>4
  <1>7. b = a \o r
    BY <1>3, <1>4, <1>5, <1>6, SeqEqual
  <1>8. BytesOf(a \o r) = BytesOf(a) \o BytesOf(r)
    BY <1>2, BytesOfJoint
  <1> QED BY <1>7, <1>8 DEF Rest, a, b, t, Cat

--------------------------------------------------------------------------------
\* What a parse has read of the packets that are written.

\* What a parse knows of the m-th packet and the rest, when S is still to be read: nothing;
\* its first bytes, of which the length needs the digits of a number more; or all but some
\* bytes of its payload.
AtHeader(f, Q, m, S) ==
  f.at = "header" /\ f.left = 0 /\ f.mul = 1 /\ S = Rest(Q, m + 1)
AtLength(f, Q, m, S, o) ==
  /\ f.at = "length" /\ m < Len(Q) /\ o = Q[m + 1]
  /\ \E d \in Nat : /\ S = Cat(Field[d], Cat(Copies(lengths[o], o), Rest(Q, m + 2)))
                    /\ Cat(f.bytes, Field[d]) = Cat(One(o), Field[lengths[o]])
                    /\ lengths[o] = f.left + f.mul * d
AtPayload(f, Q, m, S, o) ==
  /\ f.at = "payload" /\ m < Len(Q) /\ o = Q[m + 1]
  /\ S = Cat(Copies(f.left, o), Rest(Q, m + 2))
  /\ Cat(f.bytes, Copies(f.left, o)) = Bytes(o)
At(f, Q, m, S) ==
  AtHeader(f, Q, m, S) \/ \E o \in Ops : AtLength(f, Q, m, S, o) \/ AtPayload(f, Q, m, S, o)

\* What has been parsed of Q: m packets, those from the j-th on still to be handed over.
TooLong == Failure("packet_too_large")
Errors == {"error", "aborted", "packet_too_large", "unstarted"}
Given == [ec : Errors \cup {"success"}, packet : Seq(Nat)]
Frames == [at : {"header", "length", "payload"}, bytes : Seq(Nat), left : Nat, mul : Nat,
           packets : Seq(Given), rest : Seq(Nat), stopped : BOOLEAN]
Results(f, Q, j, m) ==
  /\ Len(f.packets) = (m - j) + (IF f.stopped THEN 1 ELSE 0)
  /\ \A i \in 1..(m - j) : f.packets[i] = Packet(Bytes(Q[j + i]))
  /\ f.stopped => f.packets[(m - j) + 1] = TooLong
\* Once a packet has been begun, or found too large, less than all of it is to come.
Begun(f, Q, m, S) == f.stopped \/ f.at # "header" => Len(S) < Len(Rest(Q, m + 1))
\* The parse f has read m packets of Q and has those after the j-th to hand over; S is
\* still to come.
Parsed(f, Q, j, m, S) ==
  /\ f \in Frames /\ m \in 0..Len(Q) /\ j \in 0..m
  /\ Results(f, Q, j, m) /\ Begun(f, Q, m, S)
  /\ IF f.stopped THEN f.at = "header" /\ m < Len(Q) ELSE f.rest = <<>> /\ At(f, Q, m, S)

\* The header of a packet is read.
Headed(f, b) == [f EXCEPT !.bytes = <<b>>, !.at = "length"]

\* What the parse is then: at the length, all else as before.
LEMMA HeadedIs ==
  ASSUME NEW f \in Frames, NEW b \in Nat
  PROVE  /\ Headed(f, b) \in Frames /\ Headed(f, b).at = "length" /\ Headed(f, b).bytes = One(b)
         /\ Headed(f, b).left = f.left /\ Headed(f, b).mul = f.mul
         /\ Headed(f, b).packets = f.packets /\ Headed(f, b).rest = f.rest
         /\ Headed(f, b).stopped = f.stopped
  <1>1. <<b>> \in Seq(Nat)
    OBVIOUS
  <1> QED BY <1>1 DEF Headed, Frames, One

\* After the header of the next packet, its length is still to be read.
LEMMA HeaderStep ==
  ASSUME Measured, NEW Q \in Seq(Ops), NEW f \in Frames, NEW m \in 0..Len(Q), NEW b \in Nat,
         NEW T \in Seq(Nat), AtHeader(f, Q, m, Cat(One(b), T))
  PROVE  m < Len(Q) /\ AtLength(Headed(f, b), Q, m, T, Q[m + 1])
  <1> DEFINE g == Headed(f, b)
             o == Q[m + 1]
             F == Field[lengths[o]]
             C == Copies(lengths[o], o)
             R == Rest(Q, m + 2)
  <1>1. Rest(Q, m + 1) = Cat(One(b), T) /\ f.left = 0 /\ f.mul = 1
    BY DEF AtHeader
  <1>2. Cat(One(b), T) # <<>>
    <2>1. One(b) \in Seq(Nat) /\ Len(One(b)) = 1 /\ Len(T) \in Nat
      BY CatLengths
    <2>2. Len(Cat(One(b), T)) = 1 + Len(T) /\ Len(T) \in Nat
      BY <2>1, CatLengths
    <2> QED BY <2>2
  <1>3. m < Len(Q)
    <2>1. m # Len(Q)
      BY <1>1, <1>2, RestIs
    <2> QED BY <2>1
  <1>4. m + 1 \in 1..Len(Q) /\ (m + 1) + 1 = m + 2 /\ m + 2 \in 1..(Len(Q) + 1)
    BY <1>3
  <1>5. o \in Ops
    BY <1>4
  <1>6. Rest(Q, m + 1) = Cat(Bytes(o), R) /\ R \in Seq(Nat)
    BY <1>4, RestIs
  <1>7. o \in Nat /\ lengths[o] \in Nat /\ Bytes(o) = Cat(Cat(One(o), F), C)
    BY <1>5, BytesAre
  <1>8. F \in Seq(Nat) /\ C \in Seq(Nat)
    BY <1>5, <1>7, FieldIs, CopiesAre
  <1>9. /\ g.at = "length" /\ g.bytes = One(b) /\ g.left = 0 /\ g.mul = 1
    BY <1>1, HeadedIs
  <1> HIDE DEF o, F, C, R, g
  <1>10. b = o /\ T = Cat(F, Cat(C, R))
    <2>1. One(o) \in Seq(Nat) /\ Cat(C, R) \in Seq(Nat) /\ Cat(F, Cat(C, R)) \in Seq(Nat)
      BY <1>6, <1>7, <1>8, Cats, CatLengths
    <2>2. Cat(Cat(Cat(One(o), F), C), R) = Cat(One(o), Cat(F, Cat(C, R)))
      BY <1>6, <1>8, <2>1, Cats
    <2>3. Cat(One(b), T) = Cat(One(o), Cat(F, Cat(C, R)))
      BY <1>1, <1>6, <1>7, <2>2
    <2> QED BY <1>7, <2>1, <2>3, FirstByte
  <1>11. lengths[o] = g.left + g.mul * lengths[o]
    BY <1>7, <1>9
  <1>12. AtLength(g, Q, m, T, o)
    BY <1>3, <1>7, <1>9, <1>10, <1>11 DEF AtLength, o, F, C, R
  <1> QED BY <1>3, <1>12 DEF g, o

\* The field of a number, digit by digit.
LEMMA FieldDigits ==
  ASSUME NEW d \in Nat
  PROVE  /\ d < Base => Field[d] = One(d)
         /\ ~(d < Base) => Field[d] = Cat(One((d % Base) + Base), Field[d \div Base])
         /\ Field[d] \in Seq(Nat)
  BY FieldIs DEF FieldOf, Cat, One

\* The product of numbers is a number, and distributes over a sum.
LEMMA Products ==
  /\ \A a, b \in Nat : a * b \in Nat
  /\ \A a, b, c, d \in Nat : a * (b * c + d) = (a * b) * c + d * a
  OBVIOUS

\* A digit of the length of a packet is read.
Lengthened(f, b) ==
  [f EXCEPT !.bytes = Append(@, b), !.left = @ + Digit(b) * f.mul, !.mul = @ * Base]

\* What the parse is then: the digit counts as much as those before it say.
LEMMA LengthenedIs ==
  ASSUME NEW f \in Frames, NEW b \in Nat
  PROVE  /\ Lengthened(f, b) \in Frames /\ Lengthened(f, b).at = f.at
         /\ Lengthened(f, b).bytes = Cat(f.bytes, One(b))
         /\ Lengthened(f, b).left = f.left + Digit(b) * f.mul
         /\ Lengthened(f, b).mul = f.mul * Base
         /\ Lengthened(f, b).packets = f.packets /\ Lengthened(f, b).rest = f.rest
         /\ Lengthened(f, b).stopped = f.stopped
  <1>1. Digit(b) \in Nat /\ Base \in Nat
    BY BaseIs, Divided DEF Digit
  <1>2. f.left \in Nat /\ f.mul \in Nat /\ f.bytes \in Seq(Nat)
    BY DEF Frames
  <1>3. f.left + Digit(b) * f.mul \in Nat /\ f.mul * Base \in Nat
    <2>1. Digit(b) * f.mul \in Nat
      BY <1>1, <1>2, Products
    <2> QED BY <1>1, <1>2, <2>1, Products
  <1>4. Append(f.bytes, b) \in Seq(Nat) /\ Append(f.bytes, b) = f.bytes \o <<b>>
    BY <1>2
  <1> QED BY <1>3, <1>4 DEF Lengthened, Frames, Cat, One

\* A digit with the continuation bit leaves the rest of the length to be read; the last
\* one leaves the payload, as long as the packet says.
LEMMA LengthStep ==
  ASSUME Measured, NEW Q \in Seq(Ops), NEW f \in Frames, NEW m \in 0..Len(Q), NEW b \in Nat,
         NEW T \in Seq(Nat), NEW o \in Ops, AtLength(f, Q, m, Cat(One(b), T), o)
  PROVE  /\ Continues(b) => AtLength(Lengthened(f, b), Q, m, T, o)
         /\ ~Continues(b) =>
              /\ T = Cat(Copies(Lengthened(f, b).left, o), Rest(Q, m + 2))
              /\ Cat(Lengthened(f, b).bytes, Copies(Lengthened(f, b).left, o)) = Bytes(o)
  <1> DEFINE g == Lengthened(f, b)
             n == lengths[o]
             F == Field[n]
             C == Copies(n, o)
             R == Rest(Q, m + 2)
             X == Cat(C, R)
  <1>1. m < Len(Q) /\ o = Q[m + 1] /\ f.at = "length"
    BY DEF AtLength
  <1>2. PICK d \in Nat : /\ Cat(One(b), T) = Cat(Field[d], X)
                         /\ Cat(f.bytes, Field[d]) = Cat(One(o), F)
                         /\ n = f.left + f.mul * d
    BY DEF AtLength
  <1>3. m + 2 \in 1..(Len(Q) + 1) /\ R \in Seq(Nat)
    BY <1>1, RestIs
  <1>4. o \in Nat /\ n \in Nat /\ Bytes(o) = Cat(Cat(One(o), F), C)
    BY BytesAre
  <1>5. F \in Seq(Nat) /\ C \in Seq(Nat) /\ f.bytes \in Seq(Nat) /\ One(b) \in Seq(Nat)
        /\ f.left \in Nat /\ f.mul \in Nat
    BY <1>4, FieldIs, CopiesAre, CatLengths DEF Frames
  <1>6. X \in Seq(Nat)
    BY <1>3, <1>5, Cats
  <1>7. /\ g.at = "length" /\ g.bytes = Cat(f.bytes, One(b))
        /\ g.left = f.left + Digit(b) * f.mul /\ g.mul = f.mul * Base
    BY <1>1, LengthenedIs
  <1> HIDE DEF g, n, F, C, R, X
  <1>8. CASE d < Base
    <2>1. Field[d] = One(d)
      BY <1>8, FieldDigits
    <2>2. b = d /\ T = X
      BY <1>2, <1>6, <2>1, FirstByte
    <2>3. ~Continues(b) /\ Digit(b) = d
      BY <1>8, <2>2, Digits
    <2>4. g.left = n
      BY <1>2, <1>5, <1>7, <2>3
    <2>5. Cat(g.bytes, C) = Bytes(o)
      BY <1>2, <1>4, <1>7, <2>1, <2>2
    <2> QED BY <2>2, <2>3, <2>4, <2>5 DEF g, C, R, X, n
  <1>9. CASE ~(d < Base)
    <2> DEFINE c == d % Base
               e == d \div Base
               E == Field[e]
    <2>1. /\ c \in Nat /\ c < Base /\ e \in Nat /\ d = Base * e + c
          /\ Field[d] = Cat(One(c + Base), E)
      BY <1>9, Divided, FieldDigits
    <2> HIDE DEF c, e
    <2>2. E \in Seq(Nat)
      BY <2>1, FieldDigits
    <2>3. c + Base \in Nat /\ E \in Seq(Nat)
      BY <2>1, <2>2, BaseIs
    <2> HIDE DEF E
    <2>4. One(c + Base) \in Seq(Nat) /\ Cat(E, X) \in Seq(Nat)
      BY <1>6, <2>3, Cats, CatLengths
    <2>5. Cat(Field[d], X) = Cat(One(c + Base), Cat(E, X))
      BY <1>6, <2>1, <2>3, <2>4, Cats
    <2>6. b = c + Base /\ T = Cat(E, X)
      BY <1>2, <2>3, <2>4, <2>5, FirstByte
    <2>7. Continues(b) /\ Digit(b) = c
      BY <2>1, <2>6, Digits
    <2>8. Cat(g.bytes, E) = Cat(One(o), F)
      BY <1>2, <1>5, <1>7, <2>1, <2>3, <2>6, Cats
    <2>9. n = g.left + g.mul * e
      <3>1. f.mul * (Base * e + c) = (f.mul * Base) * e + c * f.mul
        BY <1>5, <2>1, BaseIs, Products
      <3>2. (f.mul * Base) \in Nat /\ (f.mul * Base) * e \in Nat /\ c * f.mul \in Nat
        BY <1>5, <2>1, BaseIs, Products
      <3> DEFINE u == f.mul * Base
                 v == u * e
                 w == c * f.mul
      <3>3. n = f.left + (v + w) /\ g.left = f.left + w /\ g.mul = u
        BY <1>2, <1>7, <2>1, <2>7, <3>1
      <3> HIDE DEF v, w
      <3>4. n = (f.left + w) + v
        BY <1>5, <3>2, <3>3 DEF v, w
      <3> QED BY <3>3, <3>4 DEF v
    <2>10. AtLength(g, Q, m, T, o)
      <3>1. \E k \in Nat : /\ T = Cat(Field[k], Cat(Copies(lengths[o], o), Rest(Q, m + 2)))
                           /\ Cat(g.bytes, Field[k]) = Cat(One(o), Field[lengths[o]])
                           /\ lengths[o] = g.left + g.mul * k
        BY <2>1, <2>6, <2>8, <2>9 DEF E, X, C, R, F, n
      <3> QED BY <1>1, <1>7, <3>1 DEF AtLength
    <2> QED BY <2>7, <2>10 DEF g
  <1> QED BY <1>8, <1>9

\* A byte of a payload is read.
Paid(f, b) == [f EXCEPT !.bytes = Append(@, b), !.left = @ - 1]

\* After a byte of the payload, one byte less is still to be read.
LEMMA PayloadStep ==
  ASSUME Measured, NEW Q \in Seq(Ops), NEW f \in Frames, NEW m \in 0..Len(Q), NEW b \in Nat,
         NEW T \in Seq(Nat), NEW o \in Ops, AtPayload(f, Q, m, Cat(One(b), T), o), f.left # 0
  PROVE  /\ Paid(f, b) \in Frames /\ AtPayload(Paid(f, b), Q, m, T, o)
         /\ Paid(f, b).packets = f.packets /\ Paid(f, b).rest = f.rest
         /\ Paid(f, b).stopped = f.stopped
  <1> DEFINE g == Paid(f, b)
             n == f.left - 1
             C == Copies(n, o)
             R == Rest(Q, m + 2)
  <1>1. /\ m < Len(Q) /\ o = Q[m + 1] /\ f.at = "payload"
        /\ Cat(One(b), T) = Cat(Copies(f.left, o), R) /\ Cat(f.bytes, Copies(f.left, o)) = Bytes(o)
    BY DEF AtPayload
  <1>2. n \in Nat /\ f.left = n + 1 /\ f.bytes \in Seq(Nat)
    BY DEF Frames
  <1>3. Append(f.bytes, b) \in Seq(Nat) /\ Append(f.bytes, b) = f.bytes \o <<b>>
    <2>1. f.bytes \in Seq(Nat)
      BY <1>2
    <2> QED BY <2>1, AppendProperties, AppendIsConcat
  <1>4. /\ g \in Frames /\ g.packets = f.packets /\ g.rest = f.rest /\ g.stopped = f.stopped
        /\ g.at = f.at /\ g.left = n /\ g.bytes = Cat(f.bytes, One(b))
    BY <1>2, <1>3 DEF Paid, Frames, Cat, One
  <1>5. o \in Nat /\ C \in Seq(Nat) /\ Copies(f.left, o) = Cat(One(o), C)
    BY <1>2, BytesAre, CopiesAre
  <1>6. R \in Seq(Nat)
    BY <1>1, RestIs
  <1> HIDE DEF g, n, C, R
  <1>7. One(o) \in Seq(Nat) /\ Cat(C, R) \in Seq(Nat)
    BY <1>5, <1>6, Cats, CatLengths
  <1>8. Cat(One(b), T) = Cat(One(o), Cat(C, R))
    BY <1>1, <1>5, <1>6, <1>7, Cats
  <1>9. b = o /\ T = Cat(C, R)
    BY <1>5, <1>7, <1>8, FirstByte
  <1>10. Cat(g.bytes, C) = Bytes(o)
    BY <1>1, <1>2, <1>4, <1>5, <1>7, <1>9, Cats
  <1>11. AtPayload(g, Q, m, T, o)
    BY <1>1, <1>4, <1>9, <1>10 DEF AtPayload, C, R
  <1> QED BY <1>4, <1>11 DEF g

\* A result is added, and the next packet begins.
LEMMA ResultIs ==
  ASSUME NEW f \in Frames, NEW r \in Given
  PROVE  /\ Result(f, r) \in Frames /\ Result(f, r).at = "header" /\ Result(f, r).left = 0
         /\ Result(f, r).mul = 1 /\ Result(f, r).packets = Append(f.packets, r)
         /\ Result(f, r).rest = f.rest /\ Result(f, r).stopped = f.stopped
         /\ Result(f, r).bytes = <<>>
  <1> DEFINE p == Append(f.packets, r)
  <1>1. p \in Seq(Given) /\ f.rest \in Seq(Nat) /\ f.stopped \in BOOLEAN
    BY DEF Frames, Given
  <1>2. Result(f, r) = [at |-> "header", bytes |-> <<>>, left |-> 0, mul |-> 1,
                        packets |-> p, rest |-> f.rest, stopped |-> f.stopped]
    <2> DEFINE h == [f EXCEPT !.packets = p]
    <2>1. h.packets = p /\ h.rest = f.rest /\ h.stopped = f.stopped
      BY DEF Frames
    <2>2. Result(f, r) = InitRead(h)
      BY DEF Result, Frames
    <2> HIDE DEF h
    <2> QED BY <2>1, <2>2 DEF InitRead, NoFrame
  <1> HIDE DEF p
  <1>3. <<>> \in Seq(Nat)
    OBVIOUS
  <1>4. Result(f, r) \in Frames
    BY <1>1, <1>2, <1>3 DEF Frames, Given
  <1> QED BY <1>2, <1>4 DEF p

\* The results of a read are packets without error and errors without packet.
LEMMA GivenAre ==
  /\ TooLong \in Given /\ TooLong.ec # "success"
  /\ \A b \in Seq(Nat) : Packet(b) \in Given /\ Packet(b).ec = "success" /\ Packet(b).packet = b
  /\ \A e \in Errors : Failure(e) \in Given /\ Failure(e).ec = e
  <1>1. \A b \in Seq(Nat) : Packet(b) \in Given /\ Packet(b).ec = "success" /\ Packet(b).packet = b
    BY DEF Given, Packet
  <1>2. <<>> \in Seq(Nat)
    OBVIOUS
  <1>3. \A e \in Errors : Failure(e) \in Given /\ Failure(e).ec = e
    BY <1>2 DEF Given, Errors, Failure
  <1>4. TooLong \in Given /\ TooLong.ec # "success"
    BY <1>3 DEF TooLong, Errors
  <1> QED BY <1>1, <1>3, <1>4

\* The result added is that of the next packet, or that of a packet too large.
LEMMA ResultsGrow ==
  ASSUME NEW f \in Frames, NEW g \in Frames, NEW Q, NEW m \in Nat, NEW j \in 0..m, NEW r \in Given,
         Results(f, Q, j, m), ~f.stopped, g.packets = Append(f.packets, r)
  PROVE  /\ r = Packet(Bytes(Q[m + 1])) /\ ~g.stopped => Results(g, Q, j, m + 1)
         /\ r = TooLong /\ g.stopped => Results(g, Q, j, m)
  <1>1. f.packets \in Seq(Given) /\ Len(f.packets) = m - j
    BY DEF Results, Frames, Given
  <1>2. /\ Len(g.packets) = (m - j) + 1 /\ g.packets[(m - j) + 1] = r
        /\ \A i \in 1..(m - j) : g.packets[i] = f.packets[i]
    BY <1>1, AppendProperties
  <1>3. \A i \in 1..(m - j) : g.packets[i] = Packet(Bytes(Q[j + i]))
    BY <1>2 DEF Results
  <1>4. (m + 1) - j = (m - j) + 1 /\ j + ((m - j) + 1) = m + 1
    OBVIOUS
  <1>5. ASSUME r = Packet(Bytes(Q[m + 1])), ~g.stopped PROVE Results(g, Q, j, m + 1)
    <2>1. Len(g.packets) = ((m + 1) - j) + 0
      BY <1>2, <1>4
    <2>2. \A i \in 1..((m + 1) - j) : g.packets[i] = Packet(Bytes(Q[j + i]))
      BY <1>2, <1>3, <1>4, <1>5
    <2> QED BY <1>5, <2>1, <2>2 DEF Results
  <1>6. ASSUME r = TooLong, g.stopped PROVE Results(g, Q, j, m)
    BY <1>2, <1>3, <1>6 DEF Results
  <1> QED BY <1>5, <1>6

\* A packet is complete.
LEMMA DeliverStep ==
  ASSUME Measured, NEW Q \in Seq(Ops), NEW f \in Frames, NEW m \in 0..Len(Q), NEW j \in 0..m,
         NEW S, NEW o \in Ops, AtPayload(f, Q, m, S, o), f.left = 0, ~f.stopped, f.rest = <<>>,
         Results(f, Q, j, m)
  PROVE  /\ Parsed(Deliver(f), Q, j, m + 1, S) /\ Deliver(f).at = "header" /\ ~Deliver(f).stopped
         /\ m < Len(Q) /\ Deliver(f).packets = Append(f.packets, Packet(Bytes(Q[m + 1])))
  <1> DEFINE g == Deliver(f)
             r == Packet(f.bytes)
  <1>1. /\ m < Len(Q) /\ o = Q[m + 1] /\ f.at = "payload"
        /\ S = Cat(Copies(0, o), Rest(Q, m + 2)) /\ Cat(f.bytes, Copies(0, o)) = Bytes(o)
    BY DEF AtPayload
  <1>2. Copies(0, o) = <<>> /\ Rest(Q, m + 2) \in Seq(Nat) /\ f.bytes \in Seq(Nat)
    <2>1. m + 2 \in 1..(Len(Q) + 1)
      BY <1>1
    <2>2. f.bytes \in Seq(Nat)
      BY DEF Frames
    <2>3. Copies(0, o) = <<>>
      BY CopiesAre
    <2> QED BY <2>1, <2>2, <2>3, RestIs
  <1>3. S = Rest(Q, m + 2) /\ f.bytes = Bytes(o)
    BY <1>1, <1>2, CatLengths
  <1>4. r \in Given
    BY <1>2, GivenAre
  <1>5. /\ g \in Frames /\ g.at = "header" /\ g.left = 0 /\ g.mul = 1
        /\ g.packets = Append(f.packets, r) /\ g.rest = f.rest /\ g.stopped = f.stopped
    BY <1>4, ResultIs DEF Deliver
  <1>6. r = Packet(Bytes(Q[m + 1]))
    BY <1>1, <1>3
  <1> HIDE DEF r, g
  <1>7. Results(g, Q, j, m + 1)
    BY <1>4, <1>5, <1>6, ResultsGrow
  <1>8. AtHeader(g, Q, m + 1, S)
    BY <1>3, <1>5 DEF AtHeader
  <1>9. Parsed(g, Q, j, m + 1, S)
    BY <1>1, <1>5, <1>7, <1>8 DEF Parsed, At, Begun
  <1> QED BY <1>1, <1>5, <1>6, <1>9 DEF g

\* What a parse keeps as long as the packet is the same.
LEMMA ParsedBy ==
  ASSUME NEW f \in Frames, NEW Q, NEW m \in 0..Len(Q), NEW j \in 0..m, NEW g \in Frames,
         NEW S, Results(f, Q, j, m), ~f.stopped, f.rest = <<>>,
         g.packets = f.packets, g.rest = f.rest, g.stopped = f.stopped, At(g, Q, m, S),
         Begun(g, Q, m, S)
  PROVE  Parsed(g, Q, j, m, S)
  <1>1. Results(g, Q, j, m)
    BY DEF Results
  <1> QED BY <1>1 DEF Parsed

\* parse_packet, a turn of it: a packet without payload is complete when a byte follows.
Ready(f) == IF f.at = "payload" /\ f.left = 0 THEN Deliver(f) ELSE f

\* If there is one, it is handed over, and the parse is one of the same packets.
LEMMA ReadyKeeps ==
  ASSUME Measured, NEW Q \in Seq(Ops), NEW f, NEW j \in Nat, NEW m \in Nat, NEW S,
         Parsed(f, Q, j, m, S)
  PROVE  \E k \in Nat : /\ Parsed(Ready(f), Q, j, k, S)
                        /\ Ready(f).at = "payload" => Ready(f).left # 0
  <1>1. CASE ~(f.at = "payload" /\ f.left = 0)
    BY <1>1 DEF Ready
  <1>2. CASE f.at = "payload" /\ f.left = 0
    <2>1. /\ f \in Frames /\ m \in 0..Len(Q) /\ j \in 0..m /\ Results(f, Q, j, m)
          /\ ~f.stopped /\ f.rest = <<>> /\ At(f, Q, m, S)
      BY <1>2 DEF Parsed
    <2>2. PICK o \in Ops : AtPayload(f, Q, m, S, o)
      BY <1>2, <2>1 DEF At, AtHeader, AtLength
    <2>3. Parsed(Deliver(f), Q, j, m + 1, S) /\ Deliver(f).at = "header"
      BY <1>2, <2>1, <2>2, DeliverStep
    <2>4. Ready(f) = Deliver(f)
      BY <1>2 DEF Ready
    <2> QED BY <2>3, <2>4
  <1> QED BY <1>1, <1>2

\* Of what is still to be read, a byte is gone.
LEMMA Shorter ==
  ASSUME NEW b \in Nat, NEW T \in Seq(Nat)
  PROVE  Len(T) \in Nat /\ Len(Cat(One(b), T)) = Len(T) + 1
  <1>1. One(b) \in Seq(Nat) /\ Len(One(b)) = 1 /\ Len(T) \in Nat
    BY CatLengths
  <1>2. Len(Cat(One(b), T)) = Len(One(b)) + Len(T)
    BY <1>1, CatLengths
  <1> QED BY <1>1, <1>2

\* A packet begun stays begun when a byte more is read.
LEMMA BegunOn ==
  ASSUME Measured, NEW Q \in Seq(Ops), NEW m \in 0..Len(Q), NEW f, NEW b \in Nat,
         NEW T \in Seq(Nat), Begun(f, Q, m, Cat(One(b), T)), f.stopped \/ f.at # "header"
  PROVE  Len(T) < Len(Rest(Q, m + 1))
  <1>1. Rest(Q, m + 1) \in Seq(Nat)
    <2>1. m + 1 \in 1..(Len(Q) + 1)
      OBVIOUS
    <2> QED BY <2>1, RestIs
  <1>2. Len(Rest(Q, m + 1)) \in Nat
    BY <1>1
  <1> QED BY <1>2, Shorter DEF Begun

\* A digit of a length: it goes on, ends, or is one too many.
Ended(g) == [g EXCEPT !.at = "payload"]
Halted(g) == [g EXCEPT !.stopped = TRUE]

\* What the parse is then: at the payload, or stopped, all else as before.
LEMMA EndedIs ==
  ASSUME NEW g \in Frames
  PROVE  /\ Ended(g) \in Frames /\ Ended(g).at = "payload" /\ Ended(g).left = g.left
         /\ Ended(g).bytes = g.bytes /\ Ended(g).packets = g.packets /\ Ended(g).rest = g.rest
         /\ Ended(g).stopped = g.stopped
         /\ Halted(g) \in Frames /\ Halted(g).packets = g.packets /\ Halted(g).stopped
  <1>1. /\ Ended(g) \in Frames /\ Ended(g).at = "payload" /\ Ended(g).left = g.left
        /\ Ended(g).bytes = g.bytes /\ Ended(g).packets = g.packets /\ Ended(g).rest = g.rest
        /\ Ended(g).stopped = g.stopped
    BY DEF Ended, Frames
  <1>2. Halted(g) \in Frames /\ Halted(g).packets = g.packets /\ Halted(g).stopped
    BY DEF Halted, Frames
  <1> QED BY <1>1, <1>2

\* Whichever it is, the parse is one of the same packets.
LEMMA FeedLengthKeeps ==
  ASSUME Measured, NEW Q \in Seq(Ops), NEW f, NEW j \in Nat, NEW m \in Nat, NEW b \in Nat,
         NEW T \in Seq(Nat), Parsed(f, Q, j, m, Cat(One(b), T)), f.at = "length"
  PROVE  Parsed(FeedLength(f, b), Q, j, m, T)
  <1> DEFINE g == Lengthened(f, b)
  <1>1. ~f.stopped
    BY DEF Parsed
  <1>2. /\ f \in Frames /\ m \in 0..Len(Q) /\ j \in 0..m /\ Results(f, Q, j, m)
        /\ f.rest = <<>> /\ At(f, Q, m, Cat(One(b), T))
    BY <1>1 DEF Parsed
  <1>3. PICK o \in Ops : AtLength(f, Q, m, Cat(One(b), T), o)
    BY <1>2 DEF At, AtHeader, AtPayload
  <1>4. /\ g \in Frames /\ g.at = f.at /\ g.packets = f.packets /\ g.rest = f.rest
        /\ g.stopped = f.stopped
    BY <1>2, LengthenedIs
  <1>5. FeedLength(f, b) = IF ~Continues(b) THEN Ended(g)
                           ELSE IF Len(g.bytes) = LengthBytes + 1 THEN TooLarge(g) ELSE g
    BY DEF FeedLength, Ended, Lengthened
  <1>6. m < Len(Q) /\ o = Q[m + 1]
    BY <1>3 DEF AtLength
  <1>7. Len(T) < Len(Rest(Q, m + 1))
    <2>1. Begun(f, Q, m, Cat(One(b), T))
      BY DEF Parsed
    <2> QED BY <1>2, <2>1, BegunOn
  <1>8. CASE ~Continues(b)
    <2>1. /\ T = Cat(Copies(g.left, o), Rest(Q, m + 2))
          /\ Cat(g.bytes, Copies(g.left, o)) = Bytes(o)
      BY <1>2, <1>3, <1>8, LengthStep
    <2> HIDE DEF g
    <2>2. AtPayload(Ended(g), Q, m, T, o)
      BY <1>4, <1>6, <2>1, EndedIs DEF AtPayload
    <2>3. Parsed(Ended(g), Q, j, m, T)
      BY <1>7, <1>1, <1>2, <1>4, <2>2, EndedIs, ParsedBy DEF At, Begun
    <2> QED BY <1>5, <1>8, <2>3
  <1>9. CASE Continues(b)
    <2>1. AtLength(g, Q, m, T, o)
      BY <1>2, <1>3, <1>9, LengthStep
    <2> HIDE DEF g
    <2>2. Parsed(g, Q, j, m, T)
      BY <1>7, <1>1, <1>2, <1>4, <2>1, ParsedBy DEF At, Begun
    <2>3. Parsed(TooLarge(g), Q, j, m, T)
      <3> DEFINE h == TooLarge(g)
      <3>1. h = Result(Halted(g), TooLong)
        BY DEF TooLarge, Halted, TooLong
      <3>2. TooLong \in Given /\ Halted(g) \in Frames /\ Halted(g).stopped
            /\ Halted(g).packets = f.packets
        BY <1>4, EndedIs, GivenAre
      <3> DEFINE k == Halted(g)
      <3>3. k \in Frames /\ k.stopped /\ k.packets = f.packets /\ h = Result(k, TooLong)
        BY <3>1, <3>2
      <3> HIDE DEF h, k
      <3>4. /\ h \in Frames /\ h.at = "header" /\ h.packets = Append(k.packets, TooLong)
            /\ h.stopped = k.stopped
        BY <3>2, <3>3, ResultIs
      <3>5. Results(h, Q, j, m)
        BY <1>1, <1>2, <3>2, <3>3, <3>4, ResultsGrow
      <3> QED BY <1>7, <1>2, <1>6, <3>3, <3>5, <3>4 DEF Parsed, Begun, h
    <2> QED BY <1>5, <1>9, <2>2, <2>3
  <1> QED BY <1>8, <1>9

\* A byte of a payload, or the last one.
LEMMA FeedPayloadKeeps ==
  ASSUME Measured, NEW Q \in Seq(Ops), NEW f, NEW j \in Nat, NEW m \in Nat, NEW b \in Nat,
         NEW T \in Seq(Nat), Parsed(f, Q, j, m, Cat(One(b), T)), f.at = "payload", f.left # 0
  PROVE  \E k \in Nat : Parsed(FeedPayload(f, b), Q, j, k, T)
  <1> DEFINE g == Paid(f, b)
  <1>1. ~f.stopped
    BY DEF Parsed
  <1>2. /\ f \in Frames /\ m \in 0..Len(Q) /\ j \in 0..m /\ Results(f, Q, j, m)
        /\ f.rest = <<>> /\ At(f, Q, m, Cat(One(b), T))
    BY <1>1 DEF Parsed
  <1>3. PICK o \in Ops : AtPayload(f, Q, m, Cat(One(b), T), o)
    BY <1>2 DEF At, AtHeader, AtLength
  <1>4. /\ g \in Frames /\ AtPayload(g, Q, m, T, o) /\ g.packets = f.packets /\ g.rest = f.rest
        /\ g.stopped = f.stopped
    BY <1>2, <1>3, PayloadStep
  <1>5. FeedPayload(f, b) = IF g.left = 0 THEN Deliver(g) ELSE g
    BY DEF FeedPayload, Paid
  <1> HIDE DEF g
  <1>6. Len(T) < Len(Rest(Q, m + 1))
    <2>1. Begun(f, Q, m, Cat(One(b), T))
      BY DEF Parsed
    <2> QED BY <1>2, <2>1, BegunOn
  <1>7. Parsed(g, Q, j, m, T)
    BY <1>6, <1>1, <1>2, <1>4, ParsedBy DEF At, Begun
  <1>8. g.left = 0 => Parsed(Deliver(g), Q, j, m + 1, T)
    <2>1. Results(g, Q, j, m)
      BY <1>7 DEF Parsed
    <2> QED BY <1>1, <1>2, <1>4, <2>1, DeliverStep
  <1> QED BY <1>5, <1>7, <1>8

\* Behind a packet that is too large, nothing is parsed.
Unparsed(g, b) == [g EXCEPT !.rest = Append(@, b)]

\* Whatever byte comes next, the parse is one of the same packets.
LEMMA ByteKeeps ==
  ASSUME Measured, NEW Q \in Seq(Ops), NEW f, NEW j \in Nat, NEW m \in Nat, NEW b \in Nat,
         NEW T \in Seq(Nat), Parsed(f, Q, j, m, Cat(One(b), T))
  PROVE  \E k \in Nat : Parsed(FeedByte(f, b), Q, j, k, T)
  <1> DEFINE g == Ready(f)
  <1>1. PICK k \in Nat : Parsed(g, Q, j, k, Cat(One(b), T)) /\ (g.at = "payload" => g.left # 0)
    BY ReadyKeeps
  <1>2. FeedByte(f, b) = IF g.stopped THEN Unparsed(g, b)
                         ELSE CASE g.at = "header"  -> Headed(g, b)
                                [] g.at = "length"  -> FeedLength(g, b)
                                [] g.at = "payload" -> FeedPayload(g, b)
    BY DEF FeedByte, Ready, Unparsed, Headed
  <1> HIDE DEF g
  <1>3. /\ g \in Frames /\ k \in 0..Len(Q) /\ j \in 0..k /\ Results(g, Q, j, k)
        /\ Begun(g, Q, k, Cat(One(b), T))
        /\ g.stopped => g.at = "header" /\ k < Len(Q)
        /\ ~g.stopped => g.rest = <<>> /\ At(g, Q, k, Cat(One(b), T))
    BY <1>1 DEF Parsed
  <1>4. g.at \in {"header", "length", "payload"} /\ g.stopped \in BOOLEAN
    BY <1>3 DEF Frames
  <1>5. CASE g.stopped
    <2> DEFINE h == Unparsed(g, b)
    <2>1. Append(g.rest, b) \in Seq(Nat)
      BY <1>3 DEF Frames
    <2>2. h \in Frames /\ h.at = g.at /\ h.stopped = g.stopped /\ h.packets = g.packets
      BY <1>3, <2>1 DEF Frames, Unparsed
    <2>3. FeedByte(f, b) = h
      BY <1>2, <1>4, <1>5
    <2> HIDE DEF h
    <2>4. Results(h, Q, j, k)
      BY <1>3, <2>2 DEF Results
    <2>5. Begun(h, Q, k, T)
      BY <1>3, <1>5, BegunOn DEF Begun
    <2>6. Parsed(h, Q, j, k, T)
      BY <1>3, <1>5, <2>2, <2>4, <2>5 DEF Parsed
    <2> QED BY <2>3, <2>6
  <1>6. CASE ~g.stopped /\ g.at = "header"
    <2>1. AtHeader(g, Q, k, Cat(One(b), T))
      BY <1>3, <1>6 DEF At, AtLength, AtPayload
    <2>2. k < Len(Q) /\ AtLength(Headed(g, b), Q, k, T, Q[k + 1])
      BY <1>3, <2>1, HeaderStep
    <2>3. Q[k + 1] \in Ops
      BY <1>3, <2>2
    <2>4. At(Headed(g, b), Q, k, T)
      BY <2>2, <2>3 DEF At
    <2>5. Parsed(Headed(g, b), Q, j, k, T)
      <3> DEFINE h == Headed(g, b)
      <3>1. /\ h \in Frames /\ h.packets = g.packets /\ h.rest = g.rest /\ h.stopped = g.stopped
            /\ At(h, Q, k, T)
        BY <1>3, <2>4, HeadedIs
      <3> HIDE DEF h
      <3>2. Begun(h, Q, k, T)
        <4>1. Cat(One(b), T) = Rest(Q, k + 1)
          BY <2>1 DEF AtHeader
        <4> QED BY <4>1, Shorter DEF Begun
      <3>3. Parsed(h, Q, j, k, T)
        BY <1>3, <1>6, <3>1, <3>2, ParsedBy
      <3> QED BY <3>3 DEF h
    <2>6. FeedByte(f, b) = Headed(g, b)
      BY <1>2, <1>4, <1>6 DEF Headed
    <2> QED BY <2>5, <2>6
  <1>7. CASE ~g.stopped /\ g.at = "length"
    <2>1. FeedByte(f, b) = FeedLength(g, b)
      BY <1>2, <1>7
    <2> QED BY <1>1, <1>7, <2>1, FeedLengthKeeps
  <1>8. CASE ~g.stopped /\ g.at = "payload"
    <2>1. FeedByte(f, b) = FeedPayload(g, b)
      BY <1>2, <1>8
    <2> QED BY <1>1, <1>8, <2>1, FeedPayloadKeeps
  <1> QED BY <1>4, <1>5, <1>6, <1>7, <1>8

--------------------------------------------------------------------------------
\* The parse of any number of bytes at once.

\* A set of natural numbers that is finite and not empty has a greatest member.
LEMMA GreatestOf ==
  ASSUME NEW n \in Nat, NEW S \in SUBSET (1..n), S # {}
  PROVE  Max(S) \in S /\ \A k \in S : Max(S) >= k
  <1> DEFINE T == {n - i : i \in S}
  <1>1. T \in SUBSET Nat /\ T # {}
    <2>1. \A i \in S : n - i \in Nat
      OBVIOUS
    <2> QED BY <2>1
  <1>2. PICK j \in T : \A k \in T : j <= k
    BY <1>1, LeastOf
  <1>3. PICK i \in S : j = n - i
    BY <1>2
  <1>4. \A k \in S : i >= k
    BY <1>2, <1>3
  <1> QED BY <1>4 DEF Max

\* The parse of the bytes, as Feed folds over them.
Fed(f, b) == CHOOSE h \in {FeedByte(g, b) : g \in {f}} : TRUE

\* A turn of the fold is a byte of the parse.
LEMMA TurnIs == \A f, b : Fed(f, b) = FeedByte(f, b)
  BY DEF Fed
Feeding(f, bytes, g) ==
  g = [s \in SUBSET DOMAIN bytes |->
        IF s = {} THEN f ELSE Fed(g[s \ {Max(s)}], bytes[Max(s)])]

\* The fold is well defined.
LEMMA FeedingExists == ASSUME NEW f, NEW bytes \in Seq(Nat) PROVE \E g : Feeding(f, bytes, g)
  <1> DEFINE D == DOMAIN bytes
             Body(h, s) == IF s = {} THEN f ELSE Fed(h[s \ {Max(s)}], bytes[Max(s)])
             Upto(h, n) == \A s \in SUBSET D : Cardinality(s) <= n => h[s] = Body(h, s)
             K == {n \in Nat : \E h : Upto(h, n)}
  <1>1. D = 1..Len(bytes) /\ Len(bytes) \in Nat /\ IsFiniteSet(D)
    BY FS_Interval
  <1>2. \A s \in SUBSET D : IsFiniteSet(s) /\ Cardinality(s) \in Nat
    <2> HIDE DEF D
    <2> QED BY <1>1, FS_Subset, FS_CardinalityType
  <1>3. ASSUME NEW s \in SUBSET D, s # {}
        PROVE  s \ {Max(s)} \in SUBSET D /\ Cardinality(s \ {Max(s)}) = Cardinality(s) - 1
    BY <1>1, <1>2, <1>3, GreatestOf, FS_RemoveElement
  <1> HIDE DEF D
  <1>4. 0 \in K
    <2> DEFINE h == [s \in SUBSET D |-> f]
    <2>1. Upto(h, 0)
      BY <1>2, FS_EmptySet
    <2> QED BY <2>1
  <1>5. ASSUME NEW n \in K PROVE n + 1 \in K
    <2>1. PICK h : Upto(h, n)
      OBVIOUS
    <2> DEFINE k == [s \in SUBSET D |-> IF Cardinality(s) <= n THEN h[s] ELSE Body(h, s)]
    <2>2. ASSUME NEW s \in SUBSET D, Cardinality(s) <= n + 1 PROVE k[s] = Body(k, s)
      <3>1. k[s] = Body(h, s)
        BY <2>1
      <3>2. CASE s = {}
        BY <3>1, <3>2
      <3>3. CASE s # {}
        <4>1. k[s \ {Max(s)}] = h[s \ {Max(s)}]
          BY <1>2, <1>3, <2>2, <3>3
        <4> QED BY <3>1, <3>3, <4>1
      <3> QED BY <3>2, <3>3
    <2>3. Upto(k, n + 1)
      BY <2>2
    <2> HIDE DEF k, Upto
    <2> QED BY <2>3
  <1>6. Nat \subseteq K
    <2> HIDE DEF K
    <2>1. K \in SUBSET Nat
      BY DEF K
    <2> QED BY <1>4, <1>5, <2>1, NaturalsFrom0
  <1>7. PICK h : Upto(h, Cardinality(D))
    BY <1>1, <1>2, <1>6
  <1> DEFINE g == [s \in SUBSET D |-> h[s]]
  <1>8. ASSUME NEW s \in SUBSET D PROVE g[s] = Body(g, s)
    <2>1. Cardinality(s) <= Cardinality(D)
      BY <1>1, FS_Subset
    <2>2. s # {} => g[s \ {Max(s)}] = h[s \ {Max(s)}]
      BY <1>3
    <2> QED BY <1>7, <2>1, <2>2
  <1>9. Feeding(f, bytes, g)
    BY <1>8 DEF Feeding, D
  <1> QED BY <1>9

\* However many bytes come at once, the parse stays one of the same packets.
LEMMA FeedKeeps ==
  ASSUME Measured, NEW Q \in Seq(Ops), NEW f, NEW j \in Nat, NEW m \in Nat,
         NEW bytes \in Seq(Nat), NEW S \in Seq(Nat), Parsed(f, Q, j, m, Cat(bytes, S))
  PROVE  \E k \in Nat : Parsed(Feed(f, bytes), Q, j, k, S)
  <1> DEFINE D == DOMAIN bytes
             l == Len(bytes)
             g == CHOOSE h : Feeding(f, bytes, h)
             Unread(n) == SubSeq(bytes, n + 1, l)
             Good(n) == n <= l => \E k \in Nat : Parsed(g[1..n], Q, j, k, Cat(Unread(n), S))
             B == {n \in Nat : Good(n)}
  <1>1. Feed(f, bytes) = g[D]
    BY DEF Feed, FoldLeft, MapThenFoldSet, Feeding, Fed
  <1>2. D = 1..l /\ l \in Nat /\ \A i \in D : bytes[i] \in Nat
    OBVIOUS
  <1>3. Feeding(f, bytes, g)
    BY FeedingExists
  <1> HIDE DEF g
  <1>4. /\ g[{}] = f
        /\ \A s \in SUBSET D : s # {} => g[s] = FeedByte(g[s \ {Max(s)}], bytes[Max(s)])
    BY <1>3, TurnIs DEF Feeding
  <1>5. 0 \in B
    <2>1. 1..0 = {} /\ Unread(0) = bytes
      OBVIOUS
    <2> QED BY <1>4, <2>1
  <1>6. ASSUME NEW n \in B PROVE n + 1 \in B
    <2> SUFFICES ASSUME n + 1 <= l PROVE Good(n + 1)
      OBVIOUS
    <2>1. PICK k \in Nat : Parsed(g[1..n], Q, j, k, Cat(Unread(n), S))
      <3>1. n \in Nat /\ n <= l /\ Good(n)
        BY <1>2
      <3> HIDE DEF Unread, B
      <3> QED BY <3>1
    <2> DEFINE s == 1..(n + 1)
               b == bytes[n + 1]
    <2>2. s \in SUBSET D /\ s # {} /\ n + 1 \in s /\ b \in Nat /\ n + 1 \in 1..l
      <3>1. n \in Nat /\ n + 1 <= l /\ l \in Nat
        BY <1>2
      <3> HIDE DEF l
      <3>2. n + 1 \in 1..l /\ s \subseteq 1..l /\ n + 1 \in s
        BY <3>1
      <3>3. s # {}
        BY <3>2
      <3> HIDE DEF s
      <3>4. b \in Nat
        BY <1>2, <3>2
      <3> QED BY <1>2, <3>2, <3>3, <3>4
    <2>3. Max(s) = n + 1 /\ s \ {n + 1} = 1..n
      <3>1. Max(s) \in s /\ \A i \in s : Max(s) >= i
        BY <1>2, <2>2, GreatestOf
      <3> QED BY <2>2, <3>1
    <2>4. g[s] = FeedByte(g[1..n], b)
      BY <1>4, <2>2, <2>3
    <2>5. Unread(n) = Cat(One(b), Unread(n + 1)) /\ Unread(n + 1) \in Seq(Nat)
      <3>1. SubSeq(bytes, n + 1, l) = <<b>> \o SubSeq(bytes, (n + 1) + 1, l)
        BY <2>2, SubSeqRecursiveFirst
      <3>2. SubSeq(bytes, (n + 1) + 1, l) \in Seq(Nat)
        BY <1>2
      <3> QED BY <3>1, <3>2 DEF Cat, One
    <2> HIDE DEF Unread, b, s
    <2>6. One(b) \in Seq(Nat) /\ Cat(Unread(n + 1), S) \in Seq(Nat)
      BY <2>2, <2>5, Cats, CatLengths
    <2>7. Cat(Unread(n), S) = Cat(One(b), Cat(Unread(n + 1), S))
      BY <2>5, <2>6, Cats
    <2>8. \E i \in Nat : Parsed(FeedByte(g[1..n], b), Q, j, i, Cat(Unread(n + 1), S))
      BY <2>1, <2>2, <2>6, <2>7, ByteKeeps
    <2> QED BY <2>4, <2>8 DEF s
  <1>7. l \in B
    <2>1. B \in SUBSET Nat
      OBVIOUS
    <2> HIDE DEF B
    <2> QED BY <1>2, <1>5, <1>6, <2>1, NaturalsFrom0
  <1>8. Unread(l) = <<>> /\ Cat(<<>>, S) = S
    BY CatLengths
  <1> HIDE DEF Unread
  <1>9. PICK k \in Nat : Parsed(g[D], Q, j, k, S)
    BY <1>2, <1>7, <1>8
  <1> QED BY <1>1, <1>9

\* Packets that are written later come behind the bytes that are known.
LEMMA ParsedGrows ==
  ASSUME Measured, NEW Q \in Seq(Ops), NEW r \in Seq(Ops), NEW f, NEW j \in Nat, NEW m \in Nat,
         NEW S \in Seq(Nat), Parsed(f, Q, j, m, S)
  PROVE  Parsed(f, Q \o r, j, m, Cat(S, BytesOf(r)))
  <1> DEFINE R == Q \o r
             T == Cat(S, BytesOf(r))
  <1>1. /\ R \in Seq(Ops) /\ Len(R) = Len(Q) + Len(r) /\ Len(Q) \in Nat /\ Len(r) \in Nat
        /\ \A i \in 1..Len(Q) : R[i] = Q[i] /\ Q[i] \in Ops
    OBVIOUS
  <1>2. \A i \in 1..(Len(Q) + 1) : Rest(R, i) = Cat(Rest(Q, i), BytesOf(r))
    BY RestJoint
  <1>3. /\ f \in Frames /\ m \in 0..Len(Q) /\ j \in 0..m
        /\ Results(f, Q, j, m) /\ Begun(f, Q, m, S)
        /\ f.stopped => f.at = "header" /\ m < Len(Q)
        /\ ~f.stopped => f.rest = <<>> /\ At(f, Q, m, S)
    BY DEF Parsed
  <1>4. f.stopped \in BOOLEAN
    BY <1>3 DEF Frames
  <1>5. BytesOf(r) \in Seq(Nat) /\ \A i \in 1..(Len(Q) + 1) : Rest(Q, i) \in Seq(Nat)
    <2>1. 1 \in 1..(Len(r) + 1) /\ SubSeq(r, 1, Len(r)) = r
      OBVIOUS
    <2>2. Rest(r, 1) \in Seq(Nat)
      BY <2>1, RestIs
    <2> QED BY <2>1, <2>2, RestIs DEF Rest
  <1> HIDE DEF R, T
  <1>6. Results(f, R, j, m)
    <2>1. \A i \in 1..(m - j) : j + i \in 1..Len(Q)
      BY <1>1, <1>3
    <2> QED BY <1>1, <1>3, <2>1 DEF Results
  <1>7. ASSUME ~f.stopped PROVE At(f, R, m, T)
    <2>1. CASE AtHeader(f, Q, m, S)
      <3>1. m + 1 \in 1..(Len(Q) + 1)
        BY <1>1, <1>3
      <3>2. AtHeader(f, R, m, T)
        BY <1>2, <2>1, <3>1 DEF AtHeader, T
      <3> QED BY <3>2 DEF At
    <2>2. ASSUME NEW o \in Ops, AtLength(f, Q, m, S, o) PROVE At(f, R, m, T)
      <3>1. m < Len(Q) /\ o = Q[m + 1]
        BY <2>2 DEF AtLength
      <3>2. PICK d \in Nat : /\ S = Cat(Field[d], Cat(Copies(lengths[o], o), Rest(Q, m + 2)))
                             /\ Cat(f.bytes, Field[d]) = Cat(One(o), Field[lengths[o]])
                             /\ lengths[o] = f.left + f.mul * d
        BY <2>2 DEF AtLength
      <3>3. m + 1 \in 1..Len(Q) /\ m + 2 \in 1..(Len(Q) + 1) /\ m < Len(R)
        BY <1>1, <1>3, <3>1
      <3>4. o = R[m + 1]
        BY <1>1, <3>1, <3>3
      <3> DEFINE F == Field[d]
                 C == Copies(lengths[o], o)
                 X == Rest(Q, m + 2)
                 Y == BytesOf(r)
      <3>5. F \in Seq(Nat) /\ C \in Seq(Nat) /\ X \in Seq(Nat) /\ Y \in Seq(Nat)
        BY <1>5, <3>3, FieldIs, CopiesAre, BytesAre
      <3>6. Rest(R, m + 2) = Cat(X, Y)
        BY <1>2, <3>3
      <3>7. S = Cat(F, Cat(C, X)) /\ T = Cat(S, Y)
        BY <3>2 DEF T
      <3>8. (T = Cat(F, Cat(C, Rest(R, m + 2)))) =>
              AtLength(f, R, m, T, o)
        BY <2>2, <3>2, <3>3, <3>4 DEF AtLength
      <3> HIDE DEF F, C, X, Y
      <3>9. Cat(C, X) \in Seq(Nat)
        BY <3>5, Cats
      <3>10. Cat(Cat(F, Cat(C, X)), Y) = Cat(F, Cat(Cat(C, X), Y))
        BY <3>5, <3>9, Cats
      <3>11. Cat(Cat(C, X), Y) = Cat(C, Cat(X, Y))
        BY <3>5, Cats
      <3> QED BY <3>6, <3>7, <3>8, <3>10, <3>11 DEF At
    <2>3. ASSUME NEW o \in Ops, AtPayload(f, Q, m, S, o) PROVE At(f, R, m, T)
      <3>1. /\ f.at = "payload" /\ m < Len(Q) /\ o = Q[m + 1]
            /\ S = Cat(Copies(f.left, o), Rest(Q, m + 2))
            /\ Cat(f.bytes, Copies(f.left, o)) = Bytes(o)
        BY <2>3 DEF AtPayload
      <3>2. m + 1 \in 1..Len(Q) /\ m + 2 \in 1..(Len(Q) + 1) /\ m < Len(R) /\ f.left \in Nat
        BY <1>1, <1>3, <3>1 DEF Frames
      <3>3. o = R[m + 1]
        BY <1>1, <3>1, <3>2
      <3>4. Copies(f.left, o) \in Seq(Nat) /\ Rest(Q, m + 2) \in Seq(Nat)
        BY <1>5, <3>2, CopiesAre
      <3>5. Rest(R, m + 2) = Cat(Rest(Q, m + 2), BytesOf(r))
        BY <1>2, <3>2
      <3>6. T = Cat(Copies(f.left, o), Rest(R, m + 2))
        BY <1>5, <3>1, <3>4, <3>5, Cats DEF T
      <3>7. AtPayload(f, R, m, T, o)
        BY <3>1, <3>2, <3>3, <3>6 DEF AtPayload
      <3> QED BY <3>7 DEF At
    <2> QED BY <1>3, <1>7, <2>1, <2>2, <2>3 DEF At
  <1>8. Begun(f, R, m, T)
    <2>1. m + 1 \in 1..(Len(Q) + 1)
      BY <1>1, <1>3
    <2>2. Rest(R, m + 1) = Cat(Rest(Q, m + 1), BytesOf(r)) /\ Rest(Q, m + 1) \in Seq(Nat)
      BY <1>2, <1>5, <2>1
    <2> DEFINE X == Rest(Q, m + 1)
               Y == BytesOf(r)
    <2>3. X \in Seq(Nat) /\ Y \in Seq(Nat) /\ T = Cat(S, Y) /\ Rest(R, m + 1) = Cat(X, Y)
      BY <1>5, <2>2 DEF T
    <2>4. Begun(f, Q, m, S) => (f.stopped \/ f.at # "header" => Len(S) < Len(X))
      BY DEF Begun
    <2> HIDE DEF X, Y
    <2>5. Len(T) = Len(S) + Len(Y) /\ Len(Cat(X, Y)) = Len(X) + Len(Y)
      BY <2>3, CatLengths
    <2>6. Len(S) \in Nat /\ Len(X) \in Nat /\ Len(Y) \in Nat
      BY <2>3, CatLengths
    <2> QED BY <1>3, <2>3, <2>4, <2>5, <2>6 DEF Begun
  <1>9. Parsed(f, R, j, m, T)
    BY <1>1, <1>3, <1>4, <1>6, <1>7, <1>8 DEF Parsed
  <1> QED BY <1>9 DEF R, T

--------------------------------------------------------------------------------
\* What the endpoint is given: the packets it asks for, in their order.

\* The bytes of a queue, and of a queue of one.
LEMMA BytesOfIs == ASSUME Measured, NEW q \in Seq(Ops) PROVE BytesOf(q) \in Seq(Nat)
  <1>1. 1 \in 1..(Len(q) + 1) /\ SubSeq(q, 1, Len(q)) = q
    OBVIOUS
  <1>2. Rest(q, 1) \in Seq(Nat)
    BY <1>1, RestIs
  <1> QED BY <1>1, <1>2 DEF Rest

\* The bytes of a queue of one packet are those of the packet.
LEMMA BytesOfOne == ASSUME Measured, NEW o \in Ops PROVE BytesOf(<<o>>) = Bytes(o)
  <1>1. <<>> \in Seq(Ops) /\ Append(<<>>, o) = <<o>>
    OBVIOUS
  <1>2. BytesOf(<<o>>) = Cat(BytesOf(<<>>), Bytes(o)) /\ BytesOf(<<>>) = <<>>
    BY <1>1, BytesOfAppend DEF Cat
  <1> QED BY <1>2, BytesAre, CatLengths

\* What the endpoint is, and what packets are to it.
KindNames == {"wanted", "connect", "other", "large", "malformed", "badConnect"}
ModesTyped ==
  /\ Measured /\ kinds \in [Ops -> KindNames] /\ bulkRead \in BOOLEAN
  /\ endpoint \in {"v3", "v5 client", "v5 server"}
KindOf(o) == IF kinds[o] = "large" /\ endpoint = "v3" THEN "wanted" ELSE kinds[o]
Goes(o) == Asked(KindOf(o)) \/ KindOf(o) = "other"

\* A packet on the wire is to the endpoint what its operation says; one that cannot be
\* accepted makes the receive close, send a DISCONNECT or lose its handler.
LEMMA KindIs ==
  ASSUME ModesTyped, NEW o \in Ops
  PROVE  /\ Kind(Packet(Bytes(o))) = KindOf(o) /\ KindOf(o) \in KindNames
         /\ ~Goes(o) => Rejections(KindOf(o)) \subseteq {"close", "disconnect", "lost"}
  <1>1. Packet(Bytes(o)).packet = Bytes(o)
    BY DEF Packet
  <1>2. Head(Bytes(o)) = o
    BY BytesAre DEF ModesTyped
  <1>3. Kind(Packet(Bytes(o))) = KindOf(o)
    BY <1>1, <1>2 DEF Kind, KindOf
  <1>4. KindOf(o) \in KindNames
    BY DEF KindOf, ModesTyped, KindNames
  <1>5. ASSUME ~Goes(o) PROVE Rejections(KindOf(o)) \subseteq {"close", "disconnect", "lost"}
    <2>1. KindOf(o) \in {"large", "malformed", "badConnect"}
      BY <1>4, <1>5 DEF Goes, Asked, KindNames
    <2>2. endpoint \in {"v3", "v5 client", "v5 server"}
      BY DEF ModesTyped
    <2>3. KindOf(o) = "large" => endpoint # "v3"
      BY DEF KindOf
    <2> QED BY <2>1, <2>2, <2>3 DEF Rejections
  <1> QED BY <1>3, <1>4, <1>5

\* Of the packets that are written, the places of those async_recv completes with.
AcceptedIn(w) == {i \in 1..Len(w) : Asked(KindOf(w[i])) /\ \A k \in 1..i : Goes(w[k])}
AcceptedTo(w, i) == {k \in AcceptedIn(w) : k <= i}
UpTo(w, i) == Cardinality(AcceptedTo(w, i))

\* A place more counts for one if async_recv completes with its packet.
LEMMA AcceptedAre ==
  ASSUME NEW w \in Seq(Ops), NEW i \in 0..Len(w)
  PROVE  /\ IsFiniteSet(AcceptedTo(w, i)) /\ UpTo(w, i) \in Nat /\ UpTo(w, 0) = 0
         /\ i < Len(w) => UpTo(w, i + 1) = UpTo(w, i) + IF i + 1 \in AcceptedIn(w) THEN 1 ELSE 0
  <1>1. AcceptedTo(w, i) \subseteq 1..Len(w) /\ Len(w) \in Nat
    BY DEF AcceptedTo, AcceptedIn
  <1>2. IsFiniteSet(AcceptedTo(w, i)) /\ UpTo(w, i) \in Nat
    <2>1. IsFiniteSet(1..Len(w))
      BY <1>1, FS_Interval
    <2>2. IsFiniteSet(AcceptedTo(w, i))
      BY <1>1, <2>1, FS_Subset
    <2> QED BY <2>2, FS_CardinalityType DEF UpTo
  <1>3. UpTo(w, 0) = 0
    <2>1. AcceptedTo(w, 0) = {}
      BY <1>1 DEF AcceptedTo, AcceptedIn
    <2> QED BY <2>1, FS_EmptySet DEF UpTo
  <1>4. ASSUME i < Len(w)
        PROVE  UpTo(w, i + 1) = UpTo(w, i) + IF i + 1 \in AcceptedIn(w) THEN 1 ELSE 0
    <2>1. CASE i + 1 \in AcceptedIn(w)
      <3>1. AcceptedTo(w, i + 1) = AcceptedTo(w, i) \cup {i + 1} /\ i + 1 \notin AcceptedTo(w, i)
        BY <1>1, <2>1 DEF AcceptedTo, AcceptedIn
      <3>2. Cardinality(AcceptedTo(w, i) \cup {i + 1}) = Cardinality(AcceptedTo(w, i)) + 1
        BY <1>2, <3>1, FS_AddElement
      <3> QED BY <2>1, <3>1, <3>2 DEF UpTo
    <2>2. CASE i + 1 \notin AcceptedIn(w)
      <3>1. AcceptedTo(w, i + 1) = AcceptedTo(w, i)
        BY <1>1, <2>2 DEF AcceptedTo, AcceptedIn
      <3> QED BY <1>2, <2>2, <3>1 DEF UpTo
    <2> QED BY <2>1, <2>2
  <1> QED BY <1>2, <1>3, <1>4

\* What async_recv has completed with: packets in their order, and at last an error.
Fails(d) == d # <<>> /\ d[Len(d)].ec # "success"
IsNext(w, d, i) == \E p \in AcceptedIn(w) : i = UpTo(w, p) /\ d[i] = Packet(Bytes(w[p]))
Ordered(w, d) == \A i \in 1..Len(d) : IsNext(w, d, i) \/ (i = Len(d) /\ Fails(d))
Followed(w, d, j) ==
  j \in 0..Len(w) /\ (\A k \in 1..j : Goes(w[k])) /\ Len(d) = UpTo(w, j)

\* The packets that a parse has to do with: those written, and, when the connection has
\* ended in the midst of a write, one more whose last bytes M do not come.
Late(l, q, M) ==
  /\ q \in Seq(Ops) /\ M \in Seq(Nat)
  /\ (q = <<>> /\ M = <<>>) \/ (l # "up" /\ Len(q) = 1 /\ M # <<>>)
Then(w, q) == w \o q
Reads(f, r) ==
  ~bulkRead => /\ f.packets = <<>> /\ ~(f.at = "payload" /\ f.left = 0)
               /\ r = "idle" => f = NoFrame
Framed(w, d, f, x, r, l) ==
  \E q, M : \E j, m \in Nat :
     /\ Late(l, q, M) /\ Parsed(f, Then(w, q), j, m, Cat(x, M)) /\ Followed(w, d, j) /\ Reads(f, r)
Correct(w, d, f, x, r, l) ==
  /\ w \in Seq(Ops) /\ d \in Seq(Given) /\ x \in Seq(Nat) /\ Ordered(w, d)
  /\ Fails(d) => r = "idle"
  /\ ~Fails(d) /\ r \in {"idle", "reading"} => Framed(w, d, f, x, r, l)

\* More packets are written: those before are the same.
LEMMA AcceptedGrow ==
  ASSUME NEW w \in Seq(Ops), NEW s \in Seq(Ops)
  PROVE  /\ \A i \in 1..Len(w) : (w \o s)[i] = w[i]
         /\ \A i \in 0..Len(w) : UpTo(w \o s, i) = UpTo(w, i)
         /\ AcceptedIn(w) \subseteq AcceptedIn(w \o s)
         /\ \A d : Ordered(w, d) => Ordered(w \o s, d)
         /\ \A d, j : Followed(w, d, j) => Followed(w \o s, d, j)
  <1> DEFINE v == w \o s
  <1>1. /\ Len(w) \in Nat /\ Len(s) \in Nat /\ Len(v) = Len(w) + Len(s)
        /\ \A i \in 1..Len(w) : v[i] = w[i]
    OBVIOUS
  <1> HIDE DEF v
  <1>2. \A i \in 1..Len(w) : i \in AcceptedIn(v) <=> i \in AcceptedIn(w)
    BY <1>1 DEF AcceptedIn
  <1>3. ASSUME NEW i \in 0..Len(w) PROVE UpTo(v, i) = UpTo(w, i)
    <2>1. \A W \in {v, w} : \A k \in AcceptedIn(W) : k \in Nat /\ k >= 1
      BY <1>1 DEF AcceptedIn
    <2>2. AcceptedTo(v, i) = AcceptedTo(w, i)
      <3>1. \A k : k \in AcceptedTo(v, i) => k \in AcceptedTo(w, i)
        BY <1>1, <1>2, <2>1 DEF AcceptedTo
      <3>2. \A k : k \in AcceptedTo(w, i) => k \in AcceptedTo(v, i)
        BY <1>1, <1>2, <2>1 DEF AcceptedTo
      <3> QED BY <3>1, <3>2
    <2> QED BY <2>2 DEF UpTo
  <1>4. AcceptedIn(w) \subseteq AcceptedIn(v)
    <2>1. AcceptedIn(w) \subseteq 1..Len(w)
      BY DEF AcceptedIn
    <2> QED BY <1>2, <2>1
  <1>5. ASSUME NEW d, NEW i, IsNext(w, d, i) PROVE IsNext(v, d, i)
    <2>1. PICK p \in AcceptedIn(w) : i = UpTo(w, p) /\ d[i] = Packet(Bytes(w[p]))
      BY <1>5 DEF IsNext
    <2>2. p \in 1..Len(w)
      BY DEF AcceptedIn
    <2>3. p \in AcceptedIn(v) /\ v[p] = w[p] /\ UpTo(v, p) = UpTo(w, p)
      BY <1>1, <1>3, <1>4, <2>2
    <2> QED BY <2>1, <2>3 DEF IsNext
  <1>6. \A d : Ordered(w, d) => Ordered(v, d)
    BY <1>5 DEF Ordered
  <1>7. ASSUME NEW d, NEW j, Followed(w, d, j) PROVE Followed(v, d, j)
    <2>1. j \in 0..Len(w) /\ (\A k \in 1..j : Goes(w[k])) /\ Len(d) = UpTo(w, j)
      BY <1>7 DEF Followed
    <2>2. UpTo(v, j) = UpTo(w, j) /\ \A k \in 1..j : v[k] = w[k]
      BY <1>1, <1>3, <2>1
    <2> QED BY <1>1, <2>1, <2>2 DEF Followed
  <1> QED BY <1>1, <1>3, <1>4, <1>6, <1>7 DEF v

\* The packets of a write are written.
LEMMA WrittenStep ==
  ASSUME ModesTyped, NEW w, NEW d, NEW f, NEW x, NEW r, NEW s \in Seq(Ops),
         Correct(w, d, f, x, r, "up")
  PROVE  Correct(w \o s, d, f, Cat(x, BytesOf(s)), r, "up")
  <1> DEFINE v == w \o s
             y == Cat(x, BytesOf(s))
  <1>1. /\ w \in Seq(Ops) /\ d \in Seq(Given) /\ x \in Seq(Nat) /\ Ordered(w, d)
        /\ Fails(d) => r = "idle"
        /\ ~Fails(d) /\ r \in {"idle", "reading"} => Framed(w, d, f, x, r, "up")
    BY DEF Correct
  <1>2. BytesOf(s) \in Seq(Nat) /\ Measured
    BY BytesOfIs DEF ModesTyped
  <1>3. v \in Seq(Ops) /\ y \in Seq(Nat)
    <2>1. v \in Seq(Ops)
      BY <1>1
    <2>2. y \in Seq(Nat)
      BY <1>1, <1>2, Cats
    <2> QED BY <2>1, <2>2
  <1>4. Ordered(v, d)
    BY <1>1, AcceptedGrow
  <1>5. ASSUME Framed(w, d, f, x, r, "up") PROVE Framed(v, d, f, y, r, "up")
    <2>1. PICK q, M : \E j, m \in Nat :
            /\ Late("up", q, M) /\ Parsed(f, Then(w, q), j, m, Cat(x, M)) /\ Followed(w, d, j)
            /\ Reads(f, r)
      BY <1>5 DEF Framed
    <2>2. q = <<>> /\ M = <<>>
      BY <2>1 DEF Late
    <2>3. Then(w, q) = w /\ Then(v, q) = v /\ Cat(x, M) = x /\ Cat(y, M) = y
      BY <1>1, <1>3, <2>2, CatLengths DEF Then
    <2> HIDE DEF v, y
    <2>4. PICK j, m \in Nat : Parsed(f, w, j, m, x) /\ Followed(w, d, j) /\ Reads(f, r)
      BY <2>1, <2>3
    <2>5. Parsed(f, v, j, m, y)
      BY <1>1, <1>2, <2>4, ParsedGrows DEF v, y
    <2>6. Followed(v, d, j)
      BY <1>1, <2>4, AcceptedGrow DEF v
    <2> QED BY <2>1, <2>3, <2>4, <2>5, <2>6 DEF Framed
  <1> HIDE DEF v, y
  <1>6. Correct(v, d, f, y, r, "up")
    BY <1>1, <1>3, <1>4, <1>5 DEF Correct
  <1> QED BY <1>6 DEF v, y

\* The link changes while nothing is being written, or after a part of a packet.
LEMMA LinkStep ==
  ASSUME NEW w, NEW d, NEW f, NEW x, NEW r, NEW l, NEW to, Correct(w, d, f, x, r, l), to # "up"
  PROVE  Correct(w, d, f, x, r, to)
  <1>1. ASSUME Framed(w, d, f, x, r, l) PROVE Framed(w, d, f, x, r, to)
    <2>1. PICK q, M : \E j, m \in Nat :
            /\ Late(l, q, M) /\ Parsed(f, Then(w, q), j, m, Cat(x, M)) /\ Followed(w, d, j)
            /\ Reads(f, r)
      BY <1>1 DEF Framed
    <2>2. Late(to, q, M)
      BY <2>1 DEF Late
    <2> QED BY <2>1, <2>2 DEF Framed
  <1> QED BY <1>1 DEF Correct

\* The connection ends in the midst of a write: the packet under way is read as far as
\* it was written, and what is missing of it never comes.
LEMMA PartStep ==
  ASSUME ModesTyped, NEW w, NEW d, NEW f, NEW x, NEW r, NEW o \in Ops, NEW to, to # "up",
         NEW n \in 0..(Len(Bytes(o)) - 1), Correct(w, d, f, x, r, "up")
  PROVE  Correct(w, d, f, Cat(x, SubSeq(Bytes(o), 1, n)), r, to)
  <1> DEFINE b == Bytes(o)
             a == SubSeq(b, 1, n)
             z == SubSeq(b, n + 1, Len(b))
             y == Cat(x, a)
             p == <<o>>
  <1>1. /\ w \in Seq(Ops) /\ d \in Seq(Given) /\ x \in Seq(Nat) /\ Ordered(w, d)
        /\ Fails(d) => r = "idle"
        /\ ~Fails(d) /\ r \in {"idle", "reading"} => Framed(w, d, f, x, r, "up")
    BY DEF Correct
  <1>2. b \in Seq(Nat) /\ Len(b) \in Nat /\ Measured
    <2>1. Measured
      BY DEF ModesTyped
    <2>2. b \in Seq(Nat)
      BY <2>1, BytesAre
    <2> HIDE DEF b
    <2> QED BY <2>1, <2>2
  <1>3. a \in Seq(Nat) /\ z \in Seq(Nat) /\ z # <<>> /\ b = Cat(a, z)
    <2> HIDE DEF b
    <2>1. n \in 0..(Len(b) - 1)
      BY DEF b
    <2>2. a \in Seq(Nat) /\ z \in Seq(Nat) /\ Len(a) = n /\ Len(z) = Len(b) - n
      BY <1>2, <2>1
    <2>3. /\ \A i \in 1..n : a[i] = b[i]
          /\ \A i \in 1..(Len(b) - n) : z[i] = b[n + i]
      BY <1>2, <2>1
    <2> HIDE DEF a, z
    <2>4. n \in Nat /\ Len(b) - n \in Nat \ {0} /\ n + (Len(b) - n) = Len(b)
      BY <1>2, <2>1
    <2>5. /\ a \o z \in Seq(Nat) /\ Len(a \o z) = Len(a) + Len(z)
          /\ \A i \in 1..(Len(a) + Len(z)) :
               (a \o z)[i] = IF i <= Len(a) THEN a[i] ELSE z[i - Len(a)]
      BY <2>2, ConcatProperties
    <2>6. ASSUME NEW i \in 1..Len(b) PROVE (a \o z)[i] = b[i]
      <3> DEFINE k == Len(b)
      <3>1. i \in 1..k /\ k \in Nat /\ n \in Nat
        BY <1>2, <2>4
      <3> HIDE DEF k
      <3>2. i <= n => i \in 1..n
        BY <3>1
      <3>3. ~(i <= n) => i - n \in 1..(Len(b) - n) /\ n + (i - n) = i
        <4>1. ~(i <= n) => i - n \in 1..(k - n) /\ n + (i - n) = i
          BY <3>1
        <4> QED BY <4>1 DEF k
      <3>4. (a \o z)[i] = IF i <= n THEN a[i] ELSE z[i - n]
        BY <2>2, <2>4, <2>5
      <3> QED BY <2>3, <3>2, <3>3, <3>4
    <2>7. z # <<>>
      BY <2>2, <2>4
    <2>8. a \o z = b
      <3>1. Len(a \o z) = Len(b)
        BY <2>2, <2>4, <2>5
      <3> QED BY <1>2, <2>5, <2>6, <3>1, SeqEqual
    <2> QED BY <2>2, <2>8, <2>7 DEF Cat
  <1>4. y \in Seq(Nat) /\ Cat(y, z) = Cat(x, b)
    <2> HIDE DEF a, z, b
    <2> QED BY <1>1, <1>3, Cats
  <1>5. p \in Seq(Ops) /\ Len(p) = 1 /\ BytesOf(p) = b
    <2>1. p \in Seq(Ops) /\ Len(p) = 1
      OBVIOUS
    <2>2. BytesOf(p) = b
      BY <1>2, BytesOfOne
    <2> QED BY <2>1, <2>2
  <1> HIDE DEF a, b, z, y, p
  <1>6. ASSUME Framed(w, d, f, x, r, "up") PROVE Framed(w, d, f, y, r, to)
    <2>1. PICK q, M : \E j, m \in Nat :
            /\ Late("up", q, M) /\ Parsed(f, Then(w, q), j, m, Cat(x, M)) /\ Followed(w, d, j)
            /\ Reads(f, r)
      BY <1>6 DEF Framed
    <2>2. q = <<>> /\ M = <<>>
      BY <2>1 DEF Late
    <2>3. Then(w, q) = w /\ Cat(x, M) = x
      BY <1>1, <2>2, CatLengths DEF Then
    <2>4. PICK j, m \in Nat : Parsed(f, w, j, m, x) /\ Followed(w, d, j) /\ Reads(f, r)
      BY <2>1, <2>3
    <2>5. Parsed(f, w \o p, j, m, Cat(x, BytesOf(p)))
      BY <1>1, <1>2, <1>5, <2>4, ParsedGrows
    <2>6. Parsed(f, Then(w, p), j, m, Cat(y, z))
      BY <1>4, <1>5, <2>5 DEF Then
    <2>7. Late(to, p, z)
      BY <1>3, <1>5 DEF Late
    <2> QED BY <2>4, <2>6, <2>7 DEF Framed
  <1>7. Correct(w, d, f, y, r, to)
    BY <1>1, <1>4, <1>6 DEF Correct
  <1> QED BY <1>7 DEF y, a, b

\* A packet that is parsed has been written.
LEMMA ParsedWritten ==
  ASSUME Measured, NEW w \in Seq(Ops), NEW f, NEW j \in Nat, NEW m \in Nat, NEW x \in Seq(Nat),
         NEW l, NEW q, NEW M, Late(l, q, M), Parsed(f, Then(w, q), j, m, Cat(x, M))
  PROVE  /\ q \in Seq(Ops) /\ M \in Seq(Nat) /\ Cat(x, M) \in Seq(Nat) /\ Then(w, q) \in Seq(Ops)
         /\ m <= Len(w) /\ \A i \in 1..m : Then(w, q)[i] = w[i]
  <1> DEFINE Q == Then(w, q)
             S == Cat(x, M)
  <1>1. q \in Seq(Ops) /\ M \in Seq(Nat)
    BY DEF Late
  <1>2. /\ Q \in Seq(Ops) /\ Len(Q) = Len(w) + Len(q) /\ Len(w) \in Nat /\ Len(q) \in Nat
        /\ \A i \in 1..Len(w) : Q[i] = w[i]
    BY <1>1 DEF Then
  <1>3. S \in Seq(Nat) /\ Len(S) = Len(x) + Len(M)
    BY <1>1, Cats, CatLengths
  <1> HIDE DEF Q, S
  <1>4. /\ f.stopped => m < Len(Q)
        /\ ~f.stopped => At(f, Q, m, S)
    BY DEF Parsed, Q, S
  <1>5. m <= Len(Q)
    <2>1. m \in 0..Len(Q)
      BY DEF Parsed, Q
    <2> QED BY <1>2, <2>1
  <1>6. CASE q = <<>>
    <2>1. Len(q) = 0
      BY <1>6
    <2>2. m <= Len(w)
      <3>1. Len(Q) = Len(w) + Len(q) /\ Len(w) \in Nat /\ Len(q) \in Nat
        BY <1>2
      <3>2. m <= Len(Q)
        BY <1>5
      <3> QED BY <2>1, <3>1, <3>2
    <2>3. \A i \in 1..m : Q[i] = w[i]
      BY <1>2, <2>2
    <2> QED BY <1>1, <1>2, <1>3, <2>2, <2>3 DEF Q, S
  <1>7. CASE q # <<>>
    <2>1. Len(q) = 1 /\ M # <<>>
      BY <1>7 DEF Late
    <2>2. S # <<>>
      <3>1. Len(M) \in Nat /\ Len(x) \in Nat /\ Len(M) # 0
        BY <1>1, <2>1
      <3> QED BY <1>3, <3>1
    <2>3. m # Len(Q)
      <3>1. ASSUME m = Len(Q) PROVE FALSE
        <4>1. At(f, Q, m, S)
          BY <1>2, <1>4, <3>1
        <4>2. AtHeader(f, Q, m, S)
          BY <1>2, <3>1, <4>1 DEF At, AtLength, AtPayload
        <4>3. S = <<>>
          BY <1>2, <3>1, <4>2, RestIs DEF AtHeader
        <4> QED BY <2>2, <4>3
      <3> QED BY <3>1
    <2>4. m <= Len(w)
      <3>1. Len(Q) = Len(w) + Len(q) /\ Len(w) \in Nat /\ Len(q) \in Nat
        BY <1>2
      <3>2. m <= Len(Q)
        BY <1>5
      <3> QED BY <2>1, <2>3, <3>1, <3>2
    <2>5. \A i \in 1..m : Q[i] = w[i]
      BY <1>2, <2>4
    <2> QED BY <1>1, <1>2, <1>3, <2>4, <2>5 DEF Q, S
  <1> QED BY <1>6, <1>7

\* So the packets parsed are those written.
SameTo(u, w, m) == m <= Len(w) /\ \A i \in 1..m : u[i] = w[i]

\* They are the same packets, however many are still to be written.
LEMMA ParsedSame ==
  ASSUME Measured, NEW w \in Seq(Ops), NEW f, NEW j \in Nat, NEW m \in Nat, NEW x \in Seq(Nat),
         NEW l, NEW q, NEW M, Late(l, q, M), Parsed(f, Then(w, q), j, m, Cat(x, M))
  PROVE  SameTo(Then(w, q), w, m)
  <1>1. m <= Len(w)
    BY ParsedWritten
  <1>2. \A i \in 1..m : Then(w, q)[i] = w[i]
    BY ParsedWritten
  <1> QED BY <1>1, <1>2 DEF SameTo

\* What async_recv completes with next: an error, or the next packet that it asks for.
LEMMA Appended ==
  ASSUME NEW d \in Seq(Given), NEW r \in Given
  PROVE  /\ Append(d, r) \in Seq(Given) /\ Append(d, r) # <<>> /\ Len(d) \in Nat
         /\ Len(Append(d, r)) = Len(d) + 1 /\ Append(d, r)[Len(d) + 1] = r
         /\ \A i \in 1..Len(d) : Append(d, r)[i] = d[i]
         /\ Fails(Append(d, r)) <=> r.ec # "success"
  <1>1. /\ Append(d, r) \in Seq(Given) /\ Append(d, r) # <<>> /\ Len(d) \in Nat
        /\ Len(Append(d, r)) = Len(d) + 1 /\ Append(d, r)[Len(d) + 1] = r
        /\ \A i \in 1..Len(d) : Append(d, r)[i] = d[i]
    BY AppendProperties
  <1>2. Fails(Append(d, r)) <=> r.ec # "success"
    BY <1>1 DEF Fails
  <1> QED BY <1>1, <1>2

\* A result more: an error, or the next packet.
LEMMA OrderedOn ==
  ASSUME NEW w, NEW d \in Seq(Given), NEW r \in Given, Ordered(w, d), ~Fails(d),
         r.ec = "success" => IsNext(w, Append(d, r), Len(d) + 1)
  PROVE  Ordered(w, Append(d, r))
  <1> DEFINE e == Append(d, r)
  <1>1. /\ e \in Seq(Given) /\ Len(d) \in Nat /\ Len(e) = Len(d) + 1
        /\ \A i \in 1..Len(d) : e[i] = d[i]
        /\ Fails(e) <=> r.ec # "success"
    BY Appended
  <1> HIDE DEF e
  <1>2. ASSUME NEW i \in 1..Len(e) PROVE IsNext(w, e, i) \/ (i = Len(e) /\ Fails(e))
    <2>1. CASE i = Len(d) + 1
      <3>1. r.ec = "success" => IsNext(w, e, i)
        BY <2>1 DEF e
      <3> QED BY <1>1, <2>1, <3>1
    <2>2. CASE i # Len(d) + 1
      <3>1. i \in 1..Len(d)
        <4>1. i \in 1..(Len(d) + 1)
          BY <1>1
        <4> QED BY <1>1, <2>2, <4>1
      <3>2. IsNext(w, d, i) /\ e[i] = d[i]
        BY <1>1, <3>1 DEF Ordered
      <3> QED BY <3>2 DEF IsNext
    <2> QED BY <2>1, <2>2
  <1>3. Ordered(w, e)
    BY <1>2 DEF Ordered
  <1> QED BY <1>3 DEF e

\* async_recv completes with an error, and no read is under way.
LEMMA FailsStep ==
  ASSUME NEW w, NEW d, NEW f, NEW x, NEW r, NEW l, Correct(w, d, f, x, r, l), ~Fails(d),
         NEW y \in Seq(Nat), NEW ec \in Errors, NEW g
  PROVE  Correct(w, Append(d, Failure(ec)), g, y, "idle", l)
  <1>1. w \in Seq(Ops) /\ d \in Seq(Given) /\ Ordered(w, d)
    BY DEF Correct
  <1>2. Failure(ec) \in Given /\ Failure(ec).ec = ec
    BY GivenAre
  <1> DEFINE e == Append(d, Failure(ec))
  <1>3. e \in Seq(Given) /\ Fails(e)
    BY <1>1, <1>2, Appended DEF Errors
  <1>4. Ordered(w, e)
    BY <1>1, <1>2, OrderedOn DEF Errors
  <1> HIDE DEF e
  <1>5. Correct(w, e, g, y, "idle", l)
    BY <1>1, <1>3, <1>4 DEF Correct
  <1> QED BY <1>5 DEF e

\* async_recv gives the connection up: nothing more is read.
LEMMA GivesUpStep ==
  ASSUME NEW w, NEW d, NEW f, NEW x, NEW r, NEW l, Correct(w, d, f, x, r, l), ~Fails(d),
         NEW y \in Seq(Nat), NEW g, NEW to, to \notin {"idle", "reading"}
  PROVE  Correct(w, d, g, y, to, l)
  BY DEF Correct

\* The next packet of those written is the next result if it is asked for, and is
\* passed over if it is not.
LEMMA NextStep ==
  ASSUME ModesTyped, NEW w \in Seq(Ops), NEW d \in Seq(Given), NEW j, Followed(w, d, j),
         j < Len(w), Ordered(w, d), ~Fails(d)
  PROVE  /\ j + 1 \in 1..Len(w) /\ w[j + 1] \in Ops
         /\ KindOf(w[j + 1]) = "other" => Followed(w, d, j + 1)
         /\ LET e == Append(d, Packet(Bytes(w[j + 1]))) IN
            Asked(KindOf(w[j + 1])) =>
              e \in Seq(Given) /\ ~Fails(e) /\ Ordered(w, e) /\ Followed(w, e, j + 1)
  <1> DEFINE o == w[j + 1]
             r == Packet(Bytes(o))
             e == Append(d, r)
  <1>1. j \in 0..Len(w) /\ (\A k \in 1..j : Goes(w[k])) /\ Len(d) = UpTo(w, j) /\ Len(w) \in Nat
    BY DEF Followed
  <1>2. j + 1 \in 1..Len(w) /\ o \in Ops /\ j + 1 \in 0..Len(w)
    <2>1. j + 1 \in 1..Len(w) /\ j + 1 \in 0..Len(w)
      BY <1>1
    <2> QED BY <2>1
  <1>3. Measured /\ Bytes(o) \in Seq(Nat)
    BY <1>2, BytesAre DEF ModesTyped
  <1>4. r \in Given /\ r.ec = "success"
    BY <1>3, GivenAre
  <1> HIDE DEF o, r
  <1>5. e \in Seq(Given) /\ Len(e) = Len(d) + 1 /\ e[Len(d) + 1] = r /\ ~Fails(e) /\ Len(d) \in Nat
    BY <1>4, Appended
  <1>6. UpTo(w, j + 1) = UpTo(w, j) + IF j + 1 \in AcceptedIn(w) THEN 1 ELSE 0
    BY <1>1, AcceptedAre
  <1>7. ASSUME Goes(o) PROVE \A k \in 1..(j + 1) : Goes(w[k])
    <2>1. \A k \in 1..(j + 1) : k \in 1..j \/ k = j + 1
      BY <1>1
    <2> QED BY <1>1, <1>7, <2>1 DEF o
  <1>8. ASSUME KindOf(o) = "other" PROVE Followed(w, d, j + 1)
    <2>1. Goes(o) /\ j + 1 \notin AcceptedIn(w)
      BY <1>8 DEF Goes, Asked, AcceptedIn, o
    <2> QED BY <1>1, <1>2, <1>5, <1>6, <1>7, <2>1 DEF Followed
  <1>9. ASSUME Asked(KindOf(o))
        PROVE  Ordered(w, e) /\ Followed(w, e, j + 1)
    <2>1. Goes(o)
      BY <1>9 DEF Goes
    <2>2. j + 1 \in AcceptedIn(w)
      BY <1>2, <1>7, <1>9, <2>1 DEF AcceptedIn, o
    <2>3. UpTo(w, j + 1) = Len(d) + 1
      BY <1>1, <1>6, <2>2
    <2> HIDE DEF e
    <2>4. IsNext(w, e, Len(d) + 1)
      BY <1>5, <2>2, <2>3 DEF IsNext, r, o
    <2>5. Ordered(w, e)
      BY <1>4, <2>4, OrderedOn DEF e
    <2>6. Followed(w, e, j + 1)
      BY <1>2, <1>5, <1>7, <2>1, <2>3 DEF Followed
    <2> QED BY <2>5, <2>6
  <1> QED BY <1>2, <1>5, <1>8, <1>9 DEF o, r, e

\* What recv_op makes of what a read completes with.
Outcome(d, g, r, s, h, e) ==
  \/ s = "idle" /\ \E ec \in Errors : e = Append(d, Failure(ec))
  \/ s \notin {"idle", "reading"} /\ e = d
  \/ r.ec = "success" /\ Asked(Kind(r)) /\ e = Append(d, r) /\ s = "idle" /\ h = g
  \/ /\ r.ec = "success" /\ Kind(r) = "other" /\ e = d /\ s = "reading"
     /\ h = IF bulkRead THEN g ELSE NoFrame

\* A packet is handed over with the parse g of what follows it.
Handing(w, d, g, r, x, l) ==
  \E q, M : \E j, m \in Nat :
    /\ Late(l, q, M) /\ Followed(w, d, j) /\ j < Len(w) /\ r = Packet(Bytes(w[j + 1]))
    /\ Parsed(g, Then(w, q), j + 1, m, Cat(x, M)) /\ Reads(g, "idle")

\* Whatever is made of a packet handed over, what is delivered stays in order.
LEMMA HandleKeeps ==
  ASSUME ModesTyped, NEW w, NEW d, NEW f, NEW x, NEW l, Correct(w, d, f, x, "reading", l),
         NEW y \in Seq(Nat), NEW g, NEW r, NEW s, NEW h, NEW e, Outcome(d, g, r, s, h, e),
         r.ec = "success" => Handing(w, d, g, r, y, l)
  PROVE  Correct(w, e, h, y, s, l)
  <1>1. w \in Seq(Ops) /\ d \in Seq(Given) /\ Ordered(w, d) /\ ~Fails(d)
    BY DEF Correct
  <1>2. CASE s = "idle" /\ \E ec \in Errors : e = Append(d, Failure(ec))
    BY <1>1, <1>2, FailsStep
  <1>3. CASE s \notin {"idle", "reading"} /\ e = d
    BY <1>1, <1>3, GivesUpStep
  <1>4. CASE /\ r.ec = "success"
             /\ \/ Asked(Kind(r)) /\ e = Append(d, r) /\ s = "idle" /\ h = g
                \/ /\ Kind(r) = "other" /\ e = d /\ s = "reading"
                   /\ h = IF bulkRead THEN g ELSE NoFrame
    <2>1. PICK q, M : \E j, m \in Nat :
            /\ Late(l, q, M) /\ Followed(w, d, j) /\ j < Len(w) /\ r = Packet(Bytes(w[j + 1]))
            /\ Parsed(g, Then(w, q), j + 1, m, Cat(y, M)) /\ Reads(g, "idle")
      BY <1>4 DEF Handing
    <2>2. PICK j, m \in Nat :
            /\ Late(l, q, M) /\ Followed(w, d, j) /\ j < Len(w) /\ r = Packet(Bytes(w[j + 1]))
            /\ Parsed(g, Then(w, q), j + 1, m, Cat(y, M)) /\ Reads(g, "idle")
      BY <2>1
    <2>3. /\ w[j + 1] \in Ops /\ j + 1 \in Nat
          /\ KindOf(w[j + 1]) = "other" => Followed(w, d, j + 1)
          /\ Asked(KindOf(w[j + 1])) =>
               /\ Append(d, r) \in Seq(Given) /\ ~Fails(Append(d, r))
               /\ Ordered(w, Append(d, r)) /\ Followed(w, Append(d, r), j + 1)
      BY <1>1, <2>2, NextStep
    <2>4. Kind(r) = KindOf(w[j + 1])
      BY <2>2, <2>3, KindIs
    <2>5. CASE Asked(Kind(r)) /\ e = Append(d, r) /\ s = "idle" /\ h = g
      <3>1. Framed(w, e, h, y, s, l)
        BY <2>2, <2>3, <2>4, <2>5 DEF Framed
      <3> QED BY <1>1, <2>3, <2>4, <2>5, <3>1 DEF Correct
    <2>6. CASE Kind(r) = "other" /\ e = d /\ s = "reading" /\ h = IF bulkRead THEN g ELSE NoFrame
      <3>1. h = g /\ Reads(h, s)
        BY <2>2, <2>6 DEF Reads
      <3>2. Framed(w, e, h, y, s, l)
        BY <2>2, <2>3, <2>4, <2>6, <3>1 DEF Framed
      <3> QED BY <1>1, <2>6, <3>2 DEF Correct
    <2> QED BY <1>4, <2>5, <2>6
  <1> QED BY <1>2, <1>3, <1>4 DEF Outcome

\* The first packet is handed over, and the others stay.
Popped(f) == [f EXCEPT !.packets = Tail(@)]

\* The packets that remain are those after it, and the parse goes on behind them.
LEMMA PoppedKeeps ==
  ASSUME NEW Q, NEW f, NEW j \in Nat, NEW m \in Nat, NEW S, Parsed(f, Q, j, m, S),
         f.packets # <<>>, Head(f.packets).ec = "success"
  PROVE  /\ j < m /\ m \in 0..Len(Q) /\ Head(f.packets) = Packet(Bytes(Q[j + 1]))
         /\ Parsed(Popped(f), Q, j + 1, m, S)
  <1> DEFINE g == Popped(f)
             n == m - j
  <1>1. /\ f \in Frames /\ m \in 0..Len(Q) /\ j \in 0..m
        /\ Results(f, Q, j, m) /\ Begun(f, Q, m, S)
        /\ IF f.stopped THEN f.at = "header" /\ m < Len(Q) ELSE f.rest = <<>> /\ At(f, Q, m, S)
    BY DEF Parsed
  <1>2. f.packets \in Seq(Given) /\ f.packets # <<>> /\ f.stopped \in BOOLEAN
    BY <1>1 DEF Frames
  <1>3. /\ Tail(f.packets) \in Seq(Given) /\ Len(Tail(f.packets)) = Len(f.packets) - 1
        /\ Head(f.packets) = f.packets[1] /\ Len(f.packets) \in Nat \ {0}
        /\ \A i \in 1..(Len(f.packets) - 1) : Tail(f.packets)[i] = f.packets[i + 1]
    BY <1>2
  <1>4. /\ g \in Frames /\ g.packets = Tail(f.packets) /\ g.at = f.at /\ g.bytes = f.bytes
        /\ g.left = f.left /\ g.mul = f.mul /\ g.rest = f.rest /\ g.stopped = f.stopped
    <2>1. g \in Frames
      BY <1>1, <1>3 DEF Frames, Popped
    <2> QED BY <1>1, <2>1 DEF Frames, Popped
  <1> HIDE DEF g
  <1>5. /\ n \in Nat /\ Len(f.packets) = n + (IF f.stopped THEN 1 ELSE 0)
        /\ \A i \in 1..n : f.packets[i] = Packet(Bytes(Q[j + i]))
        /\ f.stopped => f.packets[n + 1] = TooLong
    BY <1>1 DEF Results
  <1> HIDE DEF n
  <1>6. n # 0
    <2>1. ASSUME n = 0 PROVE FALSE
      <3>1. f.stopped
        BY <1>3, <1>5, <2>1
      <3>2. Head(f.packets) = TooLong
        BY <1>3, <1>5, <2>1, <3>1
      <3> QED BY <3>2, GivenAre
    <2> QED BY <2>1
  <1>7. /\ Len(g.packets) = (n - 1) + (IF f.stopped THEN 1 ELSE 0) /\ n - 1 \in Nat
        /\ Head(f.packets) = Packet(Bytes(Q[j + 1]))
    BY <1>3, <1>4, <1>5, <1>6
  <1>8. ASSUME NEW i \in 1..(n - 1) PROVE g.packets[i] = Packet(Bytes(Q[(j + 1) + i]))
    <2>1. i \in 1..(Len(f.packets) - 1) /\ i + 1 \in 1..n /\ j + (i + 1) = (j + 1) + i
      BY <1>3, <1>5, <1>6
    <2> QED BY <1>3, <1>4, <1>5, <2>1
  <1>9. ASSUME f.stopped PROVE g.packets[(n - 1) + 1] = TooLong
    <2>1. n \in 1..(Len(f.packets) - 1) /\ (n - 1) + 1 = n
      BY <1>3, <1>5, <1>6, <1>9
    <2> QED BY <1>3, <1>4, <1>5, <1>9, <2>1
  <1>10. n - 1 = m - (j + 1) /\ j < m /\ j + 1 \in 0..m
    BY <1>1, <1>5, <1>6 DEF n
  <1>11. Results(g, Q, j + 1, m)
    BY <1>4, <1>7, <1>8, <1>9, <1>10 DEF Results
  <1>12. Begun(g, Q, m, S)
    BY <1>1, <1>4 DEF Begun
  <1>13. At(f, Q, m, S) => At(g, Q, m, S)
    BY <1>4 DEF At, AtHeader, AtLength, AtPayload
  <1>14. Parsed(g, Q, j + 1, m, S)
    BY <1>1, <1>4, <1>10, <1>11, <1>12, <1>13 DEF Parsed
  <1> QED BY <1>1, <1>7, <1>10, <1>14 DEF g

--------------------------------------------------------------------------------
\* The reads: of a chunk, and of exactly the bytes that are wanted.

\* What the reader of an open connection knows of its parse.
LEMMA FramedIs ==
  ASSUME NEW w, NEW d, NEW f, NEW x, NEW r, NEW l, Correct(w, d, f, x, r, l),
         r = "reading" \/ (r = "idle" /\ ~Fails(d))
  PROVE  /\ w \in Seq(Ops) /\ d \in Seq(Given) /\ x \in Seq(Nat) /\ ~Fails(d) /\ Ordered(w, d)
         /\ \E q, M : \E j, m \in Nat :
              /\ Late(l, q, M) /\ Parsed(f, Then(w, q), j, m, Cat(x, M)) /\ Followed(w, d, j)
              /\ Reads(f, r)
  BY DEF Correct, Framed

\* read_some_op, with a packet that is there already.
LEMMA ReadParsedStep ==
  ASSUME ModesTyped, NEW w, NEW d, NEW f, NEW x, NEW l, Correct(w, d, f, x, "reading", l),
         f.packets # <<>>, bulkRead, Head(f.packets).ec = "success"
  PROVE  Handing(w, d, Popped(f), Head(f.packets), x, l)
  <1>1. PICK q, M : \E j, m \in Nat :
          /\ Late(l, q, M) /\ Parsed(f, Then(w, q), j, m, Cat(x, M)) /\ Followed(w, d, j)
          /\ Reads(f, "reading")
    BY FramedIs
  <1>2. PICK j, m \in Nat :
          /\ Late(l, q, M) /\ Parsed(f, Then(w, q), j, m, Cat(x, M)) /\ Followed(w, d, j)
          /\ Reads(f, "reading")
    BY <1>1
  <1>3. w \in Seq(Ops) /\ x \in Seq(Nat) /\ Measured
    BY FramedIs DEF ModesTyped
  <1>4. m <= Len(w) /\ \A i \in 1..m : Then(w, q)[i] = w[i]
    <2>1. SameTo(Then(w, q), w, m)
      BY <1>2, <1>3, ParsedSame
    <2> QED BY <2>1 DEF SameTo
  <1> DEFINE Q == Then(w, q)
  <1>5. Q[j + 1] = Then(w, q)[j + 1] /\ Parsed(f, Q, j, m, Cat(x, M))
    BY <1>2
  <1> HIDE DEF Q
  <1>6. /\ j < m /\ Head(f.packets) = Packet(Bytes(Q[j + 1]))
        /\ Parsed(Popped(f), Q, j + 1, m, Cat(x, M))
    BY <1>5, PoppedKeeps
  <1>7. j + 1 \in 1..m /\ j < Len(w)
    <2>1. Len(w) \in Nat
      BY <1>3
    <2> QED BY <1>4, <1>6, <2>1
  <1>8. Q[j + 1] = w[j + 1]
    BY <1>4, <1>5, <1>7
  <1>9. Reads(Popped(f), "idle")
    BY DEF Reads
  <1> QED BY <1>2, <1>6, <1>7, <1>8, <1>9 DEF Handing, Q

\* What is read is a first part of the bytes under way.
LEMMA Parts ==
  ASSUME NEW x \in Seq(Nat), NEW n \in Nat, n <= Len(x)
  PROVE  /\ SubSeq(x, 1, n) \in Seq(Nat) /\ SubSeq(x, n + 1, Len(x)) \in Seq(Nat)
         /\ x = Cat(SubSeq(x, 1, n), SubSeq(x, n + 1, Len(x)))
         /\ Len(SubSeq(x, 1, n)) = n /\ Len(SubSeq(x, n + 1, Len(x))) = Len(x) - n
  <1> DEFINE a == SubSeq(x, 1, n)
             z == SubSeq(x, n + 1, Len(x))
             k == Len(x)
  <1>1. /\ a \in Seq(Nat) /\ z \in Seq(Nat) /\ Len(a) = n /\ Len(z) = k - n
        /\ k \in Nat /\ n <= k /\ k - n \in Nat
    OBVIOUS
  <1>2. /\ \A i \in 1..n : a[i] = x[i]
        /\ \A i \in 1..(k - n) : z[i] = x[n + i]
    OBVIOUS
  <1> HIDE DEF a, z
  <1>3. /\ a \o z \in Seq(Nat) /\ Len(a \o z) = Len(a) + Len(z)
        /\ \A i \in 1..(Len(a) + Len(z)) :
             (a \o z)[i] = IF i <= Len(a) THEN a[i] ELSE z[i - Len(a)]
    BY <1>1, ConcatProperties
  <1>4. Len(a \o z) = k
    BY <1>1, <1>3
  <1>5. ASSUME NEW i \in 1..k PROVE (a \o z)[i] = x[i]
    <2>1. i \in 1..k /\ k \in Nat /\ n \in Nat
      BY <1>1
    <2> HIDE DEF k
    <2>2. i <= n => i \in 1..n
      BY <2>1
    <2>3. ~(i <= n) => i - n \in 1..(k - n) /\ n + (i - n) = i
      BY <2>1
    <2>4. i \in 1..(Len(a) + Len(z))
      BY <1>1, <2>1
    <2>5. (a \o z)[i] = IF i <= n THEN a[i] ELSE z[i - n]
      BY <1>1, <1>3, <2>4
    <2> QED BY <1>2, <2>2, <2>3, <2>5
  <1>6. a \o z = x
    BY <1>3, <1>4, <1>5, SeqEqual
  <1> QED BY <1>1, <1>6 DEF a, z, Cat

\* read_some_op reads a chunk: its bytes are parsed, the others stay under way.
LEMMA ReadSomeStep ==
  ASSUME ModesTyped, NEW w, NEW d, NEW f, NEW x, NEW l, Correct(w, d, f, x, "reading", l),
         f.packets = <<>>, bulkRead, NEW n \in Nat, n <= Len(x)
  PROVE  Correct(w, d, Parse(f, SubSeq(x, 1, n)), SubSeq(x, n + 1, Len(x)), "reading", l)
  <1> DEFINE a == SubSeq(x, 1, n)
             z == SubSeq(x, n + 1, Len(x))
             h == Parse(f, a)
  <1>1. PICK q, M : \E j, m \in Nat :
          /\ Late(l, q, M) /\ Parsed(f, Then(w, q), j, m, Cat(x, M)) /\ Followed(w, d, j)
          /\ Reads(f, "reading")
    BY FramedIs
  <1>2. PICK j, m \in Nat :
          /\ Late(l, q, M) /\ Parsed(f, Then(w, q), j, m, Cat(x, M)) /\ Followed(w, d, j)
          /\ Reads(f, "reading")
    BY <1>1
  <1>3. w \in Seq(Ops) /\ d \in Seq(Given) /\ x \in Seq(Nat) /\ Ordered(w, d) /\ ~Fails(d)
    BY FramedIs
  <1>4. Measured /\ Then(w, q) \in Seq(Ops) /\ M \in Seq(Nat)
    <2>1. Measured
      BY DEF ModesTyped
    <2> QED BY <1>2, <1>3, <2>1, ParsedWritten
  <1>5. a \in Seq(Nat) /\ z \in Seq(Nat) /\ x = Cat(a, z)
    BY <1>3, Parts
  <1>6. f.rest = <<>> /\ ~f.stopped /\ f \in Frames
    <2>1. /\ f \in Frames /\ m - j >= 0 /\ Len(f.packets) = (m - j) + (IF f.stopped THEN 1 ELSE 0)
          /\ f.stopped \/ f.rest = <<>>
      <3>1. f \in Frames /\ m \in 0..Len(Then(w, q)) /\ j \in 0..m
        BY <1>2 DEF Parsed
      <3>2. m - j >= 0
        BY <3>1
      <3>3. Len(f.packets) = (m - j) + (IF f.stopped THEN 1 ELSE 0)
        BY <1>2 DEF Parsed, Results
      <3>4. f.stopped \/ f.rest = <<>>
        BY <1>2 DEF Parsed
      <3> QED BY <3>1, <3>2, <3>3, <3>4
    <2>2. Len(f.packets) = 0
      OBVIOUS
    <2>3. ~f.stopped
      BY <2>1, <2>2
    <2> QED BY <2>1, <2>3
  <1> HIDE DEF a, z
  <1>7. h = Feed(f, a)
    <2>1. f.rest \o a = a
      BY <1>5, <1>6
    <2>2. [f EXCEPT !.rest = <<>>, !.stopped = FALSE] = f
      BY <1>6 DEF Frames
    <2> QED BY <2>1, <2>2 DEF Parse
  <1>8. Cat(x, M) = Cat(a, Cat(z, M)) /\ Cat(z, M) \in Seq(Nat)
    <2>1. a \in Seq(Nat) /\ z \in Seq(Nat) /\ M \in Seq(Nat)
      BY <1>4, <1>5
    <2>2. Cat(Cat(a, z), M) = Cat(a, Cat(z, M))
      BY <2>1, Cats
    <2>3. Cat(z, M) \in Seq(Nat)
      BY <2>1, Cats
    <2> QED BY <1>5, <2>2, <2>3
  <1>9. PICK k \in Nat : Parsed(h, Then(w, q), j, k, Cat(z, M))
    <2>1. Parsed(f, Then(w, q), j, m, Cat(a, Cat(z, M)))
      BY <1>2, <1>8
    <2> DEFINE Q == Then(w, q)
               S == Cat(z, M)
    <2>2. Q \in Seq(Ops) /\ S \in Seq(Nat) /\ Parsed(f, Q, j, m, Cat(a, S))
      BY <1>4, <1>8, <2>1
    <2> HIDE DEF Q, S
    <2>3. \E k \in Nat : Parsed(Feed(f, a), Q, j, k, S)
      BY <1>4, <1>5, <2>2, FeedKeeps
    <2> QED BY <1>7, <2>3 DEF Q, S
  <1> HIDE DEF h
  <1>10. Reads(h, "reading")
    BY DEF Reads
  <1>11. Framed(w, d, h, z, "reading", l)
    BY <1>2, <1>9, <1>10 DEF Framed
  <1>12. Correct(w, d, h, z, "reading", l)
    BY <1>3, <1>5, <1>11 DEF Correct
  <1> QED BY <1>12 DEF h, a, z

\* A length has a byte at least.
LEMMA FieldNotEmpty == ASSUME NEW n \in Nat PROVE Len(Field[n]) >= 1 /\ Field[n] \in Seq(Nat)
  <1>1. Field[n] = FieldOf(Field, n) /\ Field[n] \in Seq(Nat)
    BY FieldIs
  <1>2. CASE n < Base
    BY <1>1, <1>2 DEF FieldOf
  <1>3. CASE ~(n < Base)
    <2> DEFINE d == (n % Base) + Base
               r == Field[n \div Base]
               f == Field[n]
    <2>1. d \in Nat /\ r \in Seq(Nat)
      <3>1. (n % Base) + Base \in Nat /\ n \div Base \in Nat
        BY BaseIs, Divided
      <3> QED BY <3>1, FieldIs
    <2>2. f = <<d>> \o r
      BY <1>1, <1>3 DEF FieldOf
    <2> HIDE DEF d, r, f
    <2>3. Len(f) >= 1
      BY <2>1, <2>2
    <2> QED BY <1>1, <2>3 DEF f
  <1> QED BY <1>2, <1>3

\* An exact read takes no byte of the packet after the one it reads.
WantedOf(f) == CASE f.at = "header" -> 2 [] f.at = "length" -> 1 [] f.at = "payload" -> f.left

\* The bytes of the next packet are left, all of them.
LEMMA WantedWithin ==
  ASSUME Measured, NEW Q \in Seq(Ops), NEW f \in Frames, NEW m \in 0..Len(Q), NEW S \in Seq(Nat),
         At(f, Q, m, S), WantedOf(f) <= Len(S)
  PROVE  /\ WantedOf(f) \in Nat /\ m < Len(Q) /\ m + 2 \in 1..(Len(Q) + 1)
         /\ Len(S) - WantedOf(f) >= Len(Rest(Q, m + 2))
  <1>1. Len(Q) \in Nat /\ Len(S) \in Nat
    OBVIOUS
  <1>2. CASE AtHeader(f, Q, m, S)
    <2>1. f.at = "header" /\ S = Rest(Q, m + 1)
      BY <1>2 DEF AtHeader
    <2>2. WantedOf(f) = 2
      BY <2>1 DEF WantedOf
    <2>3. m # Len(Q)
      <3>1. ASSUME m = Len(Q) PROVE FALSE
        <4>1. S = <<>>
          BY <2>1, <3>1, RestIs
        <4>2. Len(S) = 0
          BY <4>1
        <4> QED BY <2>2, <4>2
      <3> QED BY <3>1
    <2>4. /\ m \in Nat /\ m < Len(Q) /\ m + 1 \in 1..Len(Q) /\ m + 2 \in 1..(Len(Q) + 1)
          /\ (m + 1) + 1 = m + 2
      BY <1>1, <2>3
    <2>5. Len(S) >= Len(Rest(Q, (m + 1) + 1)) + 2
      BY <2>1, <2>4, RestIs
    <2>6. Rest(Q, m + 2) \in Seq(Nat)
      BY <2>4, RestIs
    <2>7. Len(Rest(Q, m + 2)) \in Nat
      BY <2>6
    <2>8. Len(S) - 2 >= Len(Rest(Q, m + 2))
      BY <1>1, <2>4, <2>5, <2>7
    <2> QED BY <2>2, <2>4, <2>8
  <1>3. ASSUME NEW o \in Ops, AtLength(f, Q, m, S, o) \/ AtPayload(f, Q, m, S, o)
        PROVE  /\ WantedOf(f) \in Nat /\ m < Len(Q) /\ m + 2 \in 1..(Len(Q) + 1)
               /\ Len(S) - WantedOf(f) >= Len(Rest(Q, m + 2))
    <2>1. m < Len(Q)
      BY <1>3 DEF AtLength, AtPayload
    <2>2. m + 2 \in 1..(Len(Q) + 1)
      BY <1>1, <2>1
    <2> DEFINE R == Rest(Q, m + 2)
    <2>3. R \in Seq(Nat)
      BY <2>2, RestIs
    <2>4. CASE AtLength(f, Q, m, S, o)
      <3>1. PICK d \in Nat : S = Cat(Field[d], Cat(Copies(lengths[o], o), R))
        BY <2>4 DEF AtLength
      <3> DEFINE F == Field[d]
                 C == Copies(lengths[o], o)
      <3>2. lengths[o] \in Nat
        BY BytesAre
      <3>3. F \in Seq(Nat) /\ Len(F) >= 1 /\ C \in Seq(Nat)
        BY <3>2, FieldNotEmpty, CopiesAre
      <3>4. WantedOf(f) = 1
        BY <2>4 DEF WantedOf, AtLength
      <3>5. S = Cat(F, Cat(C, R))
        BY <3>1
      <3> HIDE DEF F, C, R
      <3>6. Cat(C, R) \in Seq(Nat) /\ Len(C) \in Nat /\ Len(R) \in Nat
        BY <2>3, <3>3, Cats, CatLengths
      <3>7. Len(S) = Len(F) + Len(Cat(C, R)) /\ Len(F) \in Nat
        BY <3>3, <3>5, <3>6, CatLengths
      <3>8. Len(Cat(C, R)) = Len(C) + Len(R)
        BY <2>3, <3>3, CatLengths
      <3>9. Len(S) - 1 >= Len(R)
        BY <3>3, <3>6, <3>7, <3>8
      <3> QED BY <2>1, <2>2, <3>4, <3>9 DEF R
    <2>5. CASE AtPayload(f, Q, m, S, o)
      <3> DEFINE n == f.left
                 C == Copies(n, o)
      <3>1. n \in Nat
        BY DEF Frames
      <3>2. C \in Seq(Nat) /\ Len(C) = n
        BY <3>1, CopiesAre
      <3>3. WantedOf(f) = n
        BY <2>5 DEF WantedOf, AtPayload
      <3>4. S = Cat(C, R)
        BY <2>5 DEF AtPayload
      <3> HIDE DEF n, C, R
      <3>5. Len(S) = Len(C) + Len(R) /\ Len(R) \in Nat
        BY <2>3, <3>2, <3>4, CatLengths
      <3>6. Len(S) - n >= Len(R)
        BY <3>1, <3>2, <3>5
      <3> QED BY <2>1, <2>2, <3>1, <3>3, <3>6 DEF R
    <2> QED BY <1>3, <2>4, <2>5
  <1> QED BY <1>2, <1>3 DEF At

\* So the packet that an exact read completes is the only one, and nothing is known of
\* the next.
LEMMA CompleteAlone ==
  ASSUME Measured, NEW Q \in Seq(Ops), NEW h, NEW j \in Nat, NEW k \in Nat, NEW S \in Seq(Nat),
         Parsed(h, Q, j, k, S), j < k, j + 2 \in 1..(Len(Q) + 1), Len(S) >= Len(Rest(Q, j + 2))
  PROVE  k = j + 1 /\ S = Rest(Q, k + 1)
  <1>1. /\ k \in 0..Len(Q) /\ Begun(h, Q, k, S)
        /\ ~h.stopped => At(h, Q, k, S)
    BY DEF Parsed
  <1>2. k + 1 \in 1..(Len(Q) + 1) /\ Len(Q) \in Nat
    BY <1>1
  <1>3. j + 2 < k + 1 => Len(Rest(Q, j + 2)) > Len(Rest(Q, k + 1))
    BY <1>2, RestShrinks
  <1>4. Rest(Q, j + 2) \in Seq(Nat) /\ Rest(Q, k + 1) \in Seq(Nat)
    BY <1>2, RestIs
  <1> DEFINE a == Len(Rest(Q, j + 2))
             b == Len(Rest(Q, k + 1))
  <1>5. a \in Nat /\ b \in Nat /\ Len(S) \in Nat /\ Len(S) >= a
    BY <1>4
  <1>6. k + 1 = j + 2 \/ j + 2 < k + 1
    OBVIOUS
  <1>7. k + 1 = j + 2 => a = b
    OBVIOUS
  <1>8. j + 2 < k + 1 => a > b
    BY <1>3
  <1>9. h.stopped \/ h.at # "header" => Len(S) < b
    BY <1>1 DEF Begun
  <1> HIDE DEF a, b
  <1>10. Len(S) >= b
    BY <1>5, <1>6, <1>7, <1>8
  <1>11. ~h.stopped /\ h.at = "header"
    BY <1>5, <1>9, <1>10
  <1>12. AtHeader(h, Q, k, S)
    BY <1>1, <1>11 DEF At, AtLength, AtPayload
  <1>13. S = Rest(Q, k + 1) /\ Len(S) = b
    BY <1>12 DEF AtHeader, b
  <1>14. ~(j + 2 < k + 1)
    BY <1>5, <1>8, <1>13
  <1> QED BY <1>6, <1>13, <1>14

\* At the start of a packet, a new parse knows nothing of it, as it should.
LEMMA NothingParsed ==
  ASSUME NEW Q, NEW k \in 0..Len(Q), NEW S, S = Rest(Q, k + 1)
  PROVE  Parsed(NoFrame, Q, k, k, S)
  <1>1. <<>> \in Seq(Nat) /\ <<>> \in Seq(Given)
    OBVIOUS
  <1>2. NoFrame \in Frames
    BY <1>1 DEF NoFrame, Frames
  <1>3. /\ NoFrame.at = "header" /\ NoFrame.left = 0 /\ NoFrame.mul = 1 /\ NoFrame.packets = <<>>
        /\ NoFrame.rest = <<>> /\ NoFrame.stopped = FALSE
    BY DEF NoFrame
  <1>4. Results(NoFrame, Q, k, k)
    BY <1>3 DEF Results
  <1>5. At(NoFrame, Q, k, S)
    BY <1>3 DEF At, AtHeader
  <1>6. Begun(NoFrame, Q, k, S)
    BY <1>3 DEF Begun
  <1> QED BY <1>2, <1>3, <1>4, <1>5, <1>6 DEF Parsed

\* Without bulk read, a parse has nothing to hand over.
LEMMA NothingKept ==
  ASSUME NEW Q, NEW f, NEW j \in Nat, NEW m \in Nat, NEW S, Parsed(f, Q, j, m, S),
         f.packets = <<>>
  PROVE  /\ j = m /\ ~f.stopped /\ f \in Frames /\ m \in 0..Len(Q) /\ At(f, Q, m, S)
         /\ f.rest = <<>>
  <1>1. f \in Frames /\ m \in 0..Len(Q) /\ j \in 0..m
    BY DEF Parsed
  <1>2. m - j \in Nat
    BY <1>1
  <1>3. 0 = (m - j) + (IF f.stopped THEN 1 ELSE 0)
    <2>1. Len(f.packets) = 0
      OBVIOUS
    <2>2. Len(f.packets) = (m - j) + (IF f.stopped THEN 1 ELSE 0)
      BY DEF Parsed, Results
    <2> QED BY <2>1, <2>2
  <1>4. ~f.stopped /\ j = m
    BY <1>2, <1>3
  <1>5. f.rest = <<>> /\ At(f, Q, m, S)
    BY <1>4 DEF Parsed
  <1> QED BY <1>1, <1>4, <1>5

\* The bytes that a read of n takes, and those it leaves.
Took(x, n) == SubSeq(x, 1, n)
Spared(x, n) == SubSeq(x, n + 1, Len(x))

\* The reads of header, length and payload.
LEMMA ReadExactlyStep ==
  ASSUME ModesTyped, NEW w, NEW d, NEW f, NEW x, NEW l, Correct(w, d, f, x, "reading", l),
         ~bulkRead, WantedOf(f) <= Len(x),
         NEW z, z = Spared(x, WantedOf(f)),
         NEW h, h = Ready(Feed(f, Took(x, WantedOf(f))))
  PROVE  /\ z \in Seq(Nat)
         /\ h.packets = <<>> => Correct(w, d, h, z, "reading", l)
         /\ h.packets # <<>> /\ Head(h.packets).ec = "success" =>
              Handing(w, d, NoFrame, Head(h.packets), z, l)
  <1> DEFINE n == WantedOf(f)
             a == Took(x, n)
  <1>1. PICK q, M : \E j, m \in Nat :
          /\ Late(l, q, M) /\ Parsed(f, Then(w, q), j, m, Cat(x, M)) /\ Followed(w, d, j)
          /\ Reads(f, "reading")
    BY FramedIs
  <1>2. PICK j, m \in Nat :
          /\ Late(l, q, M) /\ Parsed(f, Then(w, q), j, m, Cat(x, M)) /\ Followed(w, d, j)
          /\ Reads(f, "reading")
    BY <1>1
  <1>3. w \in Seq(Ops) /\ d \in Seq(Given) /\ x \in Seq(Nat) /\ Ordered(w, d) /\ ~Fails(d)
    BY FramedIs
  <1> DEFINE Q == Then(w, q)
             S == Cat(x, M)
             T == Cat(z, M)
  <1>4. Measured /\ Q \in Seq(Ops) /\ M \in Seq(Nat) /\ S \in Seq(Nat)
    <2>1. Measured
      BY DEF ModesTyped
    <2> QED BY <1>2, <1>3, <2>1, ParsedWritten
  <1>5. Parsed(f, Q, j, m, S)
    BY <1>2
  <1>6. f.packets = <<>>
    BY <1>2 DEF Reads
  <1> HIDE DEF Q, S
  <1>7. j = m /\ ~f.stopped /\ f \in Frames /\ m \in 0..Len(Q) /\ At(f, Q, m, S)
    BY <1>5, <1>6, NothingKept
  <1>8. Len(S) = Len(x) + Len(M) /\ Len(x) \in Nat /\ Len(M) \in Nat /\ Len(S) \in Nat
    BY <1>3, <1>4, CatLengths DEF S
  <1>9. /\ n \in Nat /\ m < Len(Q) /\ m + 2 \in 1..(Len(Q) + 1)
        /\ Len(S) - n >= Len(Rest(Q, m + 2))
    <2>1. n \in {2, 1, f.left} /\ f.left \in Nat
      BY <1>7 DEF Frames, WantedOf
    <2>2. n \in Nat /\ n <= Len(S)
      BY <1>8, <2>1
    <2> QED BY <1>4, <1>7, <2>2, WantedWithin
  <1>10. /\ a \in Seq(Nat) /\ z \in Seq(Nat) /\ x = Cat(a, z) /\ Len(z) = Len(x) - n
    BY <1>3, <1>9, Parts DEF Took, Spared
  <1>11. a \in Seq(Nat) /\ z \in Seq(Nat)
    BY <1>10
  <1>12. Len(z) = Len(x) - n
    BY <1>10
  <1> HIDE DEF a, n
  <1>13. S = Cat(a, T) /\ T \in Seq(Nat)
    <2>1. M \in Seq(Nat)
      BY <1>4
    <2>2. Cat(Cat(a, z), M) = Cat(a, Cat(z, M))
      BY <1>11, <2>1, Cats
    <2>3. Cat(z, M) \in Seq(Nat)
      BY <1>11, <2>1, Cats
    <2> QED BY <1>10, <2>2, <2>3 DEF S
  <1>14. Len(T) >= Len(Rest(Q, m + 2))
    <2>1. Len(T) = Len(z) + Len(M)
      BY <1>4, <1>10, CatLengths
    <2>2. Len(Rest(Q, m + 2)) \in Nat
      <3>1. Rest(Q, m + 2) \in Seq(Nat)
        BY <1>4, <1>9, RestIs
      <3> QED BY <3>1
    <2>3. Len(T) = Len(S) - n
      BY <1>8, <1>9, <1>12, <2>1
    <2> QED BY <1>9, <2>2, <2>3
  <1> HIDE DEF T
  <1>15. PICK i \in Nat : Parsed(Feed(f, a), Q, j, i, T)
    BY <1>4, <1>5, <1>10, <1>13, FeedKeeps
  <1>16. PICK k \in Nat : Parsed(h, Q, j, k, T) /\ (h.at = "payload" => h.left # 0)
    <2> DEFINE g == Feed(f, a)
    <2>1. h = Ready(g)
      BY DEF a, n
    <2>2. Parsed(g, Q, j, i, T)
      BY <1>15
    <2> HIDE DEF g
    <2>3. \E k \in Nat : /\ Parsed(Ready(g), Q, j, k, T)
                         /\ Ready(g).at = "payload" => Ready(g).left # 0
      BY <1>4, <2>2, ReadyKeeps
    <2> QED BY <2>1, <2>3
  <1>17. ASSUME h.packets = <<>> PROVE Correct(w, d, h, z, "reading", l)
    <2>1. Reads(h, "reading")
      BY <1>16, <1>17 DEF Reads
    <2>2. Framed(w, d, h, z, "reading", l)
      BY <1>2, <1>16, <2>1 DEF Framed, Q, T
    <2> QED BY <1>3, <1>10, <2>2 DEF Correct
  <1>18. ASSUME h.packets # <<>>, Head(h.packets).ec = "success"
         PROVE  Handing(w, d, NoFrame, Head(h.packets), z, l)
    <2>1. /\ j < k /\ k \in 0..Len(Q) /\ Head(h.packets) = Packet(Bytes(Q[j + 1]))
      BY <1>16, <1>18, PoppedKeeps
    <2>2. j + 2 \in 1..(Len(Q) + 1) /\ Len(T) >= Len(Rest(Q, j + 2))
      BY <1>7, <1>9, <1>14
    <2>3. k = j + 1 /\ T = Rest(Q, k + 1)
      BY <1>4, <1>13, <1>16, <2>1, <2>2, CompleteAlone
    <2>4. Parsed(NoFrame, Q, j + 1, k, T)
      BY <2>1, <2>3, NothingParsed
    <2>5. k <= Len(w) /\ \A p \in 1..k : Q[p] = w[p]
      <3>1. Parsed(h, Then(w, q), j, k, Cat(z, M)) /\ Measured
        BY <1>4, <1>16 DEF Q, T
      <3>2. SameTo(Then(w, q), w, k)
        BY <1>2, <1>3, <1>11, <3>1, ParsedSame
      <3> QED BY <3>2 DEF Q, SameTo
    <2>6. j < Len(w) /\ Q[j + 1] = w[j + 1]
      <3>1. Len(w) \in Nat
        BY <1>3
      <3>2. j + 1 \in 1..k
        BY <2>3
      <3> QED BY <2>3, <2>5, <3>1, <3>2
    <2>7. Reads(NoFrame, "idle")
      BY DEF Reads, NoFrame
    <2> QED BY <1>2, <2>1, <2>4, <2>6, <2>7 DEF Handing, Q, T
  <1> QED BY <1>10, <1>17, <1>18

--------------------------------------------------------------------------------
\* The inductive invariant of the reader, step by step.

\* What the endpoint is stays the same, and so does all that depends on it alone.
LEMMA BytesStay ==
  ASSUME UNCHANGED modes
  PROVE  /\ \A o : Bytes(o)' = Bytes(o) /\ Goes(o)' = Goes(o) /\ KindOf(o)' = KindOf(o)
         /\ \A q, i : Rest(q, i)' = Rest(q, i)
  <1>1. lengths' = lengths /\ kinds' = kinds /\ endpoint' = endpoint /\ bulkRead' = bulkRead
    BY DEF modes
  <1>2. \A o : Bytes(o)' = Bytes(o)
    BY <1>1 DEF Bytes
  <1>3. \A q : BytesOf(q)' = BytesOf(q)
    BY <1>2 DEF BytesOf
  <1>4. \A q, i : Rest(q, i)' = Rest(q, i)
    BY <1>3 DEF Rest
  <1>5. \A o : KindOf(o)' = KindOf(o)
    BY <1>1 DEF KindOf
  <1>6. \A o : Goes(o)' = Goes(o)
    BY <1>5 DEF Goes
  <1> QED BY <1>2, <1>4, <1>5, <1>6

\* What has been parsed of given packets does not depend on the state.
LEMMA ParsedStays ==
  ASSUME UNCHANGED modes
  PROVE  \A f, Q, j, m, S : Parsed(f, Q, j, m, S)' <=> Parsed(f, Q, j, m, S)
  <1>1. lengths' = lengths
    BY DEF modes
  <1>2. /\ \A o : Bytes(o)' = Bytes(o)
        /\ \A q, i : Rest(q, i)' = Rest(q, i)
    BY BytesStay
  <1>3. \A f, Q, m, S : AtHeader(f, Q, m, S)' <=> AtHeader(f, Q, m, S)
    BY <1>2 DEF AtHeader
  <1>4. \A f, Q, m, S, o : AtLength(f, Q, m, S, o)' <=> AtLength(f, Q, m, S, o)
    BY <1>1, <1>2 DEF AtLength
  <1>5. \A f, Q, m, S, o : AtPayload(f, Q, m, S, o)' <=> AtPayload(f, Q, m, S, o)
    BY <1>2 DEF AtPayload
  <1>6. \A f, Q, m, S : At(f, Q, m, S)' <=> At(f, Q, m, S)
    BY <1>3, <1>4, <1>5 DEF At
  <1>7. \A f, Q, m, S : Begun(f, Q, m, S)' <=> Begun(f, Q, m, S)
    BY <1>2 DEF Begun
  <1>8. \A f, Q, j, m : Results(f, Q, j, m)' <=> Results(f, Q, j, m)
    BY <1>2 DEF Results
  <1> QED BY <1>6, <1>7, <1>8 DEF Parsed

\* What is correct of given values does not depend on the state.
LEMMA CorrectStays ==
  ASSUME UNCHANGED modes
  PROVE  \A w, d, f, x, r, l : Correct(w, d, f, x, r, l)' <=> Correct(w, d, f, x, r, l)
  <1>1. bulkRead' = bulkRead
    BY DEF modes
  <1>2. \A o : Bytes(o)' = Bytes(o) /\ Goes(o)' = Goes(o) /\ KindOf(o)' = KindOf(o)
    BY BytesStay
  <1>3. \A w : AcceptedIn(w)' = AcceptedIn(w)
    BY <1>2 DEF AcceptedIn
  <1>4. \A w, i : AcceptedTo(w, i)' = AcceptedTo(w, i)
    BY <1>3 DEF AcceptedTo
  <1>5. \A w, i : UpTo(w, i)' = UpTo(w, i)
    BY <1>4 DEF UpTo
  <1>6. \A w, d, i : IsNext(w, d, i)' <=> IsNext(w, d, i)
    BY <1>2, <1>3, <1>5 DEF IsNext
  <1>7. \A w, d : Ordered(w, d)' <=> Ordered(w, d)
    BY <1>6 DEF Ordered
  <1>8. \A w, d, j : Followed(w, d, j)' <=> Followed(w, d, j)
    BY <1>2, <1>5 DEF Followed
  <1>9. \A f, r : Reads(f, r)' <=> Reads(f, r)
    BY <1>1 DEF Reads
  <1>10. \A f, Q, j, m, S : Parsed(f, Q, j, m, S)' <=> Parsed(f, Q, j, m, S)
    BY ParsedStays
  <1>11. \A w, d, f, x, r, l : Framed(w, d, f, x, r, l)' <=> Framed(w, d, f, x, r, l)
    BY <1>8, <1>9, <1>10 DEF Framed
  <1> QED BY <1>7, <1>11 DEF Correct

\* The reader's part of the inductive invariant.  With bulk read it is about the first
\* connection; without, a new read starts anew.
Followable == opens = 1 \/ ~bulkRead
Restarts == ~bulkRead /\ reader # "reading" => frame = NoFrame
Reading ==
  /\ opens \in Nat \ {0} /\ ModesTyped /\ Restarts
  /\ Followable => \E w, d, f, x, r, l :
       /\ w = written /\ d = delivered /\ f = frame /\ x = wire /\ r = reader /\ l = link
       /\ Correct(w, d, f, x, r, l)

\* What it says of the state as it is.
LEMMA ReadingIs ==
  ASSUME Reading, Followable
  PROVE  Correct(written, delivered, frame, wire, reader, link)
  BY DEF Reading

\* What a step has to keep of it.
LEMMA ReadingOn ==
  ASSUME ModesTyped, UNCHANGED modes, opens' \in Nat \ {0},
         ~bulkRead /\ reader' # "reading" => frame' = NoFrame,
         opens' = 1 \/ ~bulkRead => Correct(written', delivered', frame', wire', reader', link')
  PROVE  Reading'
  <1>1. ModesTyped'
    BY DEF ModesTyped, Measured, modes
  <1>2. bulkRead' = bulkRead
    BY DEF modes
  <1>3. ASSUME Followable'
        PROVE  \E w, d, f, x, r, l :
                 /\ w = written' /\ d = delivered' /\ f = frame' /\ x = wire' /\ r = reader'
                 /\ l = link' /\ Correct(w, d, f, x, r, l)'
    <2>1. opens' = 1 \/ ~bulkRead
      BY <1>2, <1>3 DEF Followable
    <2>2. PICK w, d, f, x, r, l :
            /\ w = written' /\ d = delivered' /\ f = frame' /\ x = wire' /\ r = reader'
            /\ l = link' /\ Correct(w, d, f, x, r, l)
      BY <2>1
    <2>3. Correct(w, d, f, x, r, l)'
      BY <2>2, CorrectStays
    <2> QED BY <2>2, <2>3
  <1>4. Restarts'
    BY <1>2 DEF Restarts, NoFrame
  <1> QED BY <1>1, <1>3, <1>4 DEF Reading

\* A connection on which nothing has been written or read.
LEMMA FreshCorrect ==
  ASSUME ModesTyped, NEW r \in {"idle", "lost"}
  PROVE  Correct(<<>>, <<>>, NoFrame, <<>>, r, "up")
  <1>1. PICK e : e = <<>>
    OBVIOUS
  <1>2. e \in Seq(Ops) /\ e \in Seq(Nat) /\ e \in Seq(Given) /\ Len(e) = 0 /\ Then(e, e) = e
    BY <1>1 DEF Then
  <1>3. Cat(e, e) = e
    BY <1>2, <1>1, CatLengths
  <1>4. Rest(e, 1) = e
    <2>1. Measured
      BY DEF ModesTyped
    <2>2. Len(e) + 1 = 1
      BY <1>2
    <2>3. Rest(e, Len(e) + 1) = <<>>
      BY <1>2, <2>1, RestIs
    <2> QED BY <1>1, <2>3, <2>2
  <1>5. Ordered(e, e) /\ ~Fails(e) /\ Late("up", e, e)
    BY <1>2, <1>1 DEF Ordered, Fails, Late
  <1>6. Followed(e, e, 0)
    <2>1. 0 \in 0..Len(e)
      BY <1>2
    <2>2. UpTo(e, 0) = 0
      BY <1>2, <2>1, AcceptedAre
    <2> QED BY <1>2, <2>1, <2>2 DEF Followed
  <1>7. Parsed(NoFrame, e, 0, 0, e)
    <2>1. e = Rest(e, 0 + 1) /\ 0 \in 0..Len(e)
      BY <1>2, <1>4
    <2> QED BY <2>1, NothingParsed
  <1>8. Reads(NoFrame, "idle")
    BY DEF Reads, NoFrame
  <1>9. Framed(e, e, NoFrame, e, "idle", "up")
    BY <1>2, <1>3, <1>5, <1>6, <1>7, <1>8 DEF Framed
  <1>10. Correct(e, e, NoFrame, e, "idle", "up")
    BY <1>2, <1>5, <1>9 DEF Correct
  <1>11. Correct(e, e, NoFrame, e, r, "up")
    <2>1. r = "lost" => Correct(e, e, NoFrame, e, r, "up")
      BY <1>10, <1>2, <1>5, GivesUpStep
    <2> QED BY <1>10, <2>1
  <1> QED BY <1>11, <1>1

\* It holds at the start.
LEMMA InitReading == Init => Reading
  <1> SUFFICES ASSUME Init PROVE Reading
    OBVIOUS
  <1>1. ModesTyped
    <2>1. lengths \in Seq(Nat) /\ Len(lengths) = N /\ N \in Nat
      BY StreamAssumption DEF Init
    <2>2. PICK r \in Receivers : endpoint = r.endpoint /\ kinds = r.kinds
      BY DEF Init
    <2>3. kinds \in Seq(KindNames) /\ Len(kinds) = N
      BY <2>2, StreamAssumption DEF KindNames
    <2>4. endpoint \in {"v3", "v5 client", "v5 server"}
      BY <2>2, StreamAssumption
    <2>5. kinds \in [Ops -> KindNames] /\ lengths \in [Ops -> Nat]
      BY <2>1, <2>3 DEF Ops
    <2>6. bulkRead \in BOOLEAN
      BY DEF Init
    <2> QED BY <2>4, <2>5, <2>6 DEF ModesTyped, Measured
  <1>2. /\ written = <<>> /\ delivered = <<>> /\ frame = NoFrame /\ wire = <<>>
        /\ reader = "idle" /\ link = "up" /\ opens = 1
    BY DEF Init
  <1>3. Correct(<<>>, <<>>, NoFrame, <<>>, "idle", "up")
    BY <1>1, FreshCorrect
  <1> QED BY <1>1, <1>2, <1>3 DEF Reading, Restarts

\* The write queue: packets are written, whole or in part.
LEMMA WritingReads ==
  ASSUME IInv, Reading,
         \/ \E o \in Ops : Call(o) \/ WriteDone(o) \/ WriteFail(o)
         \/ Poll
  PROVE  Reading'
  <1>1. ModesTyped /\ opens \in Nat \ {0}
    BY DEF Reading
  <1>2. UNCHANGED modes /\ opens' = opens
    BY DEF Call, WriteDone, WriteFail, Poll
  <1>3. ~bulkRead /\ reader' # "reading" => frame' = NoFrame
    BY DEF Reading, Restarts, Call, WriteDone, WriteFail, Poll
  <1>4. ASSUME Followable PROVE Correct(written', delivered', frame', wire', reader', link')
    <2>1. Correct(written, delivered, frame, wire, reader, link)
      BY <1>4, ReadingIs
    <2>2. CASE Poll \/ \E o \in Ops : Call(o) \/ WriteFail(o)
      <3>1. UNCHANGED <<written, delivered, frame, wire, reader, link>>
        BY <2>2 DEF Call, WriteFail, Poll
      <3> QED BY <2>1, <3>1
    <2>3. ASSUME NEW o \in Ops, WriteDone(o)
          PROVE  Correct(written', delivered', frame', wire', reader', link')
      <3>1. /\ link = "up" /\ written' = written \o sending /\ wire' = Cat(wire, BytesOf(sending))
            /\ UNCHANGED <<delivered, frame, reader, link>>
        BY <2>3 DEF WriteDone, Cat
      <3>2. sending \in Seq(Ops)
        BY DEF IInv, Typed
      <3>3. Correct(written \o sending, delivered, frame, Cat(wire, BytesOf(sending)), reader, "up")
        BY <1>1, <2>1, <3>1, <3>2, WrittenStep
      <3> QED BY <3>1, <3>3
    <2> QED BY <2>2, <2>3
  <1> QED BY <1>1, <1>2, <1>4, <1>3, ReadingOn DEF Followable

\* The connection ends, and is made anew.
LEMMA EndingReads ==
  ASSUME IInv, Reading, Break \/ Close \/ CloseComplete \/ Reopen
  PROVE  Reading'
  <1>1. ModesTyped /\ opens \in Nat \ {0}
    BY DEF Reading
  <1>2. UNCHANGED modes
    BY DEF Break, Close, Ending, End, CloseComplete, Reopen
  <1>3. CASE Reopen
    <2>1. opens' = opens + 1
      BY <1>3 DEF Reopen
    <2>2. opens' \in Nat \ {0} /\ opens' # 1
      BY <1>1, <2>1
    <2>3. /\ written' = <<>> /\ delivered' = <<>> /\ wire' = <<>> /\ link' = "up"
          /\ reader' = reader /\ frame' = frame /\ reader \in {"idle", "lost"}
      BY <1>3 DEF Reopen
    <2>4. ~bulkRead => frame = NoFrame
      BY <2>3 DEF Reading, Restarts
    <2>5. Correct(<<>>, <<>>, NoFrame, <<>>, reader, "up")
      BY <1>1, <2>3, FreshCorrect
    <2> QED BY <1>1, <1>2, <2>2, <2>3, <2>4, <2>5, ReadingOn
  <1>4. CASE Break \/ Close \/ CloseComplete
    <2>1. opens' = opens
      BY <1>4 DEF Break, Close, Ending, End, CloseComplete
    <2>2. ~bulkRead /\ reader' # "reading" => frame' = NoFrame
      BY <1>4 DEF Reading, Restarts, Break, Close, Ending, End, CloseComplete
    <2>3. ASSUME Followable PROVE Correct(written', delivered', frame', wire', reader', link')
      <3>1. Correct(written, delivered, frame, wire, reader, link)
        BY <2>3, ReadingIs
      <3>2. CASE UNCHANGED <<written, delivered, frame, wire, reader>> /\ link' # "up"
        BY <3>1, <3>2, LinkStep
      <3>3. ASSUME NEW to, to # "up", link = "up", sending # <<>>,
                   NEW k \in 0..(Len(sending) - 1),
                   NEW n \in 0..(Len(Bytes(sending[k + 1])) - 1), End(to, k, n)
            PROVE  Correct(written', delivered', frame', wire', reader', link')
        <4> DEFINE s == SubSeq(sending, 1, k)
                   o == sending[k + 1]
                   b == SubSeq(Bytes(o), 1, n)
                   y == Cat(wire, BytesOf(s))
        <4>1. sending \in Seq(Ops)
          BY DEF IInv, Typed
        <4>2. s \in Seq(Ops) /\ o \in Ops
          BY <3>3, <4>1
        <4>3. /\ written' = written \o s /\ link' = to
              /\ wire' = (wire \o BytesOf(s)) \o b
              /\ UNCHANGED <<delivered, frame, reader>>
          BY <3>3 DEF End
        <4>4. wire' = Cat(y, b)
          BY <4>3 DEF Cat
        <4>5. n \in 0..(Len(Bytes(o)) - 1)
          BY <3>3
        <4> HIDE DEF s, o
        <4>6. Correct(written \o s, delivered, frame, y, reader, "up")
          BY <1>1, <3>1, <3>3, <4>2, WrittenStep
        <4> DEFINE v == written \o s
        <4>7. written' = v /\ Correct(v, delivered, frame, y, reader, "up")
          BY <4>3, <4>6
        <4> HIDE DEF y, v
        <4>8. Correct(v, delivered, frame, Cat(y, b), reader, to)
          BY <1>1, <3>3, <4>2, <4>5, <4>7, PartStep
        <4> QED BY <4>3, <4>4, <4>7, <4>8
      <3>4. CASE CloseComplete
        <4>1. UNCHANGED <<written, delivered, frame, wire, reader>> /\ link' # "up"
          BY <3>4 DEF CloseComplete
        <4> QED BY <3>2, <4>1
      <3>5. ASSUME NEW to \in {"broken", "shut"}, Ending(to)
            PROVE  Correct(written', delivered', frame', wire', reader', link')
        <4>1. CASE link = "up" /\ sending # <<>>
          <5>1. PICK k \in 0..(Len(sending) - 1) :
                  \E n \in 0..(Len(Bytes(sending[k + 1])) - 1) : End(to, k, n)
            BY <3>5, <4>1 DEF Ending
          <5> QED BY <3>3, <3>5, <4>1, <5>1
        <4>2. CASE ~(link = "up" /\ sending # <<>>)
          <5>1. UNCHANGED <<written, delivered, frame, wire, reader>> /\ link' # "up"
            BY <3>5, <4>2 DEF Ending, writer
          <5> QED BY <3>2, <5>1
        <4> QED BY <4>1, <4>2
      <3>6. CASE Break \/ Close
        BY <3>5, <3>6 DEF Break, Close
      <3> QED BY <1>4, <3>4, <3>6
    <2> QED BY <1>1, <1>2, <2>1, <2>3, <2>2, ReadingOn DEF Followable
  <1> QED BY <1>3, <1>4

\* What a read completes with is handled: recv_op completes, gives up or reads on.
LEMMA HandleOutcome ==
  ASSUME ModesTyped, NEW g, NEW r, HandleRead(g, r),
         r.ec = "success" => \E o \in Ops : r = Packet(Bytes(o))
  PROVE  Outcome(delivered, g, r, reader', frame', delivered')
  <1>1. CASE Abort(g)
    BY <1>1 DEF Abort, Outcome, Errors
  <1>2. CASE GiveUp("close", g)
    BY <1>2 DEF GiveUp, Outcome
  <1>3. CASE /\ r.ec = "success" /\ Asked(Kind(r))
             /\ delivered' = Append(delivered, r) /\ reader' = "idle" /\ frame' = g
    BY <1>3 DEF Outcome
  <1>4. CASE r.ec = "success" /\ Kind(r) = "other" /\ StartRead(g) /\ UNCHANGED delivered
    BY <1>4 DEF StartRead, Outcome
  <1>5. CASE /\ r.ec = "success" /\ ~Asked(Kind(r)) /\ Kind(r) # "other"
             /\ \E to \in Rejections(Kind(r)) : GiveUp(to, g)
    <2>1. PICK o \in Ops : r = Packet(Bytes(o))
      BY <1>5
    <2>2. Kind(r) = KindOf(o)
      BY <2>1, KindIs
    <2>3. ~Goes(o)
      BY <1>5, <2>2 DEF Goes
    <2>4. Rejections(KindOf(o)) \subseteq {"close", "disconnect", "lost"}
      BY <2>3, KindIs
    <2>5. reader' \notin {"idle", "reading"} /\ delivered' = delivered
      BY <1>5, <2>2, <2>4 DEF GiveUp
    <2> QED BY <2>5 DEF Outcome
  <1>6. CASE r.ec = "success"
    BY <1>3, <1>4, <1>5, <1>6 DEF HandleRead, HandlePacket
  <1>7. CASE r.ec # "success"
    BY <1>1, <1>2, <1>7 DEF HandleRead, HandleError
  <1> QED BY <1>6, <1>7

\* What is handed over is the packet that comes next, so the order is kept.
LEMMA HandReads ==
  ASSUME ModesTyped, Correct(written, delivered, frame, wire, "reading", link),
         NEW g, NEW r, HandleRead(g, r), NEW y \in Seq(Nat),
         r.ec = "success" => Handing(written, delivered, g, r, y, link)
  PROVE  Correct(written, delivered', frame', y, reader', link)
  <1>1. written \in Seq(Ops)
    BY DEF Correct
  <1>2. ASSUME r.ec = "success" PROVE \E o \in Ops : r = Packet(Bytes(o))
    <2>1. PICK q, M : \E j, m \in Nat :
            Followed(written, delivered, j) /\ j < Len(written)
            /\ r = Packet(Bytes(written[j + 1]))
      BY <1>2 DEF Handing
    <2>2. PICK j \in Nat : j < Len(written) /\ r = Packet(Bytes(written[j + 1]))
      BY <2>1
    <2>3. written[j + 1] \in Ops
      BY <1>1, <2>2
    <2> QED BY <2>2, <2>3
  <1>3. Outcome(delivered, g, r, reader', frame', delivered')
    BY <1>2, HandleOutcome
  <1> QED BY <1>3, HandleKeeps

\* Without bulk read, the next read starts anew.
LEMMA HandRestarts ==
  ASSUME NEW r, HandleRead(NoFrame, r)
  PROVE  ~bulkRead => frame' = NoFrame
  BY DEF HandleRead, HandlePacket, HandleError, Abort, GiveUp, StartRead

\* The receive starts, and ends with an error.
LEMMA ReceiveReads ==
  ASSUME IInv, Reading, Receive \/ RejectionSent \/ ReceiveFails
  PROVE  Reading'
  <1>1. ModesTyped /\ opens \in Nat \ {0}
    BY DEF Reading
  <1>2. UNCHANGED modes /\ opens' = opens /\ UNCHANGED <<written, link, wire>>
    BY DEF Receive, RejectionSent, ReceiveFails, writer
  <1>3. ~bulkRead /\ reader' # "reading" => frame' = NoFrame
    BY DEF Reading, Restarts, Receive, RejectionSent, ReceiveFails, StartRead, GiveUp, Abort
  <1>4. ASSUME Followable PROVE Correct(written', delivered', frame', wire', reader', link')
    <2>1. Correct(written, delivered, frame, wire, reader, link)
      BY <1>4, ReadingIs
    <2>2. wire \in Seq(Nat) /\ (Fails(delivered) => reader = "idle")
      BY <2>1 DEF Correct
    <2>3. CASE Receive
      <3>1. /\ reader = "idle" /\ ~Failed /\ reader' = "reading" /\ delivered' = delivered
            /\ frame' = IF bulkRead THEN frame ELSE NoFrame
        BY <2>3 DEF Receive, StartRead
      <3>2. ~Fails(delivered)
        BY <3>1 DEF Failed, Fails, Last
      <3>3. Framed(written, delivered, frame, wire, "idle", link)
        BY <2>1, <3>1, <3>2 DEF Correct
      <3>4. PICK q, M : \E j, m \in Nat :
              /\ Late(link, q, M) /\ Parsed(frame, Then(written, q), j, m, Cat(wire, M))
              /\ Followed(written, delivered, j) /\ Reads(frame, "idle")
        BY <3>3 DEF Framed
      <3>5. frame' = frame /\ Reads(frame, "reading")
        BY <3>1, <3>4 DEF Reads
      <3>6. Framed(written, delivered, frame, wire, "reading", link)
        BY <3>4, <3>5 DEF Framed
      <3>7. Correct(written, delivered, frame, wire, "reading", link)
        BY <2>1, <3>2, <3>6 DEF Correct
      <3> QED BY <1>2, <3>1, <3>5, <3>7
    <2>4. CASE RejectionSent
      <3>1. reader = "disconnect" /\ ~Fails(delivered)
        BY <2>2, <2>4 DEF RejectionSent
      <3>2. CASE GiveUp("close", frame)
        <4>1. reader' = "close" /\ frame' = frame /\ delivered' = delivered
          BY <3>2 DEF GiveUp
        <4>2. Correct(written, delivered, frame, wire, "close", link)
          BY <2>1, <2>2, <3>1, GivesUpStep
        <4> QED BY <1>2, <4>1, <4>2
      <3>3. CASE Abort(frame)
        <4>1. /\ reader' = "idle" /\ frame' = frame
              /\ delivered' = Append(delivered, Failure("aborted"))
          BY <3>3 DEF Abort
        <4>2. Correct(written, Append(delivered, Failure("aborted")), frame, wire, "idle", link)
          BY <2>1, <2>2, <3>1, FailsStep DEF Errors
        <4> QED BY <1>2, <4>1, <4>2
      <3> QED BY <2>4, <3>2, <3>3 DEF RejectionSent
    <2>5. CASE ReceiveFails
      <3>1. PICK ec \in Errors : /\ reader = "close" /\ reader' = "idle" /\ frame' = frame
                                 /\ delivered' = Append(delivered, Failure(ec))
        BY <2>5 DEF ReceiveFails, Errors
      <3>2. ~Fails(delivered)
        BY <2>2, <3>1
      <3>3. Correct(written, Append(delivered, Failure(ec)), frame, wire, "idle", link)
        BY <2>1, <2>2, <3>2, FailsStep
      <3> QED BY <1>2, <3>1, <3>3
    <2> QED BY <2>3, <2>4, <2>5
  <1> QED BY <1>1, <1>2, <1>4, <1>3, ReadingOn DEF Followable

\* Bytes are read and parsed, and packets handed over.
LEMMA ParsingReads ==
  ASSUME IInv, Reading, ReadExactly \/ ReadParsed \/ ReadError \/ \E n \in 1..Chunk : ReadSome(n)
  PROVE  Reading'
  <1>1. ModesTyped /\ opens \in Nat \ {0}
    BY DEF Reading
  <1>2. UNCHANGED modes /\ opens' = opens /\ UNCHANGED <<written, link>> /\ reader = "reading"
    BY DEF ReadExactly, ReadParsed, ReadError, ReadSome, writer
  <1>3. ~bulkRead /\ reader' # "reading" => frame' = NoFrame
    <2>1. ASSUME ~bulkRead, ReadExactly, reader' # "reading" PROVE frame' = NoFrame
      <3>1. \/ \E f : frame' = f /\ UNCHANGED <<reader, delivered>>
            \/ \E r : HandleRead(NoFrame, r)
        BY <2>1 DEF ReadExactly
      <3> QED BY <1>2, <2>1, <3>1, HandRestarts
    <2>2. ASSUME ~bulkRead, ReadError PROVE frame' = NoFrame
      <3>1. \E r : HandleRead(NoFrame, r)
        BY <2>2 DEF ReadError
      <3> QED BY <2>2, <3>1, HandRestarts
    <2> QED BY <2>1, <2>2 DEF ReadParsed, ReadSome
  <1>4. ASSUME Followable PROVE Correct(written', delivered', frame', wire', reader', link')
    <2>1. Correct(written, delivered, frame, wire, "reading", link)
      BY <1>2, <1>4, ReadingIs
    <2>2. wire \in Seq(Nat) /\ ~Fails(delivered)
      BY <2>1 DEF Correct
    <2>3. CASE ReadExactly
      <3> DEFINE n == WantedOf(frame)
                 z == Spared(wire, n)
      <3>1. ~bulkRead /\ WantedOf(frame) <= Len(wire) /\ wire' = z
        <4>1. Wanted = WantedOf(frame)
          BY DEF Wanted, WantedOf
        <4>2. ~bulkRead /\ Len(wire) >= Wanted /\ wire' = SubSeq(wire, Wanted + 1, Len(wire))
          BY <2>3 DEF ReadExactly
        <4>3. Wanted \in Nat
          <5>1. PICK q, M : \E j, m \in Nat : Parsed(frame, Then(written, q), j, m, Cat(wire, M))
            BY <2>1, FramedIs
          <5>2. frame \in Frames
            BY <5>1 DEF Parsed
          <5> QED BY <5>2 DEF Wanted, Frames
        <4>4. Len(wire) \in Nat
          BY <2>2
        <4> QED BY <4>1, <4>2, <4>3, <4>4 DEF Spared
      <3>2. PICK h : /\ h = Ready(Feed(frame, Took(wire, WantedOf(frame))))
                     /\ IF h.packets = <<>> THEN frame' = h /\ UNCHANGED <<reader, delivered>>
                        ELSE HandleRead(NoFrame, Head(h.packets))
        <4>1. Wanted = WantedOf(frame)
          BY DEF Wanted, WantedOf
        <4>2. Whole(Received) = Ready(Feed(frame, Took(wire, WantedOf(frame))))
          BY <4>1 DEF Whole, Received, Ready, Took
        <4> QED BY <2>3, <4>2 DEF ReadExactly
      <3>3. /\ z \in Seq(Nat)
            /\ h.packets = <<>> => Correct(written, delivered, h, z, "reading", link)
            /\ h.packets # <<>> /\ Head(h.packets).ec = "success" =>
                 Handing(written, delivered, NoFrame, Head(h.packets), z, link)
        BY <1>1, <2>1, <3>1, <3>2, ReadExactlyStep
      <3> HIDE DEF z, n
      <3>4. CASE h.packets = <<>>
        BY <1>2, <3>1, <3>2, <3>3, <3>4
      <3>5. CASE h.packets # <<>>
        <4>1. Correct(written, delivered', frame', z, reader', link)
          BY <1>1, <2>1, <3>2, <3>3, <3>5, HandReads
        <4> QED BY <1>2, <3>1, <4>1
      <3> QED BY <3>4, <3>5
    <2>4. CASE ReadParsed
      <3>1. /\ bulkRead /\ frame.packets # <<>> /\ wire' = wire
            /\ HandleRead(Popped(frame), Head(frame.packets))
        BY <2>4 DEF ReadParsed, Popped
      <3>2. Head(frame.packets).ec = "success" =>
              Handing(written, delivered, Popped(frame), Head(frame.packets), wire, link)
        BY <1>1, <2>1, <3>1, ReadParsedStep
      <3>3. Correct(written, delivered', frame', wire, reader', link)
        BY <1>1, <2>1, <2>2, <3>1, <3>2, HandReads
      <3> QED BY <1>2, <3>1, <3>3
    <2>5. ASSUME NEW n \in 1..Chunk, ReadSome(n)
          PROVE  Correct(written', delivered', frame', wire', reader', link')
      <3>1. /\ bulkRead /\ frame.packets = <<>> /\ n \in Nat /\ n <= Len(wire)
            /\ frame' = Parse(frame, SubSeq(wire, 1, n))
            /\ wire' = SubSeq(wire, n + 1, Len(wire)) /\ UNCHANGED <<reader, delivered>>
        BY <2>5 DEF ReadSome
      <3>2. Correct(written, delivered, Parse(frame, SubSeq(wire, 1, n)),
                    SubSeq(wire, n + 1, Len(wire)), "reading", link)
        BY <1>1, <2>1, <3>1, ReadSomeStep
      <3> QED BY <1>2, <3>1, <3>2
    <2>6. CASE ReadError
      <3>1. wire' = wire
        BY <2>6 DEF ReadError
      <3>2. CASE bulkRead
        <4>1. reader' = "lost" /\ delivered' = delivered
          BY <2>6, <3>2 DEF ReadError
        <4>2. Correct(written, delivered, frame', wire, "lost", link)
          BY <2>1, <2>2, GivesUpStep
        <4> QED BY <1>2, <3>1, <4>1, <4>2
      <3>3. CASE ~bulkRead
        <4>1. PICK ec \in Errors : HandleRead(NoFrame, Failure(ec)) /\ ec # "unstarted"
          BY <2>6, <3>3 DEF ReadError, Aborts, Errors
        <4>2. Failure(ec).ec # "success"
          BY GivenAre DEF Errors
        <4>3. Correct(written, delivered', frame', wire, reader', link)
          BY <1>1, <2>1, <2>2, <4>1, <4>2, HandReads
        <4> QED BY <1>2, <3>1, <4>3
      <3> QED BY <3>2, <3>3
    <2> QED BY <2>3, <2>4, <2>5, <2>6
  <1> QED BY <1>1, <1>2, <1>4, <1>3, ReadingOn DEF Followable

\* The inductive invariant of the reader holds with that of the writer.
LEMMA NextReading == IInv /\ Reading /\ [Next]_vars => Reading'
  <1> SUFFICES ASSUME IInv, Reading, [Next]_vars PROVE Reading'
    OBVIOUS
  <1>1. CASE SendConnect \/ UNCHANGED vars
    <2>1. ModesTyped /\ opens \in Nat \ {0} /\ UNCHANGED modes /\ opens' = opens
          /\ UNCHANGED <<written, delivered, frame, wire, reader, link>>
      BY <1>1 DEF SendConnect, vars, writer, Reading
    <2>2. Followable => Correct(written', delivered', frame', wire', reader', link')
      BY <2>1, ReadingIs
    <2>3. ~bulkRead /\ reader' # "reading" => frame' = NoFrame
      BY <2>1 DEF Reading, Restarts
    <2> QED BY <2>1, <2>2, <2>3, ReadingOn DEF Followable
  <1>2. CASE (\E o \in Ops : Call(o)) \/ Work
    BY <1>2, WritingReads DEF Work
  <1>3. CASE Break \/ Close \/ CloseComplete \/ Reopen
    BY <1>3, EndingReads
  <1>4. CASE Receive \/ RejectionSent \/ ReceiveFails
    BY <1>4, ReceiveReads
  <1>5. CASE ReadExactly \/ ReadParsed \/ ReadError \/ \E n \in 1..Chunk : ReadSome(n)
    BY <1>5, ParsingReads
  <1> QED BY <1>1, <1>2, <1>3, <1>4, <1>5 DEF Next, Arrive

\* What is delivered, as the state has it.
LEMMA ReadingInOrder == Reading => DeliveredInOrder
  <1> SUFFICES ASSUME Reading, Followable, NEW i \in DOMAIN delivered
               PROVE  \/ \E p \in Accepted : /\ i = AcceptedUpTo(p)
                                             /\ delivered[i] = Packet(Bytes(written[p]))
                      \/ i = Len(delivered) /\ Failed
    BY DEF DeliveredInOrder, Followable
  <1>1. ModesTyped /\ Correct(written, delivered, frame, wire, reader, link)
    BY ReadingIs DEF Reading
  <1>2. written \in Seq(Ops) /\ delivered \in Seq(Given) /\ Ordered(written, delivered)
    BY <1>1 DEF Correct
  <1>3. ASSUME NEW k \in 1..Len(written) PROVE KindAt(k) = KindOf(written[k])
    <2>1. written[k] \in Ops
      BY <1>2
    <2> QED BY <1>1, <2>1, KindIs DEF KindAt
  <1>4. DOMAIN written = 1..Len(written) /\ Len(written) \in Nat
    BY <1>2
  <1>5. ASSUME NEW k \in 1..Len(written)
        PROVE  (\A n \in 1..k : Asked(KindAt(n)) \/ KindAt(n) = "other") <=>
               (\A n \in 1..k : Goes(written[n]))
    <2>1. \A n \in 1..k : n \in 1..Len(written)
      BY <1>4
    <2> QED BY <1>3, <2>1 DEF Goes
  <1>6. Accepted = AcceptedIn(written)
    BY <1>3, <1>4, <1>5 DEF Accepted, AcceptedIn
  <1>7. \A k : AcceptedUpTo(k) = UpTo(written, k)
    BY <1>6 DEF AcceptedUpTo, UpTo, AcceptedTo
  <1>8. i \in 1..Len(delivered)
    BY <1>2
  <1>9. IsNext(written, delivered, i) \/ (i = Len(delivered) /\ Fails(delivered))
    BY <1>2, <1>8 DEF Ordered
  <1>10. Fails(delivered) => Failed
    BY DEF Fails, Failed, Last
  <1> QED BY <1>6, <1>7, <1>9, <1>10 DEF IsNext

\* Whatever the sizes of packets, reads and chunks, async_recv completes with the packets
\* that were written and that it asks for, in their order, each with its own bytes, up to
\* the first that cannot be accepted; and at last with an error.
THEOREM DeliveredAsWritten == Spec => []DeliveredInOrder
  <1>1. Init => Reading
    BY InitReading
  <1>2. IInv /\ Reading /\ [Next]_vars => Reading'
    BY NextReading
  <1>3. Reading => DeliveredInOrder
    BY ReadingInOrder
  <1> QED BY <1>1, <1>2, <1>3, Invariance, PTL DEF Spec

================================================================================
