----------------------------- MODULE Session_proofs -----------------------------
(***************************************************************************)
(* The packets between the endpoint and the server form one queue: what    *)
(* send_ops write, what is on the wire, what the server has answered.      *)
(* Each message in flight has at most one packet in it, which carries the  *)
(* message's packet id.  From this follow, for every number of ids,        *)
(* messages and broken connections, that the id of a stored packet is in   *)
(* use, that no id serves two messages, and that no ack is unexpected.     *)
(* With what the server remembers of a PUBLISH that may come again, it     *)
(* follows that no QoS 2 message is passed on twice.                       *)
(***************************************************************************)
EXTENDS Session, SequenceTheorems, WellFoundedInduction, TLAPS

\* How the endpoint must be used.  A topic alias out of range leaves a stored packet
\* with a free id; a v5.0 session that is resumed without being kept releases the ids
\* of stored packets when a write fails.
WellUsed ==
  \A s \in Setups : "badAlias" \notin s.faults /\ \A c \in s.connects : c.clean \/ c.keep

\* What the client and what the server may send, and what a send_op holds.
PublishPackets == [type : {"publish"}, pid : Ids, msg : Msgs, qos : {1, 2}]
PubrelPackets == [type : {"pubrel"}, pid : Ids, msg : {0}, qos : {2}]
StoredPackets == PublishPackets \cup PubrelPackets
ClientPackets ==
  StoredPackets
  \cup [type : {"subscribe"}, pid : Ids, msg : {0}, qos : {0}]
  \cup [type : {"disconnect"}, pid : {0}, msg : {0}, qos : {0}]
  \cup [type : {"connect"}, clean : BOOLEAN, keep : BOOLEAN]
ServerPackets ==
  [type : {"puback", "pubcomp", "suback"}, pid : Ids, msg : {0}, qos : {0}]
  \cup [type : {"pubrec"}, pid : Ids, err : BOOLEAN]
  \cup [type : {"connack"}, sp : BOOLEAN]

Packets == ClientPackets \cup ServerPackets
Writes ==
  {w \in [packet : ClientPackets, rel : BOOLEAN] :
     w.rel => w.packet.type \in {"publish", "subscribe"}}

Typed ==
  /\ setup \in Setups /\ TypeOK
  /\ store \in Seq(StoredPackets)
  /\ writing \in Seq(Writes)
  /\ c2s \in Seq(ClientPackets) /\ s2c \in Seq(ServerPackets)

\* The packets in flight, in the order in which they move.
PacketsOf(w) == [i \in DOMAIN w |-> w[i].packet]
PipeOf(s, c, w) == (s \o c) \o PacketsOf(w)
Pipe == PipeOf(s2c, c2s, writing)

\* What a packet is about: a packet id, or the connection itself.
Carries(p) == p.type # "disconnect"
Subject(p) == IF p.type \in {"connect", "connack"} THEN 0 ELSE p.pid
Distinct(q) ==
  \A i, j \in DOMAIN q :
    Carries(q[i]) /\ Carries(q[j]) /\ Subject(q[i]) = Subject(q[j]) => i = j

\* Packet p in flight and a stored packet e with the same id are about one message,
\* and at the same stage of its handshake.
Fits(p, e) ==
  /\ p.type = "publish" => e = p
  /\ p.type = "puback" => e.type = "publish" /\ e.qos = 1
  /\ p.type = "pubrec" => e.type = "publish" /\ e.qos = 2
  /\ p.type \in {"pubrel", "pubcomp"} => e.type = "pubrel"
  /\ p.type \notin {"subscribe", "suback"}

\* The response to p is awaited.
Awaited(p) ==
  /\ p.type = "puback" \/ (p.type = "publish" /\ p.qos = 1) => p.pid \in puback
  /\ p.type = "pubrec" \/ (p.type = "publish" /\ p.qos = 2) => p.pid \in pubrec
  /\ p.type \in {"pubrel", "pubcomp"} => p.pid \in pubcomp

\* What holds of every packet in flight.
Proper(p) ==
  /\ Carries(p) /\ Subject(p) # 0 =>
       /\ p.pid \notin free /\ status # "connecting" /\ Awaited(p)
       /\ \A e \in ToSet(store) : e.pid = p.pid => Fits(p, e)
  /\ Carries(p) /\ Subject(p) = 0 => status = "connecting" \/ link = "down"

\* What holds of every send_op whose write is not complete.
ProperWrite(w) ==
  w.rel => w.packet.type = "subscribe" \/ (w.packet.type = "publish" /\ ~needStore)

\* Stored packets have packet ids of their own.
UniqueIds(s) == \A i, j \in DOMAIN s : s[i].pid = s[j].pid => i = j

Orderly == Distinct(Pipe) /\ \A p \in ToSet(Pipe) : Proper(p)
WritesProper == \A w \in ToSet(writing) : ProperWrite(w)
\* Only a new endpoint has packets, restored ones, before it knows that it stores.
Storing == needStore \/ store = <<>> \/ (status = "closed" /\ writing = <<>>)
StoreProper == UniqueIds(store) /\ StoredIdsUsed /\ Storing
LinkProper ==
  /\ link = "down" => c2s = <<>> /\ s2c = <<>>
  /\ link = "up" => status \in Open

\* The inductive invariant.
IInv == Typed /\ Orderly /\ WritesProper /\ StoreProper /\ LinkProper
-------------------------------------------------------------------------------
\* The first element of a queue leaves: no other one is about the same id.
LEMMA DistinctTail ==
  ASSUME NEW S, NEW q \in Seq(S), q # <<>>, Distinct(q)
  PROVE  /\ Tail(q) \in Seq(S) /\ Head(q) \in ToSet(q) /\ ToSet(Tail(q)) \subseteq ToSet(q)
         /\ Distinct(Tail(q))
         /\ \A p \in ToSet(Tail(q)) :
              Carries(p) /\ Carries(Head(q)) => Subject(p) # Subject(Head(q))
  <1>1. /\ Tail(q) \in Seq(S) /\ Len(Tail(q)) = Len(q) - 1
        /\ \A i \in 1..Len(Tail(q)) : Tail(q)[i] = q[i + 1] /\ i + 1 \in 1..Len(q)
        /\ Head(q) = q[1] /\ 1 \in 1..Len(q)
        /\ DOMAIN q = 1..Len(q) /\ DOMAIN Tail(q) = 1..Len(Tail(q))
    OBVIOUS
  <1>2. Distinct(Tail(q))
    BY <1>1 DEF Distinct
  <1>3. Head(q) \in ToSet(q) /\ ToSet(Tail(q)) \subseteq ToSet(q)
    BY <1>1 DEF ToSet
  <1>4. \A p \in ToSet(Tail(q)) :
              Carries(p) /\ Carries(Head(q)) => Subject(p) # Subject(Head(q))
    BY <1>1 DEF ToSet, Distinct
  <1> QED BY <1>1, <1>2, <1>3, <1>4

\* An element joins a queue in which none is about the same id.
LEMMA DistinctAppend ==
  ASSUME NEW S, NEW q \in Seq(S), NEW r \in S, Distinct(q),
         \A p \in ToSet(q) : Carries(p) /\ Carries(r) => Subject(p) # Subject(r)
  PROVE  /\ Append(q, r) \in Seq(S) /\ ToSet(Append(q, r)) = ToSet(q) \cup {r}
         /\ Distinct(Append(q, r))
  <1>1. /\ Append(q, r) \in Seq(S) /\ Len(Append(q, r)) = Len(q) + 1
        /\ \A i \in 1..Len(q) : Append(q, r)[i] = q[i]
        /\ Append(q, r)[Len(q) + 1] = r /\ Len(q) \in Nat
        /\ DOMAIN q = 1..Len(q) /\ DOMAIN Append(q, r) = 1..(Len(q) + 1)
    OBVIOUS
  <1>2. ToSet(Append(q, r)) = ToSet(q) \cup {r}
    BY <1>1 DEF ToSet
  <1>3. Distinct(Append(q, r))
    BY <1>1 DEF Distinct, ToSet
  <1> QED BY <1>1, <1>2, <1>3

\* Two queues that have no id in common make one queue.
LEMMA DistinctConcat ==
  ASSUME NEW S, NEW q \in Seq(S), NEW r \in Seq(S), Distinct(q), Distinct(r),
         \A p \in ToSet(q), s \in ToSet(r) : Carries(p) /\ Carries(s) => Subject(p) # Subject(s)
  PROVE  Distinct(q \o r)
  <1>1. /\ Len(q \o r) = Len(q) + Len(r)
        /\ \A i \in 1..Len(q) : (q \o r)[i] = q[i]
        /\ \A i \in 1..(Len(q) + Len(r)) : i \notin 1..Len(q) =>
              (q \o r)[i] = r[i - Len(q)] /\ i - Len(q) \in 1..Len(r)
        /\ Len(q) \in Nat /\ Len(r) \in Nat
        /\ DOMAIN q = 1..Len(q) /\ DOMAIN r = 1..Len(r)
        /\ DOMAIN (q \o r) = 1..(Len(q) + Len(r))
    OBVIOUS
  <1> QED BY <1>1 DEF Distinct, ToSet

\* A concatenation has the elements of both parts.
LEMMA ConcatElements ==
  ASSUME NEW S, NEW q \in Seq(S), NEW r \in Seq(S)
  PROVE  q \o r \in Seq(S) /\ ToSet(q \o r) = ToSet(q) \cup ToSet(r)
  <1>1. q \o r \in Seq(S)
    OBVIOUS
  <1>2. Range(q \o r) = Range(q) \cup Range(r)
    BY RangeConcatenation
  <1> QED BY <1>1, <1>2 DEF ToSet, Range

\* A part of a queue is a queue.
LEMMA DistinctSuffix ==
  ASSUME NEW S, NEW q \in Seq(S), NEW r \in Seq(S), Distinct(q \o r)
  PROVE  Distinct(r)
  <1>1. /\ Len(q \o r) = Len(q) + Len(r)
        /\ \A i \in 1..Len(r) : (q \o r)[Len(q) + i] = r[i]
             /\ Len(q) + i \in 1..(Len(q) + Len(r))
        /\ Len(q) \in Nat /\ Len(r) \in Nat
        /\ DOMAIN r = 1..Len(r)
        /\ DOMAIN (q \o r) = 1..(Len(q) + Len(r))
    OBVIOUS
  <1>2. ASSUME NEW i \in 1..Len(r), NEW j \in 1..Len(r),
               Carries(r[i]), Carries(r[j]), Subject(r[i]) = Subject(r[j])
        PROVE  i = j
    <2>1. Len(q) + i = Len(q) + j
      BY <1>1, <1>2 DEF Distinct
    <2> QED BY <2>1, <1>1
  <1> QED BY <1>1, <1>2 DEF Distinct

\* An element may be replaced by one that is about the same id.
LEMMA DistinctReplace ==
  ASSUME NEW S, NEW a \in Seq(S), NEW b \in Seq(S), NEW p \in S, NEW r \in S,
         Distinct((a \o <<p>>) \o b), Carries(p), Subject(r) = Subject(p)
  PROVE  Distinct((a \o <<r>>) \o b)
  <1>1. /\ Len((a \o <<p>>) \o b) = Len(a) + 1 + Len(b)
        /\ Len((a \o <<r>>) \o b) = Len(a) + 1 + Len(b)
        /\ ((a \o <<p>>) \o b)[Len(a) + 1] = p
        /\ ((a \o <<r>>) \o b)[Len(a) + 1] = r
        /\ \A i \in 1..(Len(a) + 1 + Len(b)) : i # Len(a) + 1 =>
             ((a \o <<p>>) \o b)[i] = ((a \o <<r>>) \o b)[i]
        /\ Len(a) + 1 \in 1..(Len(a) + 1 + Len(b))
        /\ DOMAIN ((a \o <<p>>) \o b) = 1..(Len(a) + 1 + Len(b))
        /\ DOMAIN ((a \o <<r>>) \o b) = 1..(Len(a) + 1 + Len(b))
    OBVIOUS
  <1> QED BY <1>1 DEF Distinct
-------------------------------------------------------------------------------
\* A sequence is a concatenation when its elements are those of the two parts.
LEMMA ConcatByElements ==
  ASSUME NEW S, NEW p \in Seq(S), NEW q \in Seq(S), NEW r \in Seq(S),
         Len(r) = Len(p) + Len(q),
         \A i \in 1..Len(p) : r[i] = p[i],
         \A i \in 1..Len(q) : r[Len(p) + i] = q[i]
  PROVE  r = p \o q
  <1>1. /\ p \o q \in Seq(S) /\ Len(p \o q) = Len(p) + Len(q)
        /\ \A i \in 1..(Len(p) + Len(q)) :
             (p \o q)[i] = IF i <= Len(p) THEN p[i] ELSE q[i - Len(p)]
        /\ Len(p) \in Nat /\ Len(q) \in Nat
    BY ConcatProperties, LenProperties
  <1>2. ASSUME NEW i \in 1..Len(r) PROVE r[i] = (p \o q)[i]
    <2>1. CASE i <= Len(p)
      BY <1>1, <2>1
    <2>2. CASE ~(i <= Len(p))
      <3>1. i - Len(p) \in 1..Len(q) /\ Len(p) + (i - Len(p)) = i
        BY <1>1, <2>2
      <3> QED BY <1>1, <2>2, <3>1
    <2> QED BY <2>1, <2>2
  <1> QED BY <1>1, <1>2, SeqEqual

\* Every send_op holds a packet.
LEMMA WriteHasPacket == \A x \in Writes : x.packet \in Packets /\ x.packet \in ClientPackets
  BY DEF Writes, Packets

\* The packets of the queued send_ops, one by one.
LEMMA PacketsOfWrites ==
  ASSUME NEW w \in Seq(Writes)
  PROVE  /\ PacketsOf(w) \in Seq(Packets) /\ Len(PacketsOf(w)) = Len(w)
         /\ \A i \in 1..Len(w) : PacketsOf(w)[i] = w[i].packet
         /\ ToSet(PacketsOf(w)) = {x.packet : x \in ToSet(w)}
  <1>1. DOMAIN w = 1..Len(w) /\ Len(w) \in Nat /\ \A i \in 1..Len(w) : w[i] \in Writes
    OBVIOUS
  <1>2. PacketsOf(w) \in [1..Len(w) -> Packets]
    BY <1>1, WriteHasPacket DEF PacketsOf
  <1>3. PacketsOf(w) \in Seq(Packets) /\ Len(PacketsOf(w)) = Len(w)
    BY <1>1, <1>2
  <1>4. \A i \in 1..Len(w) : PacketsOf(w)[i] = w[i].packet
    BY <1>1 DEF PacketsOf
  <1>5. DOMAIN PacketsOf(w) = 1..Len(w)
    BY <1>2
  <1>6. ToSet(PacketsOf(w)) = {x.packet : x \in ToSet(w)}
    BY <1>1, <1>4, <1>5 DEF ToSet
  <1> QED BY <1>3, <1>4, <1>6

\* Concatenating packets is associative.
LEMMA Associative ==
  \A a, b, c \in Seq(Packets) : (a \o b) \o c = a \o (b \o c)
  BY ConcatAssociative

\* What is in the pipe.
LEMMA PipeElements ==
  ASSUME NEW s \in Seq(Packets), NEW c \in Seq(Packets), NEW w \in Seq(Writes)
  PROVE  /\ PipeOf(s, c, w) \in Seq(Packets)
         /\ ToSet(PipeOf(s, c, w)) =
              (ToSet(s) \cup ToSet(c)) \cup {x.packet : x \in ToSet(w)}
  <1>1. s \o c \in Seq(Packets) /\ ToSet(s \o c) = ToSet(s) \cup ToSet(c)
    BY ConcatElements
  <1>2. PacketsOf(w) \in Seq(Packets) /\ ToSet(PacketsOf(w)) = {x.packet : x \in ToSet(w)}
    BY PacketsOfWrites
  <1>3. \A a, b \in Seq(Packets) :
          a \o b \in Seq(Packets) /\ ToSet(a \o b) = ToSet(a) \cup ToSet(b)
    BY ConcatElements
  <1> QED BY <1>1, <1>2, <1>3, Zenon DEF PipeOf

\* A send_op that is queued appends its packet to the pipe.
LEMMA PipeAppend ==
  ASSUME NEW s \in Seq(Packets), NEW c \in Seq(Packets), NEW w \in Seq(Writes),
         NEW x \in Writes
  PROVE  PipeOf(s, c, Append(w, x)) = Append(PipeOf(s, c, w), x.packet)
  <1>1. Append(w, x) \in Seq(Writes) /\ Len(Append(w, x)) = Len(w) + 1 /\ Len(w) \in Nat
        /\ (\A i \in 1..Len(w) : Append(w, x)[i] = w[i]) /\ Append(w, x)[Len(w) + 1] = x
    OBVIOUS
  <1>2. /\ PacketsOf(w) \in Seq(Packets) /\ Len(PacketsOf(w)) = Len(w)
        /\ \A i \in 1..Len(w) : PacketsOf(w)[i] = w[i].packet
    BY PacketsOfWrites
  <1>3. /\ PacketsOf(Append(w, x)) \in Seq(Packets) /\ Len(PacketsOf(Append(w, x))) = Len(w) + 1
        /\ \A i \in 1..(Len(w) + 1) : PacketsOf(Append(w, x))[i] = Append(w, x)[i].packet
    BY PacketsOfWrites, <1>1
  <1>4. x.packet \in Packets
    BY WriteHasPacket
  <1>5. /\ Append(PacketsOf(w), x.packet) \in Seq(Packets)
        /\ Len(Append(PacketsOf(w), x.packet)) = Len(w) + 1
        /\ \A i \in 1..Len(w) : Append(PacketsOf(w), x.packet)[i] = PacketsOf(w)[i]
        /\ Append(PacketsOf(w), x.packet)[Len(w) + 1] = x.packet
    BY <1>2, <1>4, AppendProperties
  <1>6. \A i \in 1..(Len(w) + 1) :
          PacketsOf(Append(w, x))[i] = Append(PacketsOf(w), x.packet)[i]
    <2> SUFFICES ASSUME NEW i \in 1..(Len(w) + 1)
                 PROVE  PacketsOf(Append(w, x))[i] = Append(PacketsOf(w), x.packet)[i]
      OBVIOUS
    <2>1. CASE i = Len(w) + 1
      BY <1>1, <1>3, <1>5, <2>1
    <2>2. CASE i \in 1..Len(w)
      BY <1>1, <1>2, <1>3, <1>5, <2>2
    <2>3. Len(w) \in Nat
      OBVIOUS
    <2>4. i = Len(w) + 1 \/ i \in 1..Len(w)
      BY <2>3
    <2> QED BY <2>1, <2>2, <2>4
  <1>7. PacketsOf(Append(w, x)) = Append(PacketsOf(w), x.packet)
    BY <1>3, <1>5, <1>6, SeqEqual
  <1>8. s \o c \in Seq(Packets)
    OBVIOUS
  <1>9. (s \o c) \o Append(PacketsOf(w), x.packet) = Append((s \o c) \o PacketsOf(w), x.packet)
    <2>1. Append(PacketsOf(w), x.packet) = PacketsOf(w) \o <<x.packet>>
      BY <1>2, <1>4, AppendIsConcat
    <2>2. (s \o c) \o PacketsOf(w) \in Seq(Packets)
      BY <1>8, <1>2, ConcatProperties
    <2>3. Append((s \o c) \o PacketsOf(w), x.packet) =
            ((s \o c) \o PacketsOf(w)) \o <<x.packet>>
      BY <2>2, <1>4, AppendIsConcat
    <2>4. <<x.packet>> \in Seq(Packets)
      BY <1>4
    <2>5. ((s \o c) \o PacketsOf(w)) \o <<x.packet>> =
            (s \o c) \o (PacketsOf(w) \o <<x.packet>>)
      BY <2>4, <1>8, <1>2, Associative, Zenon
    <2> QED BY <2>1, <2>3, <2>5, Zenon
  <1> QED BY <1>7, <1>9 DEF PipeOf

\* The stored packets that are resent are appended to the pipe.
LEMMA PipeConcat ==
  ASSUME NEW s \in Seq(Packets), NEW c \in Seq(Packets), NEW w \in Seq(Writes),
         NEW v \in Seq(Writes)
  PROVE  PipeOf(s, c, w \o v) = PipeOf(s, c, w) \o PacketsOf(v)
  <1>1. /\ w \o v \in Seq(Writes) /\ Len(w \o v) = Len(w) + Len(v)
        /\ Len(w) \in Nat /\ Len(v) \in Nat
        /\ \A i \in 1..(Len(w) + Len(v)) :
             (w \o v)[i] = IF i <= Len(w) THEN w[i] ELSE v[i - Len(w)]
    BY ConcatProperties, LenProperties
  <1>2. /\ PacketsOf(w) \in Seq(Packets) /\ Len(PacketsOf(w)) = Len(w)
        /\ \A i \in 1..Len(w) : PacketsOf(w)[i] = w[i].packet
        /\ PacketsOf(v) \in Seq(Packets) /\ Len(PacketsOf(v)) = Len(v)
        /\ \A i \in 1..Len(v) : PacketsOf(v)[i] = v[i].packet
    BY PacketsOfWrites
  <1>3. /\ PacketsOf(w \o v) \in Seq(Packets) /\ Len(PacketsOf(w \o v)) = Len(w) + Len(v)
        /\ \A i \in 1..(Len(w) + Len(v)) : PacketsOf(w \o v)[i] = (w \o v)[i].packet
    BY PacketsOfWrites, <1>1
  <1>4. ASSUME NEW i \in 1..Len(w) PROVE PacketsOf(w \o v)[i] = PacketsOf(w)[i]
    <2>1. i \in 1..(Len(w) + Len(v)) /\ (w \o v)[i] = w[i]
      BY <1>1
    <2> QED BY <1>2, <1>3, <2>1
  <1>5. ASSUME NEW i \in 1..Len(v) PROVE PacketsOf(w \o v)[Len(w) + i] = PacketsOf(v)[i]
    <2>1. Len(w) + i \in 1..(Len(w) + Len(v)) /\ (w \o v)[Len(w) + i] = v[i]
      BY <1>1
    <2> QED BY <1>2, <1>3, <2>1
  <1>6. PacketsOf(w \o v) = PacketsOf(w) \o PacketsOf(v)
    <2> DEFINE p == PacketsOf(w)
               q == PacketsOf(v)
               r == PacketsOf(w \o v)
    <2>1. p \in Seq(Packets) /\ q \in Seq(Packets) /\ r \in Seq(Packets)
          /\ Len(r) = Len(p) + Len(q)
          /\ (\A i \in 1..Len(p) : r[i] = p[i]) /\ (\A i \in 1..Len(q) : r[Len(p) + i] = q[i])
      BY <1>2, <1>3, <1>4, <1>5
    <2> HIDE DEF p, q, r
    <2>2. r = p \o q
      BY <2>1, ConcatByElements
    <2> QED BY <2>2 DEF p, q, r
  <1>7. s \o c \in Seq(Packets)
    OBVIOUS
  <1>8. ((s \o c) \o PacketsOf(w)) \o PacketsOf(v) = (s \o c) \o (PacketsOf(w) \o PacketsOf(v))
    BY <1>2, <1>7, Associative, Zenon
  <1> QED BY <1>6, <1>8, Zenon DEF PipeOf

\* A send_op's packet that is written moves on, its place in the pipe is the same.
LEMMA PipeWrite ==
  ASSUME NEW s \in Seq(Packets), NEW c \in Seq(Packets), NEW w \in Seq(Writes), w # <<>>
  PROVE  /\ Tail(w) \in Seq(Writes) /\ Head(w) \in Writes
         /\ PacketsOf(w) = <<Head(w).packet>> \o PacketsOf(Tail(w))
         /\ PipeOf(s, Append(c, Head(w).packet), Tail(w)) = PipeOf(s, c, w)
  <1>1. /\ Tail(w) \in Seq(Writes) /\ Head(w) \in Writes /\ Head(w) = w[1]
        /\ Len(w) \in Nat \ {0} /\ Len(Tail(w)) = Len(w) - 1
        /\ \A i \in 1..Len(Tail(w)) : Tail(w)[i] = w[i + 1]
    OBVIOUS
  <1> DEFINE h == Head(w).packet
  <1>2. h \in Packets /\ <<h>> \in Seq(Packets)
    BY <1>1, WriteHasPacket
  <1>3. /\ PacketsOf(w) \in Seq(Packets) /\ Len(PacketsOf(w)) = Len(w)
        /\ \A i \in 1..Len(w) : PacketsOf(w)[i] = w[i].packet
        /\ PacketsOf(Tail(w)) \in Seq(Packets) /\ Len(PacketsOf(Tail(w))) = Len(w) - 1
        /\ \A i \in 1..(Len(w) - 1) : PacketsOf(Tail(w))[i] = Tail(w)[i].packet
    BY <1>1, PacketsOfWrites
  <1>4. ASSUME NEW i \in 1..(Len(w) - 1) PROVE PacketsOf(w)[1 + i] = PacketsOf(Tail(w))[i]
    <2>1. i + 1 \in 1..Len(w) /\ Tail(w)[i] = w[i + 1] /\ 1 + i = i + 1
      BY <1>1
    <2> QED BY <1>3, <2>1
  <1>5. PacketsOf(w) = <<h>> \o PacketsOf(Tail(w))
    <2> DEFINE q == PacketsOf(Tail(w))
               r == PacketsOf(w)
    <2>1. q \in Seq(Packets) /\ r \in Seq(Packets) /\ Len(r) = 1 + Len(q) /\ r[1] = h
          /\ \A i \in 1..Len(q) : r[1 + i] = q[i]
      <3>1. q \in Seq(Packets) /\ r \in Seq(Packets) /\ Len(r) = Len(w) /\ Len(q) = Len(w) - 1
        BY <1>3
      <3>2. 1 \in 1..Len(w) /\ Len(w) = 1 + (Len(w) - 1)
        BY <1>1
      <3>3. r[1] = h
        BY <1>1, <1>3, <3>2
      <3>4. \A i \in 1..(Len(w) - 1) : r[1 + i] = q[i]
        BY <1>4
      <3> HIDE DEF q, r, h
      <3> QED BY <3>1, <3>2, <3>3, <3>4
    <2> HIDE DEF q, r, h
    <2>2. r = <<h>> \o q
      <3>1. Len(<<h>>) = 1 /\ <<h>>[1] = h
        OBVIOUS
      <3> DEFINE p == <<h>>
      <3>2. /\ p \in Seq(Packets) /\ Len(r) = Len(p) + Len(q)
            /\ (\A i \in 1..Len(p) : r[i] = p[i]) /\ (\A i \in 1..Len(q) : r[Len(p) + i] = q[i])
        BY <1>2, <2>1, <3>1
      <3> HIDE DEF p
      <3>3. r = p \o q
        BY <2>1, <3>2, ConcatByElements
      <3> QED BY <3>3 DEF p
    <2> QED BY <2>2 DEF q, r
  <1>6. <<h>> \in Seq(Packets)
    BY <1>2
  <1>7. Append(c, h) = c \o <<h>> /\ s \o c \in Seq(Packets)
    BY <1>2, AppendIsConcat, ConcatProperties
  <1>8. s \o (c \o <<h>>) = (s \o c) \o <<h>>
    BY <1>2, <1>6, Associative, Zenon
  <1>9. ((s \o c) \o <<h>>) \o PacketsOf(Tail(w)) = (s \o c) \o (<<h>> \o PacketsOf(Tail(w)))
    BY <1>6, <1>3, <1>7, Associative, Zenon
  <1> QED BY <1>1, <1>5, <1>7, <1>8, <1>9 DEF PipeOf

\* The first packet of what the server has sent is the first one of the pipe.
LEMMA PipeTail ==
  ASSUME NEW s \in Seq(Packets), NEW c \in Seq(Packets), NEW w \in Seq(Writes), s # <<>>
  PROVE  /\ Tail(s) \in Seq(Packets) /\ PipeOf(s, c, w) # <<>>
         /\ PipeOf(Tail(s), c, w) = Tail(PipeOf(s, c, w))
         /\ Head(PipeOf(s, c, w)) = Head(s)
  <1>1. PacketsOf(w) \in Seq(Packets)
    BY PacketsOfWrites
  <1>2. \A a, b \in Seq(Packets) :
          a # <<>> => a \o b # <<>> /\ Tail(a) \o b = Tail(a \o b) /\ Head(a \o b) = Head(a)
    <2> SUFFICES ASSUME NEW a \in Seq(Packets), NEW b \in Seq(Packets), a # <<>>
                 PROVE  a \o b # <<>> /\ Tail(a) \o b = Tail(a \o b) /\ Head(a \o b) = Head(a)
      OBVIOUS
    <2>1. /\ Tail(a) \in Seq(Packets) /\ Len(Tail(a)) = Len(a) - 1 /\ Head(a) = a[1]
          /\ Len(a) \in Nat \ {0} /\ Len(b) \in Nat
          /\ \A i \in 1..Len(Tail(a)) : Tail(a)[i] = a[i + 1]
      OBVIOUS
    <2>2. /\ a \o b \in Seq(Packets) /\ Len(a \o b) = Len(a) + Len(b)
          /\ \A i \in 1..(Len(a) + Len(b)) :
               (a \o b)[i] = IF i <= Len(a) THEN a[i] ELSE b[i - Len(a)]
      BY ConcatProperties
    <2>3. /\ Tail(a) \o b \in Seq(Packets) /\ Len(Tail(a) \o b) = Len(a) - 1 + Len(b)
          /\ \A i \in 1..(Len(a) - 1 + Len(b)) :
               (Tail(a) \o b)[i] = IF i <= Len(a) - 1 THEN Tail(a)[i] ELSE b[i - (Len(a) - 1)]
      BY <2>1, ConcatProperties
    <2>4. a \o b # <<>>
      BY <2>1, ConcatEqualIffEmpty
    <2>5. /\ Tail(a \o b) \in Seq(Packets) /\ Len(Tail(a \o b)) = Len(a) - 1 + Len(b)
          /\ \A i \in 1..(Len(a) - 1 + Len(b)) : Tail(a \o b)[i] = (a \o b)[i + 1]
          /\ Head(a \o b) = (a \o b)[1]
      BY <2>1, <2>2, <2>4, HeadTailProperties
    <2>6. \A i \in 1..(Len(a) - 1 + Len(b)) : (Tail(a) \o b)[i] = Tail(a \o b)[i]
      BY <2>1, <2>2, <2>3, <2>5
    <2>7. Tail(a) \o b = Tail(a \o b)
      BY <2>3, <2>5, <2>6, SeqEqual
    <2> QED BY <2>1, <2>2, <2>4, <2>5, <2>7
  <1>3. /\ s \o c \in Seq(Packets) /\ s \o c # <<>>
        /\ Tail(s) \o c = Tail(s \o c) /\ Head(s \o c) = Head(s)
    BY <1>2, ConcatProperties
  <1>4. /\ (s \o c) \o PacketsOf(w) # <<>>
        /\ Tail(s \o c) \o PacketsOf(w) = Tail((s \o c) \o PacketsOf(w))
        /\ Head((s \o c) \o PacketsOf(w)) = Head(s \o c)
    BY <1>1, <1>2, <1>3
  <1>5. Tail(s) \in Seq(Packets)
    BY HeadTailProperties
  <1> QED BY <1>3, <1>4, <1>5 DEF PipeOf

\* The server's answer takes the place of the packet it answers.
LEMMA PipeReply ==
  ASSUME NEW s \in Seq(Packets), NEW c \in Seq(Packets), NEW w \in Seq(Writes), c # <<>>,
         NEW r \in Packets
  PROVE  \E rest \in Seq(Packets) :
           /\ PipeOf(s, c, w) = (s \o <<Head(c)>>) \o rest
           /\ PipeOf(Append(s, r), Tail(c), w) = (s \o <<r>>) \o rest
  <1>1. /\ PacketsOf(w) \in Seq(Packets) /\ Head(c) \in Packets /\ Tail(c) \in Seq(Packets)
        /\ <<Head(c)>> \in Seq(Packets) /\ <<r>> \in Seq(Packets)
    BY PacketsOfWrites, HeadTailProperties
  <1>2. c = <<Head(c)>> \o Tail(c)
    OBVIOUS
  <1> DEFINE rest == Tail(c) \o PacketsOf(w)
  <1>3. rest \in Seq(Packets)
    BY <1>1, ConcatProperties
  <1>4. Append(s, r) = s \o <<r>> /\ s \o <<r>> \in Seq(Packets)
    BY <1>1, AppendIsConcat, ConcatProperties
  <1>5. ((s \o <<r>>) \o Tail(c)) \o PacketsOf(w) = (s \o <<r>>) \o rest
    BY <1>1, <1>4, Associative, Zenon
  <1>6. s \o c = (s \o <<Head(c)>>) \o Tail(c) /\ s \o <<Head(c)>> \in Seq(Packets)
    <2>1. s \o (<<Head(c)>> \o Tail(c)) = (s \o <<Head(c)>>) \o Tail(c)
      BY <1>1, Associative, Zenon
    <2>2. s \o <<Head(c)>> \in Seq(Packets)
      BY <1>1, ConcatProperties
    <2> QED BY <1>2, <2>1, <2>2
  <1>7. ((s \o <<Head(c)>>) \o Tail(c)) \o PacketsOf(w) = (s \o <<Head(c)>>) \o rest
    BY <1>1, <1>6, Associative, Zenon
  <1> HIDE DEF rest
  <1>8. /\ PipeOf(s, c, w) = (s \o <<Head(c)>>) \o rest
        /\ PipeOf(Append(s, r), Tail(c), w) = (s \o <<r>>) \o rest
    BY <1>4, <1>5, <1>6, <1>7 DEF PipeOf
  <1> QED BY <1>3, <1>8
-------------------------------------------------------------------------------
\* What appending adds to the elements, and what the tail keeps of them.
LEMMA Elements ==
  ASSUME NEW S, NEW q \in Seq(S), NEW r \in S
  PROVE  /\ Append(q, r) \in Seq(S) /\ ToSet(Append(q, r)) = ToSet(q) \cup {r}
         /\ q # <<>> => /\ Tail(q) \in Seq(S) /\ ToSet(Tail(q)) \subseteq ToSet(q)
                        /\ Head(q) \in ToSet(q) /\ Head(q) \in S
         /\ ToSet(q) \subseteq S
  <1>1. /\ Append(q, r) \in Seq(S) /\ Len(Append(q, r)) = Len(q) + 1
        /\ \A i \in 1..Len(q) : Append(q, r)[i] = q[i]
        /\ Append(q, r)[Len(q) + 1] = r /\ Len(q) \in Nat
        /\ DOMAIN q = 1..Len(q) /\ DOMAIN Append(q, r) = 1..(Len(q) + 1)
    OBVIOUS
  <1>2. ToSet(Append(q, r)) = ToSet(q) \cup {r}
    BY <1>1 DEF ToSet
  <1>3. ASSUME q # <<>>
        PROVE  /\ Tail(q) \in Seq(S) /\ ToSet(Tail(q)) \subseteq ToSet(q)
               /\ Head(q) \in ToSet(q) /\ Head(q) \in S
    <2>1. /\ Tail(q) \in Seq(S) /\ Len(Tail(q)) = Len(q) - 1
          /\ \A i \in 1..Len(Tail(q)) : Tail(q)[i] = q[i + 1] /\ i + 1 \in 1..Len(q)
          /\ Head(q) = q[1] /\ 1 \in 1..Len(q) /\ q[1] \in S
          /\ DOMAIN q = 1..Len(q) /\ DOMAIN Tail(q) = 1..Len(Tail(q))
      BY <1>3
    <2> QED BY <2>1 DEF ToSet
  <1>4. ToSet(q) \subseteq S
    BY DEF ToSet
  <1> QED BY <1>1, <1>2, <1>3, <1>4

\* A packet may join the pipe when no packet in it is about the same id.
LEMMA PipeSends ==
  ASSUME NEW s \in Seq(Packets), NEW c \in Seq(Packets), NEW w \in Seq(Writes),
         NEW x \in Writes, Distinct(PipeOf(s, c, w)),
         \A p \in ToSet(PipeOf(s, c, w)) :
           Carries(p) /\ Carries(x.packet) => Subject(p) # Subject(x.packet)
  PROVE  /\ Distinct(PipeOf(s, c, Append(w, x)))
         /\ ToSet(PipeOf(s, c, Append(w, x))) = ToSet(PipeOf(s, c, w)) \cup {x.packet}
  <1> DEFINE q == PipeOf(s, c, w)
             r == x.packet
  <1>1. q \in Seq(Packets) /\ r \in Packets
    BY PipeElements, WriteHasPacket
  <1>2. PipeOf(s, c, Append(w, x)) = Append(q, r)
    BY PipeAppend
  <1>3. Distinct(q) /\ \A p \in ToSet(q) : Carries(p) /\ Carries(r) => Subject(p) # Subject(r)
    OBVIOUS
  <1> HIDE DEF q, r
  <1>4. Distinct(Append(q, r)) /\ ToSet(Append(q, r)) = ToSet(q) \cup {r}
    BY <1>1, <1>3, DistinctAppend
  <1> QED BY <1>2, <1>4 DEF q, r

\* A packet that the endpoint receives leaves the pipe, and nothing about its id stays.
LEMMA PipeReceives ==
  ASSUME NEW s \in Seq(Packets), NEW c \in Seq(Packets), NEW w \in Seq(Writes),
         s # <<>>, Distinct(PipeOf(s, c, w))
  PROVE  /\ Tail(s) \in Seq(Packets) /\ Distinct(PipeOf(Tail(s), c, w))
         /\ ToSet(PipeOf(Tail(s), c, w)) \subseteq ToSet(PipeOf(s, c, w))
         /\ Head(s) \in ToSet(PipeOf(s, c, w))
         /\ \A p \in ToSet(PipeOf(Tail(s), c, w)) :
              Carries(p) /\ Carries(Head(s)) => Subject(p) # Subject(Head(s))
  <1> DEFINE q == PipeOf(s, c, w)
  <1>1. /\ Tail(s) \in Seq(Packets) /\ q # <<>> /\ q \in Seq(Packets) /\ Distinct(q)
        /\ PipeOf(Tail(s), c, w) = Tail(q) /\ Head(q) = Head(s)
    BY PipeTail, PipeElements
  <1> HIDE DEF q
  <1>2. /\ Head(q) \in ToSet(q) /\ ToSet(Tail(q)) \subseteq ToSet(q) /\ Distinct(Tail(q))
        /\ \A p \in ToSet(Tail(q)) :
             Carries(p) /\ Carries(Head(q)) => Subject(p) # Subject(Head(q))
    BY <1>1, DistinctTail
  <1> QED BY <1>1, <1>2 DEF q

\* A packet whose write fails leaves a pipe that has nothing on the wire.
LEMMA PipeFails ==
  ASSUME NEW w \in Seq(Writes), w # <<>>, Distinct(PipeOf(<<>>, <<>>, w))
  PROVE  /\ Tail(w) \in Seq(Writes) /\ Distinct(PipeOf(<<>>, <<>>, Tail(w)))
         /\ ToSet(PipeOf(<<>>, <<>>, Tail(w))) \subseteq ToSet(PipeOf(<<>>, <<>>, w))
         /\ Head(w) \in ToSet(w) /\ Head(w).packet \in ToSet(PipeOf(<<>>, <<>>, w))
         /\ \A p \in ToSet(PipeOf(<<>>, <<>>, Tail(w))) :
              Carries(p) /\ Carries(Head(w).packet) => Subject(p) # Subject(Head(w).packet)
  <1> DEFINE h == Head(w).packet
             v == Tail(w)
  <1>1. /\ v \in Seq(Writes) /\ Head(w) \in Writes /\ h \in Packets
        /\ PipeOf(<<>>, Append(<<>>, h), v) = PipeOf(<<>>, <<>>, w)
    BY PipeWrite, WriteHasPacket, EmptySeq
  <1>2. Head(w) \in ToSet(w)
    BY DEF ToSet
  <1> HIDE DEF h, v
  <1> DEFINE s == Append(<<>>, h)
  <1>3. /\ s \in Seq(Packets) /\ s # <<>> /\ Head(s) = h /\ Tail(s) = <<>>
        /\ <<>> \in Seq(Packets)
    BY <1>1
  <1>4. <<>> \o s = s \o <<>>
    BY <1>3, ConcatEmptySeq
  <1>5. PipeOf(<<>>, s, v) = PipeOf(s, <<>>, v)
    BY <1>4 DEF PipeOf
  <1> HIDE DEF s
  <1>6. Distinct(PipeOf(s, <<>>, v))
    BY <1>1, <1>5 DEF s
  <1>7. /\ Distinct(PipeOf(Tail(s), <<>>, v))
        /\ ToSet(PipeOf(Tail(s), <<>>, v)) \subseteq ToSet(PipeOf(s, <<>>, v))
        /\ Head(s) \in ToSet(PipeOf(s, <<>>, v))
        /\ \A p \in ToSet(PipeOf(Tail(s), <<>>, v)) :
             Carries(p) /\ Carries(Head(s)) => Subject(p) # Subject(Head(s))
    BY <1>1, <1>3, <1>6, PipeReceives
  <1>8. PipeOf(s, <<>>, v) = PipeOf(<<>>, <<>>, w)
    BY <1>1, <1>5 DEF s
  <1> QED BY <1>1, <1>2, <1>3, <1>7, <1>8 DEF h, v

\* What is in any pipe.
LEMMA PipeContents ==
  \A s, c \in Seq(Packets), w \in Seq(Writes) :
    ToSet(PipeOf(s, c, w)) = (ToSet(s) \cup ToSet(c)) \cup {x.packet : x \in ToSet(w)}
  BY PipeElements

\* The server's answer to a packet is about the same id and takes its place.
LEMMA PipeAnswers ==
  ASSUME NEW s \in Seq(Packets), NEW c \in Seq(Packets), NEW w \in Seq(Writes),
         NEW r \in Packets, c # <<>>, Distinct(PipeOf(s, c, w)),
         Carries(Head(c)), Subject(r) = Subject(Head(c))
  PROVE  /\ Distinct(PipeOf(Append(s, r), Tail(c), w))
         /\ ToSet(PipeOf(Append(s, r), Tail(c), w)) \subseteq ToSet(PipeOf(s, c, w)) \cup {r}
         /\ Head(c) \in ToSet(PipeOf(s, c, w))
  <1>1. PICK rest \in Seq(Packets) :
          /\ PipeOf(s, c, w) = (s \o <<Head(c)>>) \o rest
          /\ PipeOf(Append(s, r), Tail(c), w) = (s \o <<r>>) \o rest
    BY PipeReply
  <1>2. /\ Append(s, r) \in Seq(Packets) /\ ToSet(Append(s, r)) = ToSet(s) \cup {r}
        /\ Tail(c) \in Seq(Packets) /\ ToSet(Tail(c)) \subseteq ToSet(c)
        /\ Head(c) \in ToSet(c) /\ Head(c) \in Packets
    BY Elements
  <1>3. Distinct((s \o <<r>>) \o rest)
    BY <1>1, <1>2, DistinctReplace
  <1>4. ToSet(PipeOf(s, c, w)) = (ToSet(s) \cup ToSet(c)) \cup {x.packet : x \in ToSet(w)}
    BY PipeContents
  <1>5. ToSet(PipeOf(Append(s, r), Tail(c), w)) =
          (ToSet(Append(s, r)) \cup ToSet(Tail(c))) \cup {x.packet : x \in ToSet(w)}
    <2> DEFINE a == Append(s, r)
               d == Tail(c)
    <2>1. a \in Seq(Packets) /\ d \in Seq(Packets)
      BY <1>2
    <2> HIDE DEF a, d
    <2>2. ToSet(PipeOf(a, d, w)) = (ToSet(a) \cup ToSet(d)) \cup {x.packet : x \in ToSet(w)}
      BY <2>1, PipeContents
    <2> QED BY <2>2 DEF a, d
  <1> QED BY <1>1, <1>2, <1>3, <1>4, <1>5

\* What was on the wire is lost, what is not written yet stays.
LEMMA PipeLost ==
  ASSUME NEW s \in Seq(Packets), NEW c \in Seq(Packets), NEW w \in Seq(Writes),
         Distinct(PipeOf(s, c, w))
  PROVE  /\ Distinct(PipeOf(<<>>, <<>>, w))
         /\ ToSet(PipeOf(<<>>, <<>>, w)) \subseteq ToSet(PipeOf(s, c, w))
  <1>1. /\ PacketsOf(w) \in Seq(Packets) /\ ToSet(PacketsOf(w)) = {x.packet : x \in ToSet(w)}
        /\ s \o c \in Seq(Packets) /\ <<>> \in Seq(Packets)
    BY PacketsOfWrites, ConcatProperties, EmptySeq
  <1>2. <<>> \o <<>> = <<>> /\ <<>> \o PacketsOf(w) = PacketsOf(w)
    BY <1>1, ConcatEmptySeq
  <1>3. PipeOf(<<>>, <<>>, w) = PacketsOf(w)
    BY <1>2 DEF PipeOf
  <1> DEFINE a == s \o c
             b == PacketsOf(w)
  <1>4. Distinct(a \o b)
    BY DEF PipeOf
  <1>5. a \in Seq(Packets) /\ b \in Seq(Packets)
    BY <1>1
  <1>6. Distinct(b)
    <2> HIDE DEF a, b
    <2> QED BY <1>4, <1>5, DistinctSuffix
  <1>7. ToSet(PipeOf(s, c, w)) = (ToSet(s) \cup ToSet(c)) \cup {x.packet : x \in ToSet(w)}
    BY PipeContents
  <1> QED BY <1>1, <1>3, <1>6, <1>7
-------------------------------------------------------------------------------
\* store.add() appends a packet whose id is not in the store.
LEMMA Added ==
  ASSUME NEW S, NEW s \in Seq(S), NEW p \in S
  PROVE  /\ StoreAdd(s, p) \in Seq(S) /\ ToSet(StoreAdd(s, p)) \subseteq ToSet(s) \cup {p}
         /\ UniqueIds(s) /\ (\A e \in ToSet(s) : e.pid # p.pid) => UniqueIds(StoreAdd(s, p))
  <1>1. /\ Append(s, p) \in Seq(S) /\ Len(Append(s, p)) = Len(s) + 1
        /\ \A i \in 1..Len(s) : Append(s, p)[i] = s[i]
        /\ Append(s, p)[Len(s) + 1] = p /\ Len(s) \in Nat
        /\ DOMAIN s = 1..Len(s) /\ DOMAIN Append(s, p) = 1..(Len(s) + 1)
    OBVIOUS
  <1>2. ToSet(Append(s, p)) = ToSet(s) \cup {p}
    BY <1>1 DEF ToSet
  <1>3. UniqueIds(s) /\ (\A e \in ToSet(s) : e.pid # p.pid) => UniqueIds(Append(s, p))
    BY <1>1 DEF UniqueIds, ToSet
  <1>4. StoreAdd(s, p) \in {s, Append(s, p)}
    BY DEF StoreAdd
  <1> QED BY <1>1, <1>2, <1>3, <1>4

\* store.erase() leaves no packet of the id when the stored ids are unique and the one
\* with this id awaits this response.
LEMMA Erased ==
  ASSUME NEW S, NEW s \in Seq(S), NEW r, NEW pid
  PROVE  /\ StoreErase(s, r, pid) \in Seq(S) /\ ToSet(StoreErase(s, r, pid)) \subseteq ToSet(s)
         /\ UniqueIds(s) => UniqueIds(StoreErase(s, r, pid))
         /\ s = <<>> => StoreErase(s, r, pid) = <<>>
         /\ UniqueIds(s) /\ (\A e \in ToSet(s) : e.pid = pid => Response(e) = r) =>
              \A e \in ToSet(StoreErase(s, r, pid)) : e.pid # pid
  <1> DEFINE found == {i \in DOMAIN s : Key(s[i]) = <<r, pid>>}
  <1>1. DOMAIN s = 1..Len(s) /\ Len(s) \in Nat
    OBVIOUS
  <1>2. CASE found = {}
    <2>1. StoreErase(s, r, pid) = s
      BY <1>2 DEF StoreErase
    <2>2. ASSUME NEW e \in ToSet(s), e.pid = pid, Response(e) = r PROVE FALSE
      BY <1>2, <2>2 DEF ToSet, Key
    <2> QED BY <2>1, <2>2
  <1>3. CASE found # {}
    <2> DEFINE i == CHOOSE k \in found : TRUE
               t == RemoveAt(s, i)
    <2>1. StoreErase(s, r, pid) = t
      BY <1>3 DEF StoreErase
    <2>2. i \in found
      BY <1>3
    <2>3. i \in 1..Len(s) /\ s[i].pid = pid
      BY <2>2, <1>1 DEF Key
    <2> HIDE DEF i
    <2>4. /\ t \in Seq(S) /\ Len(t) = Len(s) - 1
          /\ \A k \in 1..(Len(s) - 1) : t[k] = IF k < i THEN s[k] ELSE s[k + 1]
      <3> DEFINE a == SubSeq(s, 1, i - 1)
                 b == SubSeq(s, i + 1, Len(s))
      <3>1. t = a \o b
        BY DEF RemoveAt
      <3>2. /\ a \in Seq(S) /\ Len(a) = i - 1 /\ \A k \in 1..(i - 1) : a[k] = s[k]
            /\ b \in Seq(S) /\ Len(b) = Len(s) - i
            /\ \A k \in 1..(Len(s) - i) : b[k] = s[i + k]
        <4>1. i - 1 \in Nat /\ i + 1 \in Nat /\ \A k \in 1..Len(s) : s[k] \in S
          BY <1>1, <2>3
        <4>2. a \in Seq(S) /\ Len(a) = i - 1 /\ \A k \in 1..(i - 1) : a[k] = s[k]
          BY <1>1, <2>3, <4>1, SubSeqProperties
        <4>3. /\ b \in Seq(S) /\ Len(b) = IF i + 1 <= Len(s) THEN Len(s) - (i + 1) + 1 ELSE 0
              /\ \A k \in 1..(Len(s) - (i + 1) + 1) : b[k] = s[(i + 1) + k - 1]
          BY <1>1, <2>3, <4>1, SubSeqProperties
        <4> HIDE DEF a, b
        <4>4. i \in Nat /\ i <= Len(s) /\ Len(s) \in Nat
          BY <1>1, <2>3
        <4> DEFINE n == Len(s)
        <4> HIDE DEF n, i
        <4>5. (IF i + 1 <= n THEN n - (i + 1) + 1 ELSE 0) = n - i /\ n - (i + 1) + 1 = n - i
          BY <4>4 DEF n
        <4>6. \A k \in 1..(n - i) : (i + 1) + k - 1 = i + k
          BY <4>4 DEF n
        <4> USE DEF n
        <4>7. Len(b) = Len(s) - i
          BY <4>3, <4>5
        <4>8. ASSUME NEW k \in 1..(Len(s) - i) PROVE b[k] = s[i + k]
          BY <4>3, <4>5, <4>6
        <4> QED BY <4>2, <4>3, <4>7, <4>8
      <3> HIDE DEF a, b, t
      <3>3. /\ a \o b \in Seq(S) /\ Len(a \o b) = Len(a) + Len(b)
            /\ \A k \in 1..(Len(a) + Len(b)) :
                 (a \o b)[k] = IF k <= Len(a) THEN a[k] ELSE b[k - Len(a)]
        BY <3>2, ConcatProperties
      <3>4. ASSUME NEW k \in 1..(Len(s) - 1) PROVE t[k] = IF k < i THEN s[k] ELSE s[k + 1]
        <4>1. CASE k < i
          BY <1>1, <2>3, <3>1, <3>2, <3>3, <4>1
        <4>2. CASE ~(k < i)
          <5>1. k - (i - 1) \in 1..(Len(s) - i) /\ i + (k - (i - 1)) = k + 1
            BY <1>1, <2>3, <4>2
          <5>2. b[k - (i - 1)] = s[k + 1]
            BY <3>2, <5>1
          <5> QED BY <1>1, <2>3, <3>1, <3>2, <3>3, <4>2, <5>2
        <4> QED BY <4>1, <4>2
      <3>5. Len(a) + Len(b) = Len(s) - 1
        BY <1>1, <2>3, <3>2
      <3> QED BY <3>1, <3>3, <3>4, <3>5
    <2> HIDE DEF t
    <2>5. DOMAIN t = 1..(Len(s) - 1)
      BY <2>4
    <2>6. ToSet(t) \subseteq ToSet(s)
      BY <1>1, <2>3, <2>4, <2>5 DEF ToSet
    <2>7. ASSUME UniqueIds(s) PROVE UniqueIds(t)
      <3>1. ASSUME NEW j \in 1..(Len(s) - 1), NEW k \in 1..(Len(s) - 1), t[j].pid = t[k].pid
            PROVE  j = k
        <4> DEFINE J == IF j < i THEN j ELSE j + 1
                   K == IF k < i THEN k ELSE k + 1
        <4>1. J \in DOMAIN s /\ K \in DOMAIN s /\ t[j] = s[J] /\ t[k] = s[K]
          BY <1>1, <2>3, <2>4
        <4>2. J = K
          BY <2>7, <3>1, <4>1 DEF UniqueIds
        <4> QED BY <1>1, <2>3, <4>2
      <3> QED BY <3>1, <2>5 DEF UniqueIds
    <2>8. s # <<>>
      BY <2>3
    <2>9. UniqueIds(s) => \A e \in ToSet(t) : e.pid # pid
      <3> SUFFICES ASSUME UniqueIds(s), NEW k \in 1..(Len(s) - 1), t[k].pid = pid PROVE FALSE
        BY <2>5 DEF ToSet
      <3> DEFINE K == IF k < i THEN k ELSE k + 1
      <3>1. K \in DOMAIN s /\ i \in DOMAIN s /\ K # i /\ t[k] = s[K]
        BY <1>1, <2>3, <2>4
      <3> QED BY <2>3, <3>1 DEF UniqueIds
    <2> QED BY <2>1, <2>4, <2>6, <2>7, <2>8, <2>9
  <1> QED BY <1>2, <1>3
-------------------------------------------------------------------------------
\* The natural numbers are well-ordered, so the lowest vacant id is vacant.
LEMMA NaturalsWellFounded == IsWellFoundedOn({p \in Nat \X Nat : p[1] < p[2]}, Nat)
  BY NatLessThanWellFounded DEF OpToRel

\* The id that SendPublish and SendSubscribe take is vacant.
LEMMA LowestVacant ==
  ASSUME NEW S \in SUBSET Nat, S # {}
  PROVE  Lowest(S) \in S
  <1> DEFINE R == {p \in Nat \X Nat : p[1] < p[2]}
  <1>1. IsWellFoundedOn(R, Nat)
    BY NaturalsWellFounded
  <1> HIDE DEF R
  <1>2. PICK i \in S : \A j \in S : ~(<<j, i>> \in R)
    BY <1>1, WFMin
  <1>3. ASSUME NEW j \in S PROVE i <= j
    <2>1. \A a, b \in Nat : a < b => <<a, b>> \in R
      BY DEF R
    <2>2. ~(j < i)
      BY <1>2, <2>1
    <2> QED BY <2>2
  <1> QED BY <1>3 DEF Lowest

\* The three parts of the pipe, and the packets that may stand at their heads.
LEMMA PipeTyped ==
  ASSUME Typed
  PROVE  /\ s2c \in Seq(Packets) /\ c2s \in Seq(Packets) /\ writing \in Seq(Writes)
         /\ store \in Seq(StoredPackets) /\ ToSet(store) \subseteq StoredPackets
         /\ s2c # <<>> => Head(s2c) \in ServerPackets /\ Tail(s2c) \in Seq(ServerPackets)
         /\ c2s # <<>> => Head(c2s) \in ClientPackets /\ Tail(c2s) \in Seq(ClientPackets)
         /\ writing # <<>> => /\ Head(writing) \in Writes
                              /\ Head(writing).packet \in ClientPackets
                              /\ Tail(writing) \in Seq(Writes)
  <1>1. s2c \in Seq(ServerPackets) /\ c2s \in Seq(ClientPackets) /\ writing \in Seq(Writes)
        /\ store \in Seq(StoredPackets)
    BY DEF Typed, StoredPackets
  <1>2. ServerPackets \subseteq Packets /\ ClientPackets \subseteq Packets
    BY DEF Packets
  <1>3. s2c \in Seq(Packets) /\ c2s \in Seq(Packets)
    BY <1>1, <1>2, SeqMonotonic
  <1>4. ToSet(store) \subseteq StoredPackets
    BY <1>1 DEF ToSet
  <1>5. writing # <<>> => Head(writing) \in Writes /\ Tail(writing) \in Seq(Writes)
    BY <1>1
  <1>6. s2c # <<>> => Head(s2c) \in ServerPackets /\ Tail(s2c) \in Seq(ServerPackets)
    BY <1>1
  <1>7. c2s # <<>> => Head(c2s) \in ClientPackets /\ Tail(c2s) \in Seq(ClientPackets)
    BY <1>1
  <1> QED BY <1>1, <1>3, <1>4, <1>5, <1>6, <1>7, WriteHasPacket

\* What a packet of the server says.
LEMMA ServerPacket ==
  ASSUME NEW p \in ServerPackets
  PROVE  /\ p.type \in {"puback", "pubrec", "pubcomp", "suback"} => p.pid \in Ids
         /\ p.type = "pubrec" => p.err \in BOOLEAN
         /\ p.type = "connack" => p.sp \in BOOLEAN
         /\ p.type \in {"puback", "pubrec", "pubcomp", "suback", "connack"}
  BY DEF ServerPackets

\* What a packet of the client says.
LEMMA ClientPacket ==
  ASSUME NEW p \in ClientPackets
  PROVE  /\ p.type \in {"publish", "pubrel", "subscribe"} => p.pid \in Ids
         /\ p.type = "publish" => p \in PublishPackets
         /\ p.type = "connect" => p.clean \in BOOLEAN /\ p.keep \in BOOLEAN
         /\ p.type \in {"publish", "pubrel", "subscribe", "disconnect", "connect"}
  BY DEF ClientPackets, StoredPackets, PublishPackets, PubrelPackets

\* What a stored packet says.
LEMMA StoredPacket ==
  ASSUME NEW p \in StoredPackets
  PROVE  /\ p.type \in {"publish", "pubrel"} /\ p.pid \in Ids /\ p \in ClientPackets
         /\ p.type = "publish" => p \in PublishPackets /\ p.msg \in Msgs /\ p.qos \in {1, 2}
         /\ p.type = "pubrel" => p = Pubrel(p.pid)
  BY DEF StoredPackets, PublishPackets, PubrelPackets, ClientPackets, Pubrel, Packet

\* What the send functions write and what the server answers is well-typed.
LEMMA Sendable ==
  /\ \A p \in ClientPackets, rel \in BOOLEAN :
       (rel => p.type \in {"publish", "subscribe"}) => Write(p, rel) \in Writes
  /\ \A i \in Ids : /\ Pubrel(i) \in StoredPackets /\ Pubrel(i) \in ClientPackets
                    /\ Ack("subscribe", i) \in ClientPackets
                    /\ Ack("puback", i) \in ServerPackets /\ Ack("pubcomp", i) \in ServerPackets
                    /\ Ack("suback", i) \in ServerPackets
                    /\ \A e \in BOOLEAN : Pubrec(i, e) \in ServerPackets
  /\ \A i \in Ids, m \in Msgs, q \in {1, 2} :
       Publish(i, m, q) \in StoredPackets /\ Publish(i, m, q) \in ClientPackets
  /\ Ack("disconnect", 0) \in ClientPackets
  /\ \A c \in ConnectKinds : Connect(c) \in ClientPackets
  /\ \A sp \in BOOLEAN : Connack(sp) \in ServerPackets
  <1>1. \A p \in ClientPackets, rel \in BOOLEAN :
          (rel => p.type \in {"publish", "subscribe"}) => Write(p, rel) \in Writes
    BY DEF Write, Writes
  <1>2. \A i \in Ids : Pubrel(i) \in StoredPackets /\ Pubrel(i) \in ClientPackets
    BY DEF Pubrel, Packet, StoredPackets, PubrelPackets, ClientPackets
  <1>3. \A i \in Ids :
          /\ Ack("subscribe", i) \in ClientPackets
          /\ Ack("puback", i) \in ServerPackets /\ Ack("pubcomp", i) \in ServerPackets
          /\ Ack("suback", i) \in ServerPackets
          /\ \A e \in BOOLEAN : Pubrec(i, e) \in ServerPackets
    BY DEF Ack, Packet, Pubrec, ServerPackets, ClientPackets
  <1>4. \A i \in Ids, m \in Msgs, q \in {1, 2} :
          Publish(i, m, q) \in StoredPackets /\ Publish(i, m, q) \in ClientPackets
    BY DEF Publish, Packet, StoredPackets, PublishPackets, ClientPackets
  <1>5. Ack("disconnect", 0) \in ClientPackets
    BY DEF Ack, Packet, ClientPackets
  <1>6. \A c \in ConnectKinds : Connect(c) \in ClientPackets
    BY DEF Connect, ConnectKinds, ClientPackets
  <1>7. \A sp \in BOOLEAN : Connack(sp) \in ServerPackets
    BY DEF Connack, ServerPackets
  <1> QED BY <1>1, <1>2, <1>3, <1>4, <1>5, <1>6, <1>7
-------------------------------------------------------------------------------
\* The state without the store and the packets: what TypeOK says of it.
Ranges ==
  /\ setup \in Setups
  /\ status \in Open \cup {"closing", "closed"}
  /\ free \subseteq Ids /\ handled \subseteq Ids
  /\ puback \cup pubrec \cup pubcomp \cup suback \cup processing \subseteq Ids
  /\ needStore \in BOOLEAN /\ session \in BOOLEAN /\ link \in {"up", "down"}
  /\ breaks \in 0..MaxBreaks
  /\ msg \in [Msgs -> {"new", "refused", "qos1", "qos2", "rejected"}]
  /\ delivered \in [Msgs -> 0..2]

\* The packets in the store, in the send_ops and on the wire.
Queues ==
  /\ store \in Seq(StoredPackets) /\ writing \in Seq(Writes)
  /\ c2s \in Seq(ClientPackets) /\ s2c \in Seq(ServerPackets)

\* Typed is about these two.
LEMMA TypedParts ==
  /\ Typed <=> Ranges /\ Queues
  /\ Typed' <=> Ranges' /\ Queues'
  <1>1. \A s \in Seq(StoredPackets) : \A p \in ToSet(s) :
          p.type \in {"publish", "pubrel"} /\ p.pid \in Ids
    <2>1. \A s \in Seq(StoredPackets) : \A p \in ToSet(s) : p \in StoredPackets
      BY DEF ToSet
    <2> QED BY <2>1, StoredPacket
  <1>2. Typed <=> Ranges /\ Queues
    <2> USE DEF Typed, TypeOK, Ranges, Queues, Stored, StoredPackets
    <2>1. Typed => Ranges /\ Queues
      OBVIOUS
    <2>2. Ranges /\ Queues => Typed
      BY <1>1
    <2> QED BY <2>1, <2>2
  <1>3. Typed' <=> Ranges' /\ Queues'
    <2> USE DEF Typed, TypeOK, Ranges, Queues, Stored, StoredPackets
    <2>1. Typed' => Ranges' /\ Queues'
      OBVIOUS
    <2>2. Ranges' /\ Queues' => Typed'
      BY <1>1
    <2> QED BY <2>1, <2>2
  <1> QED BY <1>2, <1>3

\* The initial state is well-typed.
LEMMA InitTyped == Init => Typed
  <1> SUFFICES ASSUME Init PROVE Ranges /\ Queues
    BY TypedParts
  <1>1. Queues
    BY DEF Init, Queues
  <1>2. Ranges
    <2>1. /\ msg \in [Msgs -> {"new", "refused", "qos1", "qos2", "rejected"}]
          /\ delivered \in [Msgs -> 0..2]
      BY DEF Init
    <2>2. breaks \in 0..MaxBreaks
      BY SessionAssumption DEF Init
    <2> QED BY <2>1, <2>2 DEF Init, Ranges
  <1> QED BY <1>1, <1>2

\* The ids that Await adds belong to packets.
LEMMA AwaitTyped ==
  ASSUME Typed, NEW ps \in SUBSET StoredPackets, Await(ps)
  PROVE  puback' \subseteq Ids /\ pubrec' \subseteq Ids /\ processing' \subseteq Ids
  <1>1. \A p \in ps : p.pid \in Ids
    BY StoredPacket
  <1>2. puback \subseteq Ids /\ pubrec \subseteq Ids /\ processing \subseteq Ids
    BY DEF Typed, TypeOK
  <1> QED BY <1>1, <1>2 DEF Await

\* What the application and the library do to send is well-typed.
LEMMA SendTyped ==
  ASSUME Typed
  PROVE  /\ (\E c \in setup.connects : SendConnect(c)) => Typed'
         /\ Publishing => Typed'
         /\ SendSubscribe \/ SendDisconnect => Typed'
         /\ WriteComplete \/ WriteError \/ CloseComplete => Typed'
  <1> USE TypedParts
  <1>1. ASSUME NEW c \in setup.connects, SendConnect(c) PROVE Ranges' /\ Queues'
    <2>1. c \in ConnectKinds
      BY SessionAssumption DEF Ranges
    <2>2. Ranges'
      BY <1>1, <2>1 DEF SendConnect, Initialize, Ranges, server, ConnectKinds, Open
    <2> DEFINE x == Write(Connect(c), FALSE)
    <2>3. x \in Writes
      BY <2>1, Sendable
    <2>4. /\ writing' = <<x>> /\ c2s' = c2s /\ s2c' = s2c
          /\ store' = IF c.clean THEN <<>> ELSE store
      BY <1>1 DEF SendConnect
    <2> HIDE DEF x
    <2>5. Queues'
      BY <2>3, <2>4 DEF Queues
    <2> QED BY <2>2, <2>5
  <1>2. ASSUME NEW m \in Msgs, NEW q \in {1, 2}, NEW f \in setup.faults \cup {"none"},
               SendPublish(m, q, f)
        PROVE  Ranges' /\ Queues'
    <2> DEFINE pid == Lowest(free)
               p == Publish(pid, m, q)
    <2>1. pid \in free /\ pid \in Ids
      BY <1>2, LowestVacant DEF SendPublish, Ranges, Ids
    <2>2. p \in StoredPackets /\ p \in ClientPackets
      BY <2>1, Sendable
    <2>3. Write(p, ~needStore) \in Writes
      BY <2>2, Sendable DEF Ranges, Publish, Packet
    <2>4. store' \in Seq(StoredPackets) /\ writing' \in Seq(Writes)
      BY <1>2, <2>2, <2>3, Added DEF SendPublish, Queues
    <2>5. puback' \subseteq Ids /\ pubrec' \subseteq Ids /\ processing' \subseteq Ids
      <3>1. \E ps \in SUBSET StoredPackets : Await(ps)
        BY <1>2, <2>2 DEF SendPublish
      <3> QED BY <3>1, AwaitTyped
    <2>6. Queues'
      BY <1>2, <2>4 DEF SendPublish, Queues, wire
    <2>7. msg' \in [Msgs -> {"new", "refused", "qos1", "qos2", "rejected"}]
      BY <1>2 DEF SendPublish, Ranges
    <2>8. free' \subseteq Ids
      BY <1>2 DEF SendPublish, Ranges
    <2>9. Ranges'
      BY <1>2, <2>5, <2>7, <2>8 DEF SendPublish, Ranges, wire, server
    <2> QED BY <2>6, <2>9
  <1>3. ASSUME SendSubscribe PROVE Ranges' /\ Queues'
    <2>1. Lowest(free) \in Ids
      BY <1>3, LowestVacant DEF SendSubscribe, Ranges, Ids
    <2> DEFINE x == Write(Ack("subscribe", Lowest(free)), TRUE)
    <2>2. x \in Writes
      BY <2>1, Sendable DEF Ack, Packet
    <2>3. writing' = Append(writing, x) /\ store' = store /\ c2s' = c2s /\ s2c' = s2c
      BY <1>3 DEF SendSubscribe, wire
    <2> HIDE DEF x
    <2>4. Queues'
      BY <2>2, <2>3 DEF Queues
    <2>5. Ranges'
      BY <1>3, <2>1 DEF SendSubscribe, Ranges, wire, server
    <2> QED BY <2>4, <2>5
  <1>4. ASSUME SendDisconnect PROVE Ranges' /\ Queues'
    <2> DEFINE x == Write(Ack("disconnect", 0), FALSE)
    <2>1. x \in Writes
      BY Sendable
    <2>2. writing' = Append(writing, x) /\ store' = store /\ c2s' = c2s /\ s2c' = s2c
      BY <1>4 DEF SendDisconnect, wire
    <2> HIDE DEF x
    <2>3. Queues'
      BY <2>1, <2>2 DEF Queues
    <2>4. Ranges'
      BY <1>4 DEF SendDisconnect, Ranges, wire, server, awaits, Open
    <2> QED BY <2>3, <2>4
  <1>5. ASSUME WriteComplete PROVE Ranges' /\ Queues'
    <2>1. Head(writing).packet \in ClientPackets /\ Tail(writing) \in Seq(Writes)
      BY <1>5, PipeTyped DEF WriteComplete
    <2>2. Queues'
      BY <1>5, <2>1 DEF WriteComplete, Queues, client
    <2>3. Ranges'
      BY <1>5 DEF WriteComplete, Ranges, client, server
    <2> QED BY <2>2, <2>3
  <1>6. ASSUME WriteError PROVE Ranges' /\ Queues'
    <2>1. Tail(writing) \in Seq(Writes)
      BY <1>6, PipeTyped DEF WriteError
    <2>2. Queues'
      BY <1>6, <2>1 DEF WriteError, Queues, wire
    <2>3. free' \subseteq Ids
      <3>1. Head(writing).rel => Head(writing).packet.pid \in Ids
        BY <1>6, PipeTyped, ClientPacket DEF WriteError, Writes
      <3> QED BY <1>6, <3>1 DEF WriteError, Ranges
    <2>4. Ranges'
      BY <1>6, <2>3 DEF WriteError, Ranges, wire, server, awaits
    <2> QED BY <2>2, <2>4
  <1>7. ASSUME CloseComplete PROVE Ranges' /\ Queues'
    <2>1. Queues'
      BY <1>7 DEF CloseComplete, Queues, wire
    <2>2. Ranges'
      BY <1>7 DEF CloseComplete, Ranges, wire, server, awaits
    <2> QED BY <2>1, <2>2
  <1> QED BY <1>1, <1>2, <1>3, <1>4, <1>5, <1>6, <1>7 DEF Publishing

\* What a connection that ends leaves is well-typed.
LEMMA EndTyped ==
  ASSUME Typed
  PROVE  Close \/ Break \/ ServerDisconnect \/ ServerExpire \/ Restart \/ Expire => Typed'
  <1> USE TypedParts
  <1>1. ASSUME LinkDown
        PROVE  /\ c2s' \in Seq(ClientPackets) /\ s2c' \in Seq(ServerPackets)
               /\ breaks' \in 0..MaxBreaks /\ link' \in {"up", "down"}
    BY <1>1, SessionAssumption DEF LinkDown, Ranges
  <1>2. ASSUME Close PROVE Ranges' /\ Queues'
    <2>1. c2s' \in Seq(ClientPackets) /\ s2c' \in Seq(ServerPackets)
          /\ breaks' \in 0..MaxBreaks /\ link' \in {"up", "down"}
      BY <1>1, <1>2 DEF Close, wire, Ranges, Queues
    <2> QED BY <1>2, <2>1 DEF Close, Ranges, Queues, server, awaits
  <1>3. ASSUME Break PROVE Ranges' /\ Queues'
    BY <1>1, <1>3 DEF Break, Ranges, Queues, client, server
  <1>4. ASSUME ServerDisconnect PROVE Ranges' /\ Queues'
    BY <1>1, <1>4 DEF ServerDisconnect, Ranges, Queues, client, server
  <1>5. ASSUME ServerExpire PROVE Ranges' /\ Queues'
    BY <1>5 DEF ServerExpire, Ranges, Queues, client, wire
  <1>6. ASSUME Restart PROVE Ranges' /\ Queues'
    <2>1. /\ c2s' \in Seq(ClientPackets) /\ s2c' \in Seq(ServerPackets)
          /\ breaks' \in 0..MaxBreaks /\ link' \in {"up", "down"}
      BY <1>1, <1>6 DEF Restart, wire, Ranges, Queues
    <2>2. Queues'
      BY <1>6, <2>1 DEF Restart, RestorePackets, GetStoredPackets, Queues
    <2>3. Ranges'
      BY <1>6, <2>1 DEF Restart, RestorePackets, GetStoredPackets, Registered, Initialize, Stored, Ranges, server
    <2> QED BY <2>2, <2>3
  <1>7. ASSUME Expire PROVE Ranges' /\ Queues'
    <2>1. store' \in Seq(StoredPackets)
      BY <1>7, Erased DEF Expire, Queues
    <2>2. Queues'
      BY <1>7, <2>1 DEF Expire, Queues, wire
    <2>3. Ranges'
      BY <1>7 DEF Expire, Ranges, awaits, wire, server
    <2> QED BY <2>2, <2>3
  <1> QED BY <1>2, <1>3, <1>4, <1>5, <1>6, <1>7

\* What remains of the store has its packets in their order, each with an id of its own.
LEMMA RemainingStore ==
  ASSUME NEW s \in Seq(StoredPackets), NEW t \in Remaining(s)
  PROVE  /\ t \in Seq(StoredPackets) /\ ToSet(t) \subseteq ToSet(s)
         /\ UniqueIds(s) => UniqueIds(t)
         /\ s = <<>> => t = <<>>
  <1>1. CASE t = s
    BY <1>1
  <1>2. CASE t # s
    <2>1. /\ t \in SeqOf(ToSet(s), Len(s))
          /\ \A i, j \in DOMAIN t : i < j =>
               \E k, l \in DOMAIN s : k < l /\ t[i] = s[k] /\ t[j] = s[l]
      BY <1>2 DEF Remaining
    <2>2. PICK n \in 0..Len(s) : t \in [1..n -> ToSet(s)]
      BY <2>1 DEF SeqOf
    <2>3. ToSet(s) \subseteq StoredPackets /\ Len(s) \in Nat /\ DOMAIN s = 1..Len(s)
      BY DEF ToSet
    <2>4. t \in [1..n -> StoredPackets] /\ n \in Nat
      BY <2>2, <2>3
    <2>5. t \in Seq(StoredPackets) /\ DOMAIN t = 1..n /\ Len(t) = n
      BY <2>4
    <2>6. ToSet(t) \subseteq ToSet(s)
      BY <2>2, <2>5 DEF ToSet
    <2>7. ASSUME UniqueIds(s), NEW i \in DOMAIN t, NEW j \in DOMAIN t, i < j
          PROVE  t[i].pid # t[j].pid
      <3>1. PICK k, l \in DOMAIN s : k < l /\ t[i] = s[k] /\ t[j] = s[l]
        BY <2>1, <2>7
      <3> QED BY <2>3, <2>7, <3>1 DEF UniqueIds
    <2>8. UniqueIds(s) => UniqueIds(t)
      <3>1. \A i, j \in DOMAIN t : i # j => i < j \/ j < i
        BY <2>4, <2>5
      <3> QED BY <2>7, <3>1 DEF UniqueIds
    <2>9. s = <<>> => t = <<>>
      <3>1. s = <<>> => n = 0
        BY <2>2
      <3> QED BY <2>5, <3>1
    <2> QED BY <2>5, <2>6, <2>8, <2>9
  <1> QED BY <1>1, <1>2

\* The resent packets are well-typed send_ops, and their packets are those, in order.
LEMMA ResentPackets ==
  ASSUME needStore \in BOOLEAN, NEW s \in Seq(StoredPackets)
  PROVE  /\ Resent(s) \in Seq(Writes) /\ PacketsOf(Resent(s)) = s
         /\ \A w \in ToSet(Resent(s)) : w.rel => w.packet.type = "publish" /\ ~needStore
  <1>2. DOMAIN s = 1..Len(s) /\ Len(s) \in Nat
        /\ \A i \in 1..Len(s) : s[i] \in ClientPackets
    BY StoredPacket
  <1>3. ASSUME NEW i \in 1..Len(s)
        PROVE  Write(s[i], s[i].type = "publish" /\ ~needStore) \in Writes
    <2>1. (s[i].type = "publish" /\ ~needStore) \in BOOLEAN
      OBVIOUS
    <2> QED BY <1>2, <2>1, Sendable
  <1>4. Resent(s) \in [1..Len(s) -> Writes]
    BY <1>2, <1>3 DEF Resent
  <1>5. Resent(s) \in Seq(Writes) /\ DOMAIN Resent(s) = 1..Len(s) /\ Len(Resent(s)) = Len(s)
    BY <1>2, <1>4
  <1>6. \A i \in 1..Len(s) :
          /\ Resent(s)[i].packet = s[i]
          /\ Resent(s)[i].rel => s[i].type = "publish" /\ ~needStore
    BY <1>2 DEF Resent, Write
  <1>7. PacketsOf(Resent(s)) \in [1..Len(s) -> StoredPackets]
    BY <1>5, <1>6 DEF PacketsOf
  <1>8. PacketsOf(Resent(s)) = s
    BY <1>2, <1>5, <1>6, <1>7 DEF PacketsOf
  <1>9. \A w \in ToSet(Resent(s)) : w.rel => w.packet.type = "publish" /\ ~needStore
    BY <1>5, <1>6 DEF ToSet
  <1> QED BY <1>5, <1>8, <1>9

\* What is consumed from the wire, and what a DISCONNECT appends.
LEMMA ConsumeTyped ==
  ASSUME Typed, NEW t, Received(t), Consume
  PROVE  /\ c2s' \in Seq(ClientPackets) /\ s2c' \in Seq(ServerPackets)
         /\ link' = link /\ breaks' = breaks /\ Head(s2c) \in ServerPackets
         /\ Head(s2c).type = t
  BY PipeTyped, TypedParts DEF Queues, Received, Consume

\* A rejected packet leaves the state well-typed.
LEMMA RejectTyped ==
  ASSUME Typed, Reject
  PROVE  writing' \in Seq(Writes) /\ status' \in Open \cup {"closing", "closed"}
  <1> DEFINE x == Write(Ack("disconnect", 0), FALSE)
  <1>1. x \in Writes
    BY Sendable
  <1>2. \/ status' = "disconnecting" /\ writing' = Append(writing, x)
        \/ status' = status /\ writing' = writing
    BY DEF Reject
  <1> HIDE DEF x
  <1>3. Append(writing, x) \in Seq(Writes) /\ writing \in Seq(Writes)
    BY <1>1, TypedParts DEF Queues
  <1>4. status \in Open \cup {"closing", "closed"}
    BY DEF Typed, TypeOK
  <1> QED BY <1>2, <1>3, <1>4 DEF Open

\* What the endpoint does with the packets it receives is well-typed.
LEMMA ReceiveTyped ==
  ASSUME Typed
  PROVE  RecvConnack \/ RecvPuback \/ RecvPubrec \/ RecvPubcomp \/ RecvSuback => Typed'
  <1> USE TypedParts
  <1> DEFINE pid == Head(s2c).pid
  <1>1. \A r : StoreErase(store, r, pid) \in Seq(StoredPackets)
    BY Erased DEF Queues
  <1>2. ASSUME RecvConnack PROVE Ranges' /\ Queues'
    <2>1. Received("connack") /\ Consume
      BY <1>2 DEF RecvConnack
    <2>2. c2s' \in Seq(ClientPackets) /\ s2c' \in Seq(ServerPackets)
          /\ link' = link /\ breaks' = breaks
      BY <2>1, ConsumeTyped
    <2>3. store \in Seq(StoredPackets) /\ writing \in Seq(Writes) /\ free \subseteq Ids
          /\ needStore \in BOOLEAN /\ Stored \subseteq StoredPackets
      BY PipeTyped DEF Queues, Ranges, Stored
    <2> DEFINE Kept ==
          /\ writing' \in Seq(Writes) /\ store' \in Seq(StoredPackets) /\ free' \subseteq Ids
          /\ puback' \subseteq Ids /\ pubrec' \subseteq Ids /\ processing' \subseteq Ids
          /\ pubcomp' \subseteq Ids
    <2>4. ASSUME Head(s2c).sp PROVE Kept
      <3>1. PICK s \in Remaining(store) :
              /\ Await({p \in ToSet(s) : p.type = "publish"})
              /\ pubcomp' = pubcomp \cup {p.pid : p \in {q \in ToSet(s) : q.type = "pubrel"}}
              /\ writing' = writing \o Resent(s) /\ store' = s
              /\ free' = free \cup {p.pid : p \in Stored \ ToSet(s)}
        BY <1>2, <2>4 DEF RecvConnack
      <3>2. s \in Seq(StoredPackets) /\ ToSet(s) \subseteq StoredPackets
        BY <2>3, RemainingStore DEF Stored
      <3>3. Resent(s) \in Seq(Writes)
        BY <2>3, <3>2, ResentPackets
      <3>4. writing \o Resent(s) \in Seq(Writes)
        BY <2>3, <3>3, ConcatProperties
      <3>5. {p \in ToSet(s) : p.type = "publish"} \in SUBSET StoredPackets
        BY <3>2
      <3>6. puback' \subseteq Ids /\ pubrec' \subseteq Ids /\ processing' \subseteq Ids
        BY <3>1, <3>5, AwaitTyped
      <3>7. pubcomp' \subseteq Ids
        BY <3>1, <3>2, StoredPacket DEF Ranges
      <3>8. free' \subseteq Ids
        BY <2>3, <3>1, StoredPacket
      <3> QED BY <3>1, <3>2, <3>4, <3>6, <3>7, <3>8
    <2>5. ASSUME ~Head(s2c).sp PROVE Kept
      <3>1. <<>> \in Seq(StoredPackets)
        OBVIOUS
      <3> QED BY <1>2, <2>3, <2>5, <3>1 DEF RecvConnack, Ranges
    <2>9. Kept
      BY <2>4, <2>5
    <2>6. Queues'
      BY <2>2, <2>9 DEF Queues
    <2>7. setup' = setup /\ status' = "connected" /\ suback' = suback /\ needStore' = needStore
          /\ session' = session /\ handled' = handled /\ delivered' = delivered /\ msg' = msg
      BY <1>2 DEF RecvConnack, server
    <2>8. Ranges'
      BY <2>2, <2>9, <2>7 DEF Ranges, Open
    <2> QED BY <2>6, <2>8
  <1>3. ASSUME RecvPuback PROVE Ranges' /\ Queues'
    <2>1. Received("puback") /\ Consume
      BY <1>3 DEF RecvPuback
    <2>2. c2s' \in Seq(ClientPackets) /\ s2c' \in Seq(ServerPackets)
          /\ link' = link /\ breaks' = breaks /\ pid \in Ids
      BY <2>1, ConsumeTyped, ServerPacket
    <2>3. writing' \in Seq(Writes) /\ status' \in Open \cup {"closing", "closed"}
      BY <1>3, RejectTyped DEF RecvPuback, Queues, Ranges
    <2>4. store' \in Seq(StoredPackets) /\ free' \subseteq Ids /\ puback' \subseteq Ids
      BY <1>1, <1>3, <2>2 DEF RecvPuback, Queues, Ranges
    <2>5. Queues'
      BY <2>2, <2>3, <2>4 DEF Queues
    <2>6. Ranges'
      BY <1>3, <2>2, <2>3, <2>4 DEF RecvPuback, Ranges, server
    <2> QED BY <2>5, <2>6
  <1>4. ASSUME RecvPubrec PROVE Ranges' /\ Queues'
    <2>1. Received("pubrec") /\ Consume
      BY <1>4 DEF RecvPubrec
    <2>2. c2s' \in Seq(ClientPackets) /\ s2c' \in Seq(ServerPackets)
          /\ link' = link /\ breaks' = breaks /\ pid \in Ids
      BY <2>1, ConsumeTyped, ServerPacket
    <2> DEFINE x == Write(Pubrel(pid), FALSE)
               rest == StoreErase(store, "pubrec", pid)
    <2>3. x \in Writes /\ Pubrel(pid) \in StoredPackets
      BY <2>2, Sendable
    <2>4. /\ store' \in {store, rest, StoreAdd(rest, Pubrel(pid))}
          /\ \/ writing' \in {writing, Append(writing, x)} /\ status' = status
             \/ Reject
      BY <1>4 DEF RecvPubrec
    <2>5. store' \in Seq(StoredPackets)
      <3>1. rest \in Seq(StoredPackets)
        BY <1>1
      <3> HIDE DEF rest
      <3>2. StoreAdd(rest, Pubrel(pid)) \in Seq(StoredPackets)
        BY <2>3, <3>1, Added
      <3>3. store' \in {store, rest, StoreAdd(rest, Pubrel(pid))}
        BY <1>4 DEF RecvPubrec, rest
      <3> QED BY <3>1, <3>2, <3>3 DEF Queues
    <2>6. writing' \in Seq(Writes) /\ status' \in Open \cup {"closing", "closed"}
      <3> HIDE DEF x
      <3>1. CASE Reject
        BY <3>1, RejectTyped
      <3>2. CASE writing' \in {writing, Append(writing, x)} /\ status' = status
        <4>1. Append(writing, x) \in Seq(Writes) /\ writing \in Seq(Writes)
          BY <2>3 DEF Queues
        <4>2. status \in Open \cup {"closing", "closed"}
          BY DEF Ranges
        <4> QED BY <3>2, <4>1, <4>2
      <3> QED BY <2>4, <3>1, <3>2
    <2>7. free' \subseteq Ids /\ pubrec' \subseteq Ids /\ processing' \subseteq Ids
          /\ pubcomp' \subseteq Ids
      BY <1>4, <2>2 DEF RecvPubrec, Ranges
    <2>8. Queues'
      BY <2>2, <2>5, <2>6 DEF Queues
    <2>9. setup' = setup /\ puback' = puback /\ suback' = suback /\ needStore' = needStore
          /\ session' = session /\ handled' = handled /\ delivered' = delivered /\ msg' = msg
      BY <1>4 DEF RecvPubrec, server
    <2>10. Ranges'
      BY <2>2, <2>6, <2>7, <2>9 DEF Ranges
    <2> QED BY <2>8, <2>10
  <1>5. ASSUME RecvPubcomp PROVE Ranges' /\ Queues'
    <2>1. Received("pubcomp") /\ Consume
      BY <1>5 DEF RecvPubcomp
    <2>2. c2s' \in Seq(ClientPackets) /\ s2c' \in Seq(ServerPackets)
          /\ link' = link /\ breaks' = breaks /\ pid \in Ids
      BY <2>1, ConsumeTyped, ServerPacket
    <2>3. writing' \in Seq(Writes) /\ status' \in Open \cup {"closing", "closed"}
      BY <1>5, RejectTyped DEF RecvPubcomp, Queues, Ranges
    <2>4. store' \in Seq(StoredPackets) /\ free' \subseteq Ids /\ pubcomp' \subseteq Ids
          /\ processing' \subseteq Ids
      BY <1>1, <1>5, <2>2 DEF RecvPubcomp, Queues, Ranges
    <2>5. Queues'
      BY <2>2, <2>3, <2>4 DEF Queues
    <2>6. Ranges'
      BY <1>5, <2>2, <2>3, <2>4 DEF RecvPubcomp, Ranges, server
    <2> QED BY <2>5, <2>6
  <1>6. ASSUME RecvSuback PROVE Ranges' /\ Queues'
    <2>1. Received("suback") /\ Consume
      BY <1>6 DEF RecvSuback
    <2>2. c2s' \in Seq(ClientPackets) /\ s2c' \in Seq(ServerPackets)
          /\ link' = link /\ breaks' = breaks /\ pid \in Ids
      BY <2>1, ConsumeTyped, ServerPacket
    <2>3. free' \subseteq Ids /\ suback' \subseteq Ids
      BY <1>6, <2>2 DEF RecvSuback, Ranges
    <2>4. Queues'
      BY <1>6, <2>2 DEF RecvSuback, Queues
    <2>5. Ranges'
      BY <1>6, <2>2, <2>3 DEF RecvSuback, Ranges, server
    <2> QED BY <2>4, <2>5
  <1> QED BY <1>2, <1>3, <1>4, <1>5, <1>6

\* A packet the server answers leaves its place to the answer.
LEMMA ReplyTyped ==
  ASSUME Typed, NEW t, Arrived(t), NEW r \in ServerPackets, Reply(r)
  PROVE  /\ c2s' \in Seq(ClientPackets) /\ s2c' \in Seq(ServerPackets)
         /\ link' = link /\ breaks' = breaks
         /\ Head(c2s) \in ClientPackets /\ Head(c2s).type = t /\ c2s # <<>>
         /\ s2c' = Append(s2c, r) /\ c2s' = Tail(c2s)
  BY PipeTyped, TypedParts DEF Queues, Arrived, Reply

\* A delivery is counted up to 2.
LEMMA DeliverTyped ==
  ASSUME Typed, NEW m \in Msgs, Deliver(m)
  PROVE  delivered' \in [Msgs -> 0..2]
  <1>1. delivered \in [Msgs -> 0..2]
    BY DEF Typed, TypeOK
  <1> QED BY <1>1 DEF Deliver

\* What the server does is well-typed.
LEMMA ServerTyped == Typed /\ Server => Typed'
  <1> SUFFICES ASSUME Typed, Server PROVE Typed'
    OBVIOUS
  <1> USE TypedParts
  <1> DEFINE p == Head(c2s)
  <1>1. ASSUME ServerConnect PROVE Ranges' /\ Queues'
    <2>1. Arrived("connect") /\ Reply(Connack(session /\ ~p.clean))
      BY <1>1 DEF ServerConnect
    <2>2. Connack(session /\ ~p.clean) \in ServerPackets
      BY Sendable
    <2>3. c2s' \in Seq(ClientPackets) /\ s2c' \in Seq(ServerPackets)
          /\ link' = link /\ breaks' = breaks /\ p.keep \in BOOLEAN
      BY <2>1, <2>2, ReplyTyped, ClientPacket
    <2>4. store' = store /\ writing' = writing
      BY <1>1 DEF ServerConnect, client
    <2>5. handled' \subseteq Ids
      BY <1>1 DEF ServerConnect, Ranges
    <2>6. Ranges'
      BY <1>1, <2>3, <2>5 DEF ServerConnect, Ranges, client
    <2> QED BY <2>3, <2>4, <2>6 DEF Queues
  <1>2. ASSUME ServerPublishQos1 PROVE Ranges' /\ Queues'
    <2>1. Arrived("publish") /\ Reply(Ack("puback", p.pid)) /\ Deliver(p.msg)
      BY <1>2 DEF ServerPublishQos1
    <2>2. p \in PublishPackets
      BY <2>1, PipeTyped, ClientPacket DEF Arrived
    <2>3. p.msg \in Msgs /\ Ack("puback", p.pid) \in ServerPackets
      BY <2>2, Sendable DEF PublishPackets
    <2>4. c2s' \in Seq(ClientPackets) /\ s2c' \in Seq(ServerPackets)
          /\ link' = link /\ breaks' = breaks
      BY <2>1, <2>3, ReplyTyped
    <2>5. delivered' \in [Msgs -> 0..2]
      BY <2>1, <2>3, DeliverTyped
    <2>6. store' = store /\ writing' = writing
      BY <1>2 DEF ServerPublishQos1, client
    <2>7. Ranges'
      BY <1>2, <2>4, <2>5 DEF ServerPublishQos1, Ranges, client
    <2> QED BY <2>4, <2>6, <2>7 DEF Queues
  <1>3. ASSUME ServerPublishQos2 PROVE Ranges' /\ Queues'
    <2>1. Arrived("publish") /\ Reply(Pubrec(p.pid, FALSE))
          /\ (Deliver(p.msg) \/ delivered' = delivered)
      BY <1>3 DEF ServerPublishQos2
    <2>2. p \in PublishPackets
      BY <2>1, PipeTyped, ClientPacket DEF Arrived
    <2>3. p.msg \in Msgs /\ p.pid \in Ids /\ Pubrec(p.pid, FALSE) \in ServerPackets
      BY <2>2, Sendable DEF PublishPackets
    <2>4. c2s' \in Seq(ClientPackets) /\ s2c' \in Seq(ServerPackets)
          /\ link' = link /\ breaks' = breaks
      BY <2>1, <2>3, ReplyTyped
    <2>5. delivered' \in [Msgs -> 0..2]
      BY <2>1, <2>3, DeliverTyped DEF Ranges
    <2>6. store' = store /\ writing' = writing
      BY <1>3 DEF ServerPublishQos2, client
    <2>7. handled' \subseteq Ids
      BY <1>3, <2>3 DEF ServerPublishQos2, Ranges
    <2>8. Ranges'
      BY <1>3, <2>4, <2>5, <2>7 DEF ServerPublishQos2, Ranges, client
    <2> QED BY <2>4, <2>6, <2>8 DEF Queues
  <1>4. ASSUME ServerRefuseQos2 PROVE Ranges' /\ Queues'
    <2>1. Arrived("publish") /\ Reply(Pubrec(p.pid, TRUE))
      BY <1>4 DEF ServerRefuseQos2
    <2>2. p \in PublishPackets
      BY <2>1, PipeTyped, ClientPacket DEF Arrived
    <2>3. p.msg \in Msgs /\ Pubrec(p.pid, TRUE) \in ServerPackets
      BY <2>2, Sendable DEF PublishPackets
    <2>4. c2s' \in Seq(ClientPackets) /\ s2c' \in Seq(ServerPackets)
          /\ link' = link /\ breaks' = breaks
      BY <2>1, <2>3, ReplyTyped
    <2>5. msg' \in [Msgs -> {"new", "refused", "qos1", "qos2", "rejected"}]
      BY <1>4 DEF ServerRefuseQos2, Ranges
    <2>6. store' = store /\ writing' = writing
      BY <1>4 DEF ServerRefuseQos2, client
    <2>7. Ranges'
      BY <1>4, <2>4, <2>5 DEF ServerRefuseQos2, Ranges, client, server
    <2> QED BY <2>4, <2>6, <2>7 DEF Queues
  <1>5. ASSUME ServerPubrel PROVE Ranges' /\ Queues'
    <2>1. Arrived("pubrel") /\ Reply(Ack("pubcomp", p.pid))
      BY <1>5 DEF ServerPubrel
    <2>2. p.pid \in Ids
      BY <2>1, PipeTyped, ClientPacket DEF Arrived
    <2>3. c2s' \in Seq(ClientPackets) /\ s2c' \in Seq(ServerPackets)
          /\ link' = link /\ breaks' = breaks
      BY <2>1, <2>2, Sendable, ReplyTyped
    <2>4. store' = store /\ writing' = writing
      BY <1>5 DEF ServerPubrel, client
    <2>5. Ranges'
      BY <1>5, <2>3 DEF ServerPubrel, Ranges, client
    <2> QED BY <2>3, <2>4, <2>5 DEF Queues
  <1>6. ASSUME ServerSubscribe PROVE Ranges' /\ Queues'
    <2>1. Arrived("subscribe") /\ Reply(Ack("suback", p.pid))
      BY <1>6 DEF ServerSubscribe
    <2>2. p.pid \in Ids
      BY <2>1, PipeTyped, ClientPacket DEF Arrived
    <2>3. c2s' \in Seq(ClientPackets) /\ s2c' \in Seq(ServerPackets)
          /\ link' = link /\ breaks' = breaks
      BY <2>1, <2>2, Sendable, ReplyTyped
    <2>4. store' = store /\ writing' = writing
      BY <1>6 DEF ServerSubscribe, client
    <2>5. Ranges'
      BY <1>6, <2>3 DEF ServerSubscribe, Ranges, client, server
    <2> QED BY <2>3, <2>4, <2>5 DEF Queues
  <1> QED BY <1>1, <1>2, <1>3, <1>4, <1>5, <1>6, EndTyped DEF Server

\* Every step leaves the state well-typed.
LEMMA NextTyped == Typed /\ [Next]_vars => Typed'
  <1>1. ASSUME Typed, UNCHANGED vars PROVE Typed'
    BY <1>1, TypedParts DEF vars, client, wire, server, Ranges, Queues
  <1> QED
    BY <1>1, SendTyped, EndTyped, ReceiveTyped, ServerTyped
    DEF Next, Library, Application
-------------------------------------------------------------------------------
\* Which packets are about a packet id.
LEMMA SubjectOf ==
  ASSUME NEW p \in Packets, Carries(p)
  PROVE  /\ Subject(p) = 0 <=> p.type \in {"connect", "connack"}
         /\ Subject(p) # 0 => Subject(p) = p.pid /\ p.pid \in Ids
  <1>1. CASE p \in ClientPackets
    BY <1>1, ClientPacket, SessionAssumption DEF Carries, Subject, Ids
  <1>2. CASE p \in ServerPackets
    BY <1>2, ServerPacket, SessionAssumption DEF Carries, Subject, Ids
  <1> QED BY <1>1, <1>2 DEF Packets

\* A packet in flight stays proper when its id is not released, its response is still
\* awaited and the store has nothing new for it.
LEMMA StaysProper ==
  ASSUME NEW p, Proper(p),
         Carries(p) /\ Subject(p) # 0 =>
           /\ p.pid \notin free' /\ status' # "connecting"
           /\ p.pid \in puback => p.pid \in puback'
           /\ p.pid \in pubrec => p.pid \in pubrec'
           /\ p.pid \in pubcomp => p.pid \in pubcomp'
           /\ \A e \in ToSet(store') : e.pid = p.pid => e \in ToSet(store),
         Carries(p) /\ Subject(p) = 0 =>
           (status = "connecting" /\ status' = "connecting") \/ link' = "down"
  PROVE  Proper(p)'
  BY DEF Proper, Awaited, Fits, Carries, Subject

\* The pipe of a well-typed state.
LEMMA PipeOfTyped ==
  ASSUME Typed
  PROVE  /\ Pipe = PipeOf(s2c, c2s, writing) /\ Pipe \in Seq(Packets)
         /\ ToSet(Pipe) \subseteq Packets
         /\ ToSet(Pipe) = (ToSet(s2c) \cup ToSet(c2s)) \cup {x.packet : x \in ToSet(writing)}
  <1>1. s2c \in Seq(Packets) /\ c2s \in Seq(Packets) /\ writing \in Seq(Writes)
    BY PipeTyped
  <1>2. PipeOf(s2c, c2s, writing) \in Seq(Packets)
    BY <1>1, PipeElements
  <1>3. ToSet(PipeOf(s2c, c2s, writing)) \subseteq Packets
    BY <1>2 DEF ToSet
  <1> QED BY <1>1, <1>2, <1>3, PipeContents DEF Pipe

\* A pipe without packets is orderly.
LEMMA EmptyPipe ==
  PipeOf(<<>>, <<>>, <<>>) = <<>> /\ Distinct(<<>>) /\ ToSet(<<>>) = {}
  <1>1. <<>> \in Seq(Packets) /\ <<>> \in Seq(Writes) /\ Len(<<>>) = 0
    BY EmptySeq
  <1>2. PacketsOf(<<>>) = <<>>
    <2>1. PacketsOf(<<>>) \in Seq(Packets) /\ Len(PacketsOf(<<>>)) = 0
      BY <1>1, PacketsOfWrites
    <2> QED BY <2>1
  <1>3. <<>> \o <<>> = <<>>
    BY <1>1, ConcatEmptySeq
  <1> QED BY <1>2, <1>3 DEF PipeOf, Distinct, ToSet

\* Initially nothing is in flight or stored.
LEMMA InitInvariant == Init => IInv
  <1> SUFFICES ASSUME Init PROVE IInv
    OBVIOUS
  <1>1. Typed
    BY InitTyped
  <1>2. Orderly
    BY EmptyPipe DEF Init, Orderly, Pipe
  <1>3. WritesProper /\ StoreProper /\ LinkProper
    BY EmptyPipe DEF Init, WritesProper, StoreProper, Storing, LinkProper, UniqueIds,
       StoredIdsUsed, Stored
  <1> QED BY <1>1, <1>2, <1>3 DEF IInv
-------------------------------------------------------------------------------
\* A new send_op is proper when its packet is, and no other packet has its id.
LEMMA SendsProper ==
  ASSUME Typed, Distinct(Pipe), WritesProper, NEW x \in Writes, writing' = Append(writing, x),
         s2c' = s2c, c2s' = c2s,
         \A p \in ToSet(Pipe) :
           /\ Proper(p)'
           /\ Carries(p) /\ Carries(x.packet) => Subject(p) # Subject(x.packet),
         Proper(x.packet)', ProperWrite(x), needStore' = needStore
  PROVE  Orderly' /\ WritesProper'
  <1>1. s2c \in Seq(Packets) /\ c2s \in Seq(Packets) /\ writing \in Seq(Writes)
        /\ Pipe = PipeOf(s2c, c2s, writing)
    BY PipeTyped, PipeOfTyped
  <1>2. Pipe' = PipeOf(s2c, c2s, Append(writing, x))
    BY DEF Pipe
  <1>3. Distinct(Pipe') /\ ToSet(Pipe') = ToSet(Pipe) \cup {x.packet}
    BY <1>1, <1>2, PipeSends
  <1>4. Orderly'
    BY <1>3 DEF Orderly
  <1>5. ToSet(writing') = ToSet(writing) \cup {x}
    BY <1>1, Elements
  <1>6. WritesProper'
    BY <1>5 DEF WritesProper, ProperWrite
  <1> QED BY <1>4, <1>6

\* CONNECT is written on a new connection: it is alone in the pipe.
LEMMA ConnectKeeps ==
  ASSUME WellUsed, IInv, NEW c \in setup.connects, SendConnect(c)
  PROVE  Orderly' /\ WritesProper' /\ StoreProper' /\ LinkProper'
  <1> DEFINE x == Write(Connect(c), FALSE)
  <1>1. Typed /\ c \in ConnectKinds /\ (c.clean \/ c.keep)
    BY TypedParts, SessionAssumption DEF IInv, Ranges, WellUsed
  <1>2. x \in Writes /\ x.packet = Connect(c) /\ x.rel = FALSE
    BY <1>1, Sendable DEF Write
  <1>3. c2s = <<>> /\ s2c = <<>> /\ writing = <<>>
    BY DEF SendConnect, IInv, LinkProper
  <1>4. Append(<<>>, x) = <<x>> /\ writing' = <<x>> /\ c2s' = c2s /\ s2c' = s2c
        /\ status' = "connecting" /\ link' = "up" /\ needStore' = c.keep
        /\ free' = (IF c.clean THEN Ids ELSE free) /\ store' = IF c.clean THEN <<>> ELSE store
    BY DEF SendConnect
  <1>5. Proper(Connect(c))'
    BY <1>4 DEF Proper, Connect, Carries, Subject
  <1> HIDE DEF x
  <1>6. Distinct(PipeOf(<<>>, <<>>, <<x>>)) /\ ToSet(PipeOf(<<>>, <<>>, <<x>>)) = {x.packet}
    <2>1. <<>> \in Seq(Packets) /\ <<>> \in Seq(Writes)
      OBVIOUS
    <2>2. Distinct(PipeOf(<<>>, <<>>, <<>>)) /\ \A p \in ToSet(PipeOf(<<>>, <<>>, <<>>)) : FALSE
      BY EmptyPipe
    <2>3. /\ Distinct(PipeOf(<<>>, <<>>, Append(<<>>, x)))
          /\ ToSet(PipeOf(<<>>, <<>>, Append(<<>>, x))) =
               ToSet(PipeOf(<<>>, <<>>, <<>>)) \cup {x.packet}
      <3>1. \A s, t \in Seq(Packets), w \in Seq(Writes) :
              Distinct(PipeOf(s, t, w)) /\ (\A p \in ToSet(PipeOf(s, t, w)) : FALSE) =>
                /\ Distinct(PipeOf(s, t, Append(w, x)))
                /\ ToSet(PipeOf(s, t, Append(w, x))) = ToSet(PipeOf(s, t, w)) \cup {x.packet}
        BY <1>2, PipeSends
      <3> QED BY <2>1, <2>2, <3>1, Zenon
    <2> QED BY <1>4, <2>3, EmptyPipe
  <1>7. Orderly'
    BY <1>2, <1>3, <1>4, <1>5, <1>6 DEF Orderly, Pipe
  <1>8. WritesProper'
    <2>1. ToSet(<<x>>) = {x}
      BY DEF ToSet
    <2> QED BY <1>2, <1>4, <2>1 DEF WritesProper, ProperWrite
  <1>9. StoreProper'
    <2>1. CASE c.clean
      BY <1>4, <2>1, EmptyPipe DEF StoreProper, Storing, UniqueIds, StoredIdsUsed, Stored
    <2>2. CASE ~c.clean
      BY <1>1, <1>4, <2>2 DEF IInv, StoreProper, Storing, StoredIdsUsed, Stored
    <2> QED BY <2>1, <2>2
  <1>10. LinkProper'
    BY <1>4 DEF LinkProper, Open
  <1> QED BY <1>7, <1>8, <1>9, <1>10

\* A vacant id has no packet in flight and none in the store.
LEMMA VacantUnused ==
  ASSUME IInv, NEW i \in free
  PROVE  /\ \A p \in ToSet(Pipe) : Carries(p) => Subject(p) # i
         /\ \A e \in ToSet(store) : e.pid # i
  <1>1. \A e \in ToSet(store) : e.pid # i
    BY DEF IInv, StoreProper, Storing, StoredIdsUsed, Stored
  <1>2. ASSUME NEW p \in ToSet(Pipe), Carries(p), Subject(p) = i PROVE FALSE
    <2>1. i \in Ids /\ i # 0
      BY TypedParts DEF IInv, Ranges, Ids
    <2>2. p.pid = i
      BY <1>2, <2>1, PipeOfTyped, SubjectOf DEF IInv
    <2> QED BY <1>2, <2>1, <2>2 DEF IInv, Orderly, Proper
  <1> QED BY <1>1, <1>2

\* PUBLISH: a new message with a vacant id.
LEMMA PublishKeeps ==
  ASSUME WellUsed, IInv, Publishing
  PROVE  Orderly' /\ WritesProper' /\ StoreProper' /\ LinkProper'
  <1>1. PICK m \in Msgs, q \in {1, 2}, f \in setup.faults \cup {"none"} : SendPublish(m, q, f)
    BY DEF Publishing
  <1>2. Typed /\ setup \in Setups /\ needStore \in BOOLEAN
    BY TypedParts DEF IInv, Ranges
  <1>3. f \in {"tooBig", "none"}
    BY <1>2, SessionAssumption DEF WellUsed
  <1>4. PICK pid : pid = Lowest(free) /\ pid \in free /\ pid \in Ids /\ pid # 0
    BY <1>1, <1>2, LowestVacant, TypedParts DEF SendPublish, Ranges, Ids
  <1>5. PICK rel \in BOOLEAN : rel = ~needStore
    BY <1>2
  <1> DEFINE p == Publish(pid, m, q)
             x == Write(p, rel)
  <1>6. p \in StoredPackets /\ p \in ClientPackets /\ x \in Writes /\ x.packet = p
        /\ p.pid = pid /\ p.type = "publish" /\ p.qos = q /\ x.rel = rel
    BY <1>4, Sendable DEF Publish, Packet, Write
  <1>7. /\ \A r \in ToSet(Pipe) : Carries(r) => Subject(r) # pid
        /\ \A e \in ToSet(store) : e.pid # pid
    BY <1>4, VacantUnused
  <1>8. /\ store' = IF needStore /\ f # "tooBig" THEN StoreAdd(store, p) ELSE store
        /\ free' = IF f = "none" THEN free \ {pid} ELSE free
        /\ writing' = IF f = "none" /\ status = "connected" THEN Append(writing, x) ELSE writing
        /\ Await(IF needStore /\ f = "tooBig" THEN {} ELSE {p})
        /\ status' = status /\ pubcomp' = pubcomp /\ needStore' = needStore
        /\ link' = link /\ c2s' = c2s /\ s2c' = s2c
    BY <1>1, <1>4, <1>5 DEF SendPublish, wire
  <1> HIDE DEF p, x
  <1>9. /\ store' \in Seq(StoredPackets) /\ ToSet(store') \subseteq ToSet(store) \cup {p}
        /\ UniqueIds(store')
        /\ f = "tooBig" => store' = store
    BY <1>3, <1>6, <1>7, <1>8, Added, TypedParts, <1>2 DEF Queues, IInv, StoreProper, Storing
  <1>10. StoreProper'
    <2>1. ASSUME NEW e \in ToSet(store') PROVE e.pid \notin free'
      <3>1. CASE e \in ToSet(store)
        BY <1>8, <3>1 DEF IInv, StoreProper, Storing, StoredIdsUsed, Stored
      <3>2. CASE e \notin ToSet(store)
        BY <1>3, <1>6, <1>8, <1>9, <3>2
      <3> QED BY <3>1, <3>2
    <2>2. Storing'
      BY <1>8 DEF IInv, StoreProper, Storing
    <2> QED BY <1>9, <2>1, <2>2 DEF StoreProper, StoredIdsUsed, Stored
  <1>11. ASSUME NEW r \in ToSet(Pipe) PROVE Proper(r)'
    <2>1. Proper(r)
      BY DEF IInv, Orderly
    <2>2. puback \subseteq puback' /\ pubrec \subseteq pubrec'
      BY <1>8 DEF Await
    <2>3. ASSUME Carries(r), Subject(r) # 0
          PROVE  /\ r.pid \notin free' /\ status' # "connecting"
                 /\ \A e \in ToSet(store') : e.pid = r.pid => e \in ToSet(store)
      <3>1. r.pid # pid
        BY <1>2, <1>7, <2>3, PipeOfTyped, SubjectOf
      <3> QED BY <1>6, <1>8, <1>9, <2>1, <2>3, <3>1 DEF Proper
    <2>4. ASSUME Carries(r), Subject(r) = 0
          PROVE  (status = "connecting" /\ status' = "connecting") \/ link' = "down"
      BY <1>8, <2>1, <2>4 DEF Proper
    <2> QED BY <1>8, <2>1, <2>2, <2>3, <2>4, StaysProper
  <1>12. Orderly' /\ WritesProper'
    <2>1. CASE f = "none" /\ status = "connected"
      <3>1. Carries(p) /\ Subject(p) = pid
        BY <1>6 DEF Carries, Subject
      <3>2. Awaited(p)'
        BY <1>6, <1>8, <2>1 DEF Awaited, Await
      <3>3. ASSUME NEW e \in ToSet(store'), e.pid = p.pid PROVE Fits(p, e)
        BY <1>6, <1>7, <1>9, <3>3 DEF Fits
      <3>4. Proper(p)'
        BY <1>4, <1>6, <1>8, <2>1, <3>1, <3>2, <3>3 DEF Proper, Fits
      <3>5. ProperWrite(x)
        BY <1>6, <1>5 DEF ProperWrite
      <3>6. writing' = Append(writing, x)
        BY <1>8, <2>1
      <3>7. \A r \in ToSet(Pipe) : Carries(r) => Subject(r) # Subject(x.packet)
        BY <1>6, <1>7, <3>1
      <3> QED BY <1>2, <1>6, <1>8, <1>11, <3>4, <3>5, <3>6, <3>7, SendsProper DEF IInv, Orderly
    <2>2. CASE ~(f = "none" /\ status = "connected")
      <3>1. Pipe' = Pipe /\ writing' = writing
        BY <1>8, <2>2 DEF Pipe
      <3> QED BY <1>8, <1>11, <3>1 DEF IInv, Orderly, WritesProper, ProperWrite
    <2> QED BY <2>1, <2>2
  <1>13. LinkProper'
    BY <1>8 DEF IInv, LinkProper
  <1> QED BY <1>10, <1>12, <1>13

\* SUBSCRIBE: a vacant id, which the send_op answers for.
LEMMA SubscribeKeeps ==
  ASSUME IInv, SendSubscribe
  PROVE  Orderly' /\ WritesProper' /\ StoreProper' /\ LinkProper'
  <1>1. Typed
    BY DEF IInv
  <1>2. PICK pid : pid = Lowest(free) /\ pid \in free /\ pid \in Ids /\ pid # 0
    BY <1>1, LowestVacant, TypedParts DEF SendSubscribe, Ranges, Ids
  <1> DEFINE p == Ack("subscribe", pid)
             x == Write(p, TRUE)
  <1>3. x \in Writes /\ x.packet = p /\ p.pid = pid /\ p.type = "subscribe"
    BY <1>2, Sendable DEF Ack, Packet, Write
  <1>4. /\ \A r \in ToSet(Pipe) : Carries(r) => Subject(r) # pid
        /\ \A e \in ToSet(store) : e.pid # pid
    BY <1>2, VacantUnused
  <1>5. /\ free' = free \ {pid} /\ writing' = Append(writing, x) /\ status = "connected"
        /\ status' = status /\ store' = store /\ puback' = puback /\ pubrec' = pubrec
        /\ pubcomp' = pubcomp /\ needStore' = needStore
        /\ link' = link /\ c2s' = c2s /\ s2c' = s2c
    BY <1>2 DEF SendSubscribe, wire
  <1> HIDE DEF p, x
  <1>6. StoreProper' /\ LinkProper'
    BY <1>5 DEF IInv, StoreProper, Storing, StoredIdsUsed, Stored, LinkProper
  <1>7. ASSUME NEW r \in ToSet(Pipe) PROVE Proper(r)'
    <2>1. Proper(r)
      BY DEF IInv, Orderly
    <2> QED BY <1>5, <2>1, StaysProper DEF Proper
  <1>8. Carries(p) /\ Subject(p) = pid
    BY <1>3 DEF Carries, Subject
  <1>9. Proper(p)'
    BY <1>2, <1>3, <1>4, <1>5, <1>8 DEF Proper, Awaited
  <1>10. ProperWrite(x)
    BY <1>3 DEF ProperWrite
  <1>11. \A r \in ToSet(Pipe) : Carries(r) => Subject(r) # Subject(x.packet)
    BY <1>3, <1>4, <1>8
  <1> QED BY <1>1, <1>3, <1>5, <1>6, <1>7, <1>9, <1>10, <1>11, SendsProper DEF IInv, Orderly

\* A DISCONNECT is about no packet id, whether the application or Reject sends it.
LEMMA DisconnectKeeps ==
  ASSUME IInv, SendDisconnect
  PROVE  Orderly' /\ WritesProper' /\ StoreProper' /\ LinkProper'
  <1> DEFINE p == Ack("disconnect", 0)
             x == Write(p, FALSE)
  <1>1. Typed
    BY DEF IInv
  <1>2. x \in Writes /\ x.packet = p /\ p.type = "disconnect" /\ x.rel = FALSE
    BY Sendable DEF Ack, Packet, Write
  <1>3. /\ free' = free /\ writing' = Append(writing, x) /\ status = "connected"
        /\ status' = "disconnecting" /\ store' = store /\ puback' = puback /\ pubrec' = pubrec
        /\ pubcomp' = pubcomp /\ needStore' = needStore
        /\ link' = link /\ c2s' = c2s /\ s2c' = s2c
    BY DEF SendDisconnect, wire, awaits
  <1> HIDE DEF p, x
  <1>4. StoreProper' /\ LinkProper'
    BY <1>3 DEF IInv, StoreProper, Storing, StoredIdsUsed, Stored, LinkProper, Open
  <1>5. ASSUME NEW r \in ToSet(Pipe) PROVE Proper(r)'
    <2>1. Proper(r)
      BY DEF IInv, Orderly
    <2> QED BY <1>3, <2>1, StaysProper DEF Proper
  <1>6. ~Carries(p)
    BY <1>2 DEF Carries
  <1>7. Proper(p)' /\ ProperWrite(x)
    BY <1>2, <1>6 DEF Proper, ProperWrite
  <1> QED BY <1>1, <1>2, <1>3, <1>4, <1>5, <1>6, <1>7, SendsProper DEF IInv, Orderly

\* A packet that is written stays at its place in the pipe.
LEMMA WriteCompleteKeeps ==
  ASSUME IInv, WriteComplete
  PROVE  Orderly' /\ WritesProper' /\ StoreProper' /\ LinkProper'
  <1>1. /\ s2c \in Seq(Packets) /\ c2s \in Seq(Packets) /\ writing \in Seq(Writes)
        /\ writing # <<>>
    BY PipeTyped DEF IInv, WriteComplete
  <1>2. /\ c2s' = Append(c2s, Head(writing).packet) /\ writing' = Tail(writing) /\ s2c' = s2c
        /\ free' = free /\ status' = status /\ store' = store /\ puback' = puback
        /\ pubrec' = pubrec /\ pubcomp' = pubcomp /\ needStore' = needStore
        /\ link = "up" /\ link' = link
    BY DEF WriteComplete, client
  <1>3. Pipe' = Pipe
    BY <1>1, <1>2, PipeWrite DEF Pipe
  <1>4. ToSet(Tail(writing)) \subseteq ToSet(writing)
    <2>1. Head(writing) \in Writes
      BY <1>1
    <2> QED BY <1>1, <2>1, Elements
  <1>5. Orderly'
    BY <1>2, <1>3 DEF IInv, Orderly, Proper, Awaited
  <1>6. WritesProper'
    BY <1>2, <1>4 DEF IInv, WritesProper, ProperWrite
  <1>7. StoreProper' /\ LinkProper'
    BY <1>2 DEF IInv, StoreProper, Storing, StoredIdsUsed, Stored, LinkProper
  <1> QED BY <1>5, <1>6, <1>7

\* A write fails: the send_op releases an id that nobody else in flight has.
LEMMA WriteErrorKeeps ==
  ASSUME IInv, WriteError
  PROVE  Orderly' /\ WritesProper' /\ StoreProper' /\ LinkProper'
  <1>1. /\ writing \in Seq(Writes) /\ writing # <<>> /\ c2s = <<>> /\ s2c = <<>>
    BY PipeTyped DEF IInv, WriteError, LinkProper
  <1>2. PICK h : h = Head(writing)
    OBVIOUS
  <1>3. /\ writing' = Tail(writing) /\ s2c' = s2c /\ c2s' = c2s
        /\ free' = (IF h.rel THEN free \cup {h.packet.pid} ELSE free)
        /\ status' = status /\ store' = store /\ puback' = puback
        /\ pubrec' = pubrec /\ pubcomp' = pubcomp /\ needStore' = needStore
        /\ link = "down" /\ link' = link
    BY <1>2 DEF WriteError, wire, awaits
  <1>4. /\ Pipe = PipeOf(<<>>, <<>>, writing) /\ Pipe' = PipeOf(<<>>, <<>>, Tail(writing))
        /\ Distinct(Pipe)
    BY <1>1, <1>3 DEF Pipe, IInv, Orderly
  <1>5. /\ Distinct(Pipe') /\ ToSet(Pipe') \subseteq ToSet(Pipe)
        /\ h \in ToSet(writing) /\ h.packet \in ToSet(Pipe)
        /\ \A p \in ToSet(Pipe') :
             Carries(p) /\ Carries(h.packet) => Subject(p) # Subject(h.packet)
    BY <1>1, <1>2, <1>4, PipeFails
  <1>6. /\ ToSet(Tail(writing)) \subseteq ToSet(writing)
    <2>1. Head(writing) \in Writes
      BY <1>1
    <2> QED BY <1>1, <2>1, Elements
  <1>7. ASSUME h.rel
        PROVE  /\ Carries(h.packet) /\ Subject(h.packet) = h.packet.pid
               /\ \A e \in ToSet(store) : e.pid # h.packet.pid
    <2>1. ProperWrite(h) /\ Proper(h.packet) /\ h.packet \in Packets
      BY <1>5, PipeOfTyped DEF IInv, WritesProper, Orderly
    <2>2. h.packet.type = "subscribe" \/ (h.packet.type = "publish" /\ ~needStore)
      BY <1>7, <2>1 DEF ProperWrite
    <2>3. Carries(h.packet) /\ Subject(h.packet) = h.packet.pid /\ Subject(h.packet) # 0
      BY <2>1, <2>2, SubjectOf DEF Carries, Subject
    <2>4. CASE h.packet.type = "subscribe"
      BY <2>1, <2>3, <2>4 DEF Proper, Fits
    <2>5. CASE ~needStore
      BY <1>1, <2>3, <2>5, EmptyPipe DEF IInv, StoreProper, Storing
    <2> QED BY <2>2, <2>3, <2>4, <2>5
  <1>8. ASSUME NEW r \in ToSet(Pipe') PROVE Proper(r)'
    <2>1. Proper(r) /\ r \in Packets
      BY <1>5, PipeOfTyped DEF IInv, Orderly
    <2>2. ASSUME Carries(r), Subject(r) # 0 PROVE r.pid \notin free' /\ status' # "connecting"
      BY <1>3, <1>5, <1>7, <2>1, <2>2, SubjectOf DEF Proper
    <2> QED BY <1>3, <2>1, <2>2, StaysProper
  <1>9. Orderly' /\ WritesProper'
    BY <1>3, <1>5, <1>6, <1>8 DEF IInv, Orderly, WritesProper, ProperWrite
  <1>10. StoreProper'
    BY <1>3, <1>7 DEF IInv, StoreProper, Storing, StoredIdsUsed, Stored
  <1>11. LinkProper'
    BY <1>3 DEF IInv, LinkProper
  <1> QED BY <1>9, <1>10, <1>11

\* The end of a connection: only what is not yet written stays in flight.
LEMMA EndKeeps ==
  ASSUME IInv, Close \/ CloseComplete \/ Break \/ ServerDisconnect \/ ServerExpire
  PROVE  Orderly' /\ WritesProper' /\ StoreProper' /\ LinkProper'
  <1>1. /\ free' = free /\ store' = store /\ puback' = puback /\ pubrec' = pubrec
        /\ pubcomp' = pubcomp /\ needStore' = needStore /\ writing' = writing
        /\ \/ link' = "down" /\ c2s' = <<>> /\ s2c' = <<>>
           \/ link = "down" /\ link' = link /\ c2s' = c2s /\ s2c' = s2c
        /\ status' # "connecting" \/ status' = status
        /\ status = "closed" => status' = "closed"
    <2>1. CASE Close
      BY <2>1 DEF Close, LinkDown, awaits, wire, Open
    <2>2. CASE CloseComplete
      <3>1. link = "down"
        BY <2>2, TypedParts DEF CloseComplete, IInv, LinkProper, Open, Ranges
      <3> QED BY <2>2, <3>1 DEF CloseComplete, awaits, wire
    <2>3. CASE Break \/ ServerDisconnect
      BY <2>3 DEF Break, ServerDisconnect, LinkDown, client
    <2>4. CASE ServerExpire
      BY <2>4 DEF ServerExpire, client, wire
    <2> QED BY <2>1, <2>2, <2>3, <2>4
  <1>2. s2c \in Seq(Packets) /\ c2s \in Seq(Packets) /\ writing \in Seq(Writes)
    BY PipeTyped DEF IInv
  <1>3. link' = "down" /\ c2s' = <<>> /\ s2c' = <<>>
    BY <1>1 DEF IInv, LinkProper
  <1>4. Pipe' = PipeOf(<<>>, <<>>, writing) /\ Pipe = PipeOf(s2c, c2s, writing)
    BY <1>1, <1>3 DEF Pipe
  <1>5. Distinct(Pipe') /\ ToSet(Pipe') \subseteq ToSet(Pipe)
    BY <1>2, <1>4, PipeLost DEF IInv, Orderly
  <1>6. ASSUME NEW r \in ToSet(Pipe') PROVE Proper(r)'
    <2>1. Proper(r)
      BY <1>5 DEF IInv, Orderly
    <2> QED BY <1>1, <1>3, <2>1, StaysProper DEF Proper
  <1>7. StoreProper' /\ LinkProper' /\ WritesProper'
    BY <1>1, <1>3 DEF IInv, StoreProper, Storing, StoredIdsUsed, Stored, LinkProper,
       WritesProper, ProperWrite
  <1> QED BY <1>5, <1>6, <1>7 DEF Orderly

\* A new endpoint has the packets of the old one, with their ids, and nothing else.
LEMMA RestartKeeps ==
  ASSUME IInv, Restart
  PROVE  Orderly' /\ WritesProper' /\ StoreProper' /\ LinkProper'
  <1>1. /\ link' = "down" /\ c2s' = <<>> /\ s2c' = <<>> /\ writing' = <<>>
        /\ status' = "closed" /\ store' = store /\ free' = Ids \ {p.pid : p \in Stored}
    BY DEF Restart, RestorePackets, GetStoredPackets, Registered, Initialize, Stored, LinkDown, wire, IInv, LinkProper
  <1>2. Orderly'
    BY <1>1, EmptyPipe DEF Orderly, Pipe
  <1>3. WritesProper' /\ LinkProper'
    BY <1>1, EmptyPipe DEF WritesProper, LinkProper
  <1>4. StoreProper'
    BY <1>1 DEF IInv, StoreProper, StoredIdsUsed, Stored, Storing
  <1> QED BY <1>2, <1>3, <1>4

\* A stored PUBLISH expires: its id stays in use, and what is in flight is not about
\* any other stored packet than before.
LEMMA ExpireKeeps ==
  ASSUME IInv, Expire
  PROVE  Orderly' /\ WritesProper' /\ StoreProper' /\ LinkProper'
  <1>1. /\ free' = free /\ status' = status /\ puback' = puback /\ pubrec' = pubrec
        /\ pubcomp' = pubcomp /\ needStore' = needStore /\ writing' = writing
        /\ link' = link /\ c2s' = c2s /\ s2c' = s2c
    BY DEF Expire, awaits, wire
  <1>2. store \in Seq(StoredPackets) /\ UniqueIds(store)
    BY TypedParts DEF IInv, Queues, StoreProper, Storing
  <1>3. PICK i \in DOMAIN store : store' = StoreErase(store, Response(store[i]), store[i].pid)
    BY DEF Expire
  <1>4. /\ UniqueIds(store') /\ ToSet(store') \subseteq ToSet(store)
        /\ store = <<>> => store' = <<>>
    BY <1>2, <1>3, Erased
  <1>5. Pipe' = Pipe
    BY <1>1 DEF Pipe
  <1>6. ASSUME NEW p \in ToSet(Pipe) PROVE Proper(p)'
    BY <1>1, <1>4 DEF IInv, Orderly, Proper, Awaited, Fits
  <1>7. Orderly' /\ WritesProper' /\ LinkProper'
    BY <1>1, <1>5, <1>6 DEF IInv, Orderly, WritesProper, ProperWrite, LinkProper
  <1>8. StoreProper'
    BY <1>1, <1>4 DEF IInv, StoreProper, StoredIdsUsed, Stored, Storing
  <1> QED BY <1>7, <1>8
-------------------------------------------------------------------------------
\* An answer of the server is proper when the packet it answers is.
LEMMA AnswerKeeps ==
  ASSUME IInv, NEW t, Arrived(t), NEW r \in ServerPackets, Reply(r),
         UNCHANGED <<client, writing>>,
         Carries(Head(c2s)), Subject(r) = Subject(Head(c2s)),
         Proper(Head(c2s)) => Proper(r)
  PROVE  Orderly' /\ WritesProper' /\ StoreProper' /\ LinkProper'
  <1>1. /\ s2c \in Seq(Packets) /\ c2s \in Seq(Packets) /\ writing \in Seq(Writes)
        /\ r \in Packets
    BY PipeTyped DEF IInv, Packets
  <1>2. /\ c2s # <<>> /\ s2c' = Append(s2c, r) /\ c2s' = Tail(c2s)
        /\ link' = link /\ link = "up"
        /\ writing' = writing /\ free' = free /\ status' = status /\ store' = store
        /\ puback' = puback /\ pubrec' = pubrec /\ pubcomp' = pubcomp /\ needStore' = needStore
    BY DEF Arrived, Reply, client
  <1>3. Pipe' = PipeOf(Append(s2c, r), Tail(c2s), writing) /\ Pipe = PipeOf(s2c, c2s, writing)
    BY <1>2 DEF Pipe
  <1>4. /\ Distinct(Pipe') /\ ToSet(Pipe') \subseteq ToSet(Pipe) \cup {r}
        /\ Head(c2s) \in ToSet(Pipe)
    BY <1>1, <1>2, <1>3, PipeAnswers DEF IInv, Orderly
  <1>5. ASSUME NEW p \in ToSet(Pipe') PROVE Proper(p)'
    <2>1. Proper(p)
      BY <1>4 DEF IInv, Orderly
    <2> QED BY <1>2, <2>1 DEF Proper, Awaited
  <1>6. StoreProper' /\ LinkProper' /\ WritesProper'
    BY <1>2 DEF IInv, StoreProper, Storing, StoredIdsUsed, Stored, LinkProper,
       WritesProper, ProperWrite
  <1> QED BY <1>4, <1>5, <1>6 DEF Orderly

\* What the server does.
LEMMA ServerKeeps ==
  ASSUME IInv, Server
  PROVE  Orderly' /\ WritesProper' /\ StoreProper' /\ LinkProper'
  <1> DEFINE p == Head(c2s)
  <1>1. p \in ClientPackets \/ c2s = <<>>
    BY PipeTyped DEF IInv
  <1>2. CASE ServerConnect
    <2>1. Arrived("connect") /\ Reply(Connack(session /\ ~p.clean))
          /\ UNCHANGED <<client, writing>>
      BY <1>2 DEF ServerConnect
    <2>2. PICK r \in ServerPackets : r = Connack(session /\ ~p.clean) /\ r.type = "connack"
      BY Sendable DEF Connack
    <2>3. p.type = "connect" /\ Carries(p) /\ Subject(p) = 0 /\ Carries(r) /\ Subject(r) = 0
      BY <2>1, <2>2 DEF Arrived, Carries, Subject
    <2>4. Proper(p) => Proper(r)
      BY <2>3 DEF Proper
    <2> QED BY <2>1, <2>2, <2>3, <2>4, AnswerKeeps
  <1>3. CASE ServerPublishQos1
    <2>1. Arrived("publish") /\ Reply(Ack("puback", p.pid))
          /\ UNCHANGED <<client, writing>>
          /\ p.qos = 1
      BY <1>3 DEF ServerPublishQos1
    <2>2. p.pid \in Ids
      BY <1>1, <2>1, ClientPacket DEF Arrived
    <2>3. PICK r \in ServerPackets : r = Ack("puback", p.pid) /\ r.type = "puback"
            /\ r.pid = p.pid
      BY <2>2, Sendable DEF Ack, Packet
    <2>4. p.type = "publish" /\ Carries(p) /\ Subject(p) = p.pid
          /\ Carries(r) /\ Subject(r) = p.pid
      BY <2>1, <2>3 DEF Arrived, Carries, Subject
    <2>5. Proper(p) => Proper(r)
      BY <2>1, <2>3, <2>4 DEF Proper, Awaited, Fits
    <2> QED BY <2>1, <2>3, <2>4, <2>5, AnswerKeeps
  <1>4. CASE ServerPublishQos2 \/ ServerRefuseQos2
    <2>1. PICK e \in BOOLEAN : Reply(Pubrec(p.pid, e))
      BY <1>4 DEF ServerPublishQos2, ServerRefuseQos2
    <2>2. Arrived("publish") /\ p.qos = 2
          /\ UNCHANGED <<client, writing>>
      BY <1>4 DEF ServerPublishQos2, ServerRefuseQos2
    <2>3. p.pid \in Ids
      BY <1>1, <2>2, ClientPacket DEF Arrived
    <2>4. PICK r \in ServerPackets : r = Pubrec(p.pid, e) /\ r.type = "pubrec"
            /\ r.pid = p.pid
      BY <2>3, Sendable DEF Pubrec
    <2>5. p.type = "publish" /\ Carries(p) /\ Subject(p) = p.pid
          /\ Carries(r) /\ Subject(r) = p.pid
      BY <2>2, <2>4 DEF Arrived, Carries, Subject
    <2>6. Proper(p) => Proper(r)
      BY <2>2, <2>4, <2>5 DEF Proper, Awaited, Fits
    <2> QED BY <2>1, <2>2, <2>4, <2>5, <2>6, AnswerKeeps
  <1>5. CASE ServerPubrel
    <2>1. Arrived("pubrel") /\ Reply(Ack("pubcomp", p.pid))
          /\ UNCHANGED <<client, writing>>
      BY <1>5 DEF ServerPubrel
    <2>2. p.pid \in Ids
      BY <1>1, <2>1, ClientPacket DEF Arrived
    <2>3. PICK r \in ServerPackets : r = Ack("pubcomp", p.pid) /\ r.type = "pubcomp"
            /\ r.pid = p.pid
      BY <2>2, Sendable DEF Ack, Packet
    <2>4. p.type = "pubrel" /\ Carries(p) /\ Subject(p) = p.pid
          /\ Carries(r) /\ Subject(r) = p.pid
      BY <2>1, <2>3 DEF Arrived, Carries, Subject
    <2>5. Proper(p) => Proper(r)
      BY <2>3, <2>4 DEF Proper, Awaited, Fits
    <2> QED BY <2>1, <2>3, <2>4, <2>5, AnswerKeeps
  <1>6. CASE ServerSubscribe
    <2>1. Arrived("subscribe") /\ Reply(Ack("suback", p.pid))
          /\ UNCHANGED <<client, writing>>
      BY <1>6 DEF ServerSubscribe
    <2>2. p.pid \in Ids
      BY <1>1, <2>1, ClientPacket DEF Arrived
    <2>3. PICK r \in ServerPackets : r = Ack("suback", p.pid) /\ r.type = "suback"
            /\ r.pid = p.pid
      BY <2>2, Sendable DEF Ack, Packet
    <2>4. p.type = "subscribe" /\ Carries(p) /\ Subject(p) = p.pid
          /\ Carries(r) /\ Subject(r) = p.pid
      BY <2>1, <2>3 DEF Arrived, Carries, Subject
    <2>5. Proper(p) => Proper(r)
      BY <2>3, <2>4 DEF Proper, Awaited, Fits
    <2> QED BY <2>1, <2>3, <2>4, <2>5, AnswerKeeps
  <1> QED BY <1>2, <1>3, <1>4, <1>5, <1>6, EndKeeps DEF Server
-------------------------------------------------------------------------------
\* The packet that the endpoint receives, and the pipe without it.
LEMMA Consumed ==
  ASSUME IInv, NEW t, Received(t), Consume
  PROVE  /\ Head(s2c) \in ServerPackets /\ Head(s2c).type = t
         /\ Carries(Head(s2c)) => Proper(Head(s2c))
         /\ link = "up" /\ link' = link /\ c2s' = c2s /\ s2c' = Tail(s2c)
         /\ s2c' \in Seq(Packets) /\ c2s \in Seq(Packets) /\ writing \in Seq(Writes)
         /\ Distinct(PipeOf(s2c', c2s, writing))
         /\ ToSet(PipeOf(s2c', c2s, writing)) \subseteq ToSet(Pipe)
         /\ \A p \in ToSet(PipeOf(s2c', c2s, writing)) :
              Carries(p) /\ Carries(Head(s2c)) => Subject(p) # Subject(Head(s2c))
  <1>1. /\ s2c \in Seq(Packets) /\ c2s \in Seq(Packets) /\ writing \in Seq(Writes) /\ s2c # <<>>
        /\ Head(s2c) \in ServerPackets /\ Head(s2c).type = t
    BY PipeTyped DEF IInv, Received
  <1>2. link = "up" /\ link' = link /\ c2s' = c2s /\ s2c' = Tail(s2c)
    BY DEF Received, Consume
  <1>3. Distinct(PipeOf(s2c, c2s, writing)) /\ Pipe = PipeOf(s2c, c2s, writing)
    BY DEF IInv, Orderly, Pipe
  <1>4. /\ Tail(s2c) \in Seq(Packets) /\ Distinct(PipeOf(Tail(s2c), c2s, writing))
        /\ ToSet(PipeOf(Tail(s2c), c2s, writing)) \subseteq ToSet(Pipe)
        /\ Head(s2c) \in ToSet(Pipe)
        /\ \A p \in ToSet(PipeOf(Tail(s2c), c2s, writing)) :
             Carries(p) /\ Carries(Head(s2c)) => Subject(p) # Subject(Head(s2c))
    BY <1>1, <1>3, PipeReceives
  <1>5. Proper(Head(s2c))
    BY <1>4 DEF IInv, Orderly
  <1> QED BY <1>1, <1>2, <1>4, <1>5

\* An ack of id pid: only this id may be released, no longer be awaited, or get another
\* stored packet, and only its next packet may be sent.
LEMMA AckKeeps ==
  ASSUME IInv, NEW t, Received(t), Consume, NEW pid \in Ids,
         Carries(Head(s2c)), Subject(Head(s2c)) = pid,
         status' = status, needStore' = needStore, free' \subseteq free \cup {pid},
         puback \subseteq puback' \cup {pid}, pubrec \subseteq pubrec' \cup {pid},
         pubcomp \subseteq pubcomp' \cup {pid},
         UniqueIds(store'), store = <<>> /\ ~needStore => store' = <<>>,
         \A e \in ToSet(store') : IF e.pid = pid THEN pid \notin free' ELSE e \in ToSet(store),
         NEW x, \/ writing' = writing
                \/ /\ writing' = Append(writing, x) /\ x \in Writes /\ ProperWrite(x)
                   /\ Carries(x.packet) /\ Subject(x.packet) = pid /\ Proper(x.packet)'
  PROVE  Orderly' /\ WritesProper' /\ StoreProper' /\ LinkProper'
  <1>1. /\ Proper(Head(s2c))
        /\ link = "up" /\ link' = link /\ c2s' = c2s /\ s2c' = Tail(s2c)
        /\ s2c' \in Seq(Packets) /\ c2s \in Seq(Packets) /\ writing \in Seq(Writes)
        /\ Distinct(PipeOf(s2c', c2s, writing))
        /\ ToSet(PipeOf(s2c', c2s, writing)) \subseteq ToSet(Pipe)
        /\ \A p \in ToSet(PipeOf(s2c', c2s, writing)) : Carries(p) => Subject(p) # pid
    BY Consumed
  <1>2. PICK rest : rest = PipeOf(s2c', c2s, writing)
    OBVIOUS
  <1>3. ASSUME NEW r \in ToSet(rest) PROVE Proper(r)'
    <2>1. Proper(r) /\ r \in Packets /\ (Carries(r) => Subject(r) # pid)
      BY <1>1, <1>2, <1>3, PipeOfTyped DEF IInv, Orderly
    <2>2. status # "connecting"
      <3>1. pid # 0
        BY DEF Ids
      <3> QED BY <1>1, <3>1 DEF Proper
    <2>3. ASSUME Carries(r), Subject(r) # 0
          PROVE  /\ r.pid \notin free' /\ status' # "connecting"
                 /\ r.pid \in puback => r.pid \in puback'
                 /\ r.pid \in pubrec => r.pid \in pubrec'
                 /\ r.pid \in pubcomp => r.pid \in pubcomp'
                 /\ \A e \in ToSet(store') : e.pid = r.pid => e \in ToSet(store)
      <3>1. r.pid # pid
        BY <2>1, <2>3, SubjectOf
      <3> QED BY <2>1, <2>2, <2>3, <3>1 DEF Proper
    <2>4. ~(Carries(r) /\ Subject(r) = 0)
      BY <1>1, <2>1, <2>2 DEF Proper
    <2> QED BY <2>1, <2>3, <2>4, StaysProper
  <1>4. Orderly' /\ WritesProper'
    <2>1. CASE writing' = writing
      <3>1. Pipe' = rest
        BY <1>1, <1>2, <2>1 DEF Pipe
      <3> QED BY <1>1, <1>2, <1>3, <2>1, <3>1 DEF IInv, Orderly, WritesProper, ProperWrite
    <2>2. CASE /\ writing' = Append(writing, x) /\ x \in Writes /\ ProperWrite(x)
               /\ Carries(x.packet) /\ Subject(x.packet) = pid /\ Proper(x.packet)'
      <3>1. Pipe' = PipeOf(s2c', c2s, Append(writing, x))
        BY <1>1, <2>2 DEF Pipe
      <3>2. /\ Distinct(PipeOf(s2c', c2s, Append(writing, x)))
            /\ ToSet(PipeOf(s2c', c2s, Append(writing, x))) = ToSet(rest) \cup {x.packet}
        <4>1. PICK s \in Seq(Packets) : s = s2c'
          BY <1>1
        <4>2. Distinct(PipeOf(s, c2s, writing)) /\ rest = PipeOf(s, c2s, writing)
          BY <1>1, <1>2, <4>1
        <4>3. \A p \in ToSet(PipeOf(s, c2s, writing)) :
                Carries(p) /\ Carries(x.packet) => Subject(p) # Subject(x.packet)
          BY <1>1, <2>2, <4>1
        <4>4. /\ Distinct(PipeOf(s, c2s, Append(writing, x)))
              /\ ToSet(PipeOf(s, c2s, Append(writing, x))) =
                   ToSet(PipeOf(s, c2s, writing)) \cup {x.packet}
          BY <1>1, <2>2, <4>2, <4>3, PipeSends
        <4> QED BY <4>1, <4>2, <4>4
      <3>3. Orderly'
        BY <1>3, <2>2, <3>1, <3>2 DEF Orderly
      <3>4. ToSet(writing') = ToSet(writing) \cup {x}
        BY <1>1, <2>2, Elements
      <3> QED BY <2>2, <3>3, <3>4 DEF IInv, WritesProper, ProperWrite
    <2> QED BY <2>1, <2>2
  <1>5. StoreProper'
    <2>1. StoredIdsUsed'
      BY DEF IInv, StoreProper, Storing, StoredIdsUsed, Stored
    <2>2. Storing'
      BY <1>1 DEF IInv, StoreProper, Storing, LinkProper, Open
    <2> QED BY <2>1, <2>2 DEF StoreProper
  <1>6. LinkProper'
    BY <1>1 DEF IInv, LinkProper
  <1> QED BY <1>4, <1>5, <1>6

\* The stored packet of an awaited id, and the store without it.
LEMMA ErasedKeeps ==
  ASSUME IInv, NEW r, NEW pid \in Ids,
         \A e \in ToSet(store) : e.pid = pid => Response(e) = r
  PROVE  LET rest == StoreErase(store, r, pid)
         IN /\ rest \in Seq(StoredPackets) /\ UniqueIds(rest) /\ (store = <<>> => rest = <<>>)
            /\ \A e \in ToSet(rest) : e \in ToSet(store) /\ e.pid # pid
  <1>1. store \in Seq(StoredPackets) /\ UniqueIds(store)
    BY TypedParts DEF IInv, Queues, StoreProper, Storing
  <1> QED BY <1>1, Erased

\* PUBACK releases the id of the stored QoS 1 PUBLISH it acknowledges.
LEMMA PubackKeeps ==
  ASSUME IInv, RecvPuback
  PROVE  Orderly' /\ WritesProper' /\ StoreProper' /\ LinkProper'
  <1>1. Received("puback") /\ Consume
    BY DEF RecvPuback
  <1>2. Head(s2c) \in ServerPackets /\ Head(s2c).type = "puback" /\ Carries(Head(s2c))
        /\ Proper(Head(s2c))
    BY <1>1, Consumed DEF Carries
  <1>3. PICK pid \in Ids : pid = Head(s2c).pid /\ Subject(Head(s2c)) = pid /\ pid # 0
    BY <1>2, ServerPacket DEF Subject, Ids
  <1>4. pid \in puback
    BY <1>2, <1>3 DEF Proper, Awaited
  <1>5. /\ puback' = puback \ {pid} /\ free' = free \cup {pid} /\ writing' = writing
        /\ store' = StoreErase(store, "puback", pid) /\ status' = status
        /\ pubrec' = pubrec /\ pubcomp' = pubcomp /\ needStore' = needStore
    BY <1>3, <1>4 DEF RecvPuback
  <1>6. \A e \in ToSet(store) : e.pid = pid => Response(e) = "puback"
    BY <1>2, <1>3 DEF Proper, Fits, Response
  <1>7. /\ UniqueIds(store') /\ (store = <<>> => store' = <<>>)
        /\ \A e \in ToSet(store') : e \in ToSet(store) /\ e.pid # pid
    BY <1>5, <1>6, ErasedKeeps
  <1> QED BY <1>1, <1>2, <1>3, <1>5, <1>7, AckKeeps

\* PUBREC takes the PUBLISH out of the store; the id stays in use for the PUBREL, or
\* is released when the server refuses the message.
LEMMA PubrecKeeps ==
  ASSUME IInv, RecvPubrec
  PROVE  Orderly' /\ WritesProper' /\ StoreProper' /\ LinkProper'
  <1>1. Received("pubrec") /\ Consume
    BY DEF RecvPubrec
  <1>2. Head(s2c) \in ServerPackets /\ Head(s2c).type = "pubrec" /\ Carries(Head(s2c))
        /\ Proper(Head(s2c))
    BY <1>1, Consumed DEF Carries
  <1>3. PICK pid \in Ids : pid = Head(s2c).pid /\ Subject(Head(s2c)) = pid /\ pid # 0
    BY <1>2, ServerPacket DEF Subject, Ids
  <1>4. pid \in pubrec /\ pid \notin free
    BY <1>2, <1>3 DEF Proper, Awaited
  <1> DEFINE release == ~Head(s2c).err /\ status = "connected"
             p == Pubrel(pid)
             x == Write(p, FALSE)
  <1>5. PICK rest : rest = StoreErase(store, "pubrec", pid)
    OBVIOUS
  <1>6. /\ pubrec' = pubrec \ {pid} /\ status' = status
        /\ free' = IF Head(s2c).err THEN free \cup {pid} ELSE free
        /\ store' = IF release /\ needStore THEN StoreAdd(rest, p) ELSE rest
        /\ pubcomp' = IF release THEN pubcomp \cup {pid} ELSE pubcomp
        /\ writing' = IF release THEN Append(writing, x) ELSE writing
        /\ puback' = puback /\ needStore' = needStore
    BY <1>3, <1>4, <1>5 DEF RecvPubrec
  <1>7. /\ p \in StoredPackets /\ p.pid = pid /\ p.type = "pubrel" /\ x \in Writes
        /\ x.packet = p /\ x.rel = FALSE
    BY Sendable DEF Pubrel, Packet, Write
  <1> HIDE DEF p, x
  <1>8. \A e \in ToSet(store) : e.pid = pid => Response(e) = "pubrec"
    BY <1>2, <1>3 DEF Proper, Fits, Response
  <1>9. /\ rest \in Seq(StoredPackets) /\ UniqueIds(rest) /\ (store = <<>> => rest = <<>>)
        /\ \A e \in ToSet(rest) : e \in ToSet(store) /\ e.pid # pid
    BY <1>5, <1>8, ErasedKeeps
  <1>10. /\ UniqueIds(StoreAdd(rest, p))
         /\ ToSet(StoreAdd(rest, p)) \subseteq ToSet(rest) \cup {p}
    BY <1>7, <1>9, Added
  <1>11. /\ UniqueIds(store') /\ (store = <<>> /\ ~needStore => store' = <<>>)
         /\ \A e \in ToSet(store') : e \in ToSet(rest) \/ (e = p /\ release)
    BY <1>6, <1>9, <1>10
  <1>12. \A e \in ToSet(store') : IF e.pid = pid THEN pid \notin free' ELSE e \in ToSet(store)
    BY <1>4, <1>6, <1>7, <1>9, <1>11
  <1>13. ASSUME release
         PROVE  /\ ProperWrite(x) /\ Proper(x.packet)'
                /\ Carries(x.packet) /\ Subject(x.packet) = pid
    <2>1. Carries(p) /\ Subject(p) = pid
      BY <1>7 DEF Carries, Subject
    <2>2. pid \notin free' /\ status' # "connecting" /\ pid \in pubcomp'
      BY <1>4, <1>6, <1>13
    <2>3. ASSUME NEW e \in ToSet(store'), e.pid = pid PROVE Fits(p, e)
      <3>1. e = p
        BY <1>9, <1>11, <2>3
      <3> QED BY <1>7, <3>1 DEF Fits
    <2>4. Proper(p)'
      BY <1>3, <1>7, <2>1, <2>2, <2>3 DEF Proper, Awaited
    <2> QED BY <1>7, <2>1, <2>4 DEF ProperWrite
  <1>14. writing' = writing \/ (release /\ writing' = Append(writing, x))
    BY <1>6
  <1>15. free' \subseteq free \cup {pid}
    BY <1>6
  <1>16. puback \subseteq puback' \cup {pid} /\ pubrec \subseteq pubrec' \cup {pid}
         /\ pubcomp \subseteq pubcomp' \cup {pid}
    BY <1>6
  <1> HIDE DEF release
  <1>17. status' = status /\ needStore' = needStore
    BY <1>6
  <1> QED
    BY <1>1, <1>2, <1>3, <1>7, <1>11, <1>12, <1>13, <1>14, <1>15, <1>16, <1>17, AckKeeps

\* PUBCOMP releases the id of the stored PUBREL.
LEMMA PubcompKeeps ==
  ASSUME IInv, RecvPubcomp
  PROVE  Orderly' /\ WritesProper' /\ StoreProper' /\ LinkProper'
  <1>1. Received("pubcomp") /\ Consume
    BY DEF RecvPubcomp
  <1>2. Head(s2c) \in ServerPackets /\ Head(s2c).type = "pubcomp" /\ Carries(Head(s2c))
        /\ Proper(Head(s2c))
    BY <1>1, Consumed DEF Carries
  <1>3. PICK pid \in Ids : pid = Head(s2c).pid /\ Subject(Head(s2c)) = pid /\ pid # 0
    BY <1>2, ServerPacket DEF Subject, Ids
  <1>4. pid \in pubcomp
    BY <1>2, <1>3 DEF Proper, Awaited
  <1>5. /\ pubcomp' = pubcomp \ {pid} /\ free' = free \cup {pid} /\ writing' = writing
        /\ store' = StoreErase(store, "pubcomp", pid) /\ status' = status
        /\ puback' = puback /\ pubrec' = pubrec /\ needStore' = needStore
    BY <1>3, <1>4 DEF RecvPubcomp
  <1>6. ASSUME NEW e \in ToSet(store), e.pid = pid PROVE Response(e) = "pubcomp"
    <2>1. Fits(Head(s2c), e)
      BY <1>2, <1>3, <1>6 DEF Proper
    <2>2. e.type = "pubrel"
      BY <1>2, <2>1 DEF Fits
    <2>3. e \in StoredPackets
      BY PipeTyped DEF IInv
    <2>4. e.qos = 2
      BY <2>2, <2>3, StoredPacket DEF Pubrel, Packet
    <2> QED BY <2>2, <2>4 DEF Response
  <1>7. /\ UniqueIds(store') /\ (store = <<>> => store' = <<>>)
        /\ \A e \in ToSet(store') : e \in ToSet(store) /\ e.pid # pid
    BY <1>5, <1>6, ErasedKeeps
  <1> QED BY <1>1, <1>2, <1>3, <1>5, <1>7, AckKeeps

\* SUBACK releases an id that no stored packet has.
LEMMA SubackKeeps ==
  ASSUME IInv, RecvSuback
  PROVE  Orderly' /\ WritesProper' /\ StoreProper' /\ LinkProper'
  <1>1. Received("suback") /\ Consume
    BY DEF RecvSuback
  <1>2. Head(s2c) \in ServerPackets /\ Head(s2c).type = "suback" /\ Carries(Head(s2c))
        /\ Proper(Head(s2c))
    BY <1>1, Consumed DEF Carries
  <1>3. PICK pid \in Ids : pid = Head(s2c).pid /\ Subject(Head(s2c)) = pid /\ pid # 0
    BY <1>2, ServerPacket DEF Subject, Ids
  <1>4. /\ free' \subseteq free \cup {pid} /\ store' = store /\ writing' = writing
        /\ status' = status /\ puback' = puback /\ pubrec' = pubrec /\ pubcomp' = pubcomp
        /\ needStore' = needStore
    BY <1>3 DEF RecvSuback
  <1>5. UniqueIds(store') /\ \A e \in ToSet(store') : e.pid # pid /\ e \in ToSet(store)
    BY <1>2, <1>3, <1>4 DEF Proper, Fits, IInv, StoreProper, Storing
  <1> QED BY <1>1, <1>2, <1>3, <1>4, <1>5, AckKeeps

\* CONNACK with session present resends the stored packets: nothing else with an id is
\* in flight then.  Without it, every id is free again and nothing is stored.
LEMMA ConnackKeeps ==
  ASSUME IInv, RecvConnack
  PROVE  Orderly' /\ WritesProper' /\ StoreProper' /\ LinkProper'
  <1> DEFINE h == Head(s2c)
             rest == PipeOf(s2c', c2s, writing)
  <1>1. Received("connack") /\ Consume /\ Typed
    BY DEF RecvConnack, IInv
  <1>2. /\ h \in ServerPackets /\ h.type = "connack" /\ Carries(h) /\ Proper(h)
        /\ Subject(h) = 0
        /\ link = "up" /\ link' = link /\ c2s' = c2s
        /\ s2c' \in Seq(Packets) /\ c2s \in Seq(Packets) /\ writing \in Seq(Writes)
        /\ Distinct(rest) /\ ToSet(rest) \subseteq ToSet(Pipe)
        /\ \A p \in ToSet(rest) : Carries(p) => Subject(p) # 0
    BY <1>1, Consumed DEF Carries, Subject
  <1>3. status = "connecting"
    BY <1>2 DEF Proper
  <1>4. \A p \in ToSet(rest) : ~Carries(p)
    BY <1>2, <1>3 DEF IInv, Orderly, Proper
  <1>5. status' = "connected" /\ needStore' = needStore
    BY DEF RecvConnack
  <1>6. LinkProper'
    BY <1>2, <1>5 DEF LinkProper, Open
  <1>7. CASE ~h.sp
    <2>1. store' = <<>> /\ writing' = writing
      BY <1>7 DEF RecvConnack
    <2>2. Pipe' = rest
      BY <1>2, <2>1 DEF Pipe
    <2>3. Orderly'
      BY <1>2, <1>4, <2>2 DEF Orderly, Proper
    <2>4. StoreProper' /\ WritesProper'
      BY <1>5, <2>1, EmptyPipe
      DEF StoreProper, Storing, UniqueIds, StoredIdsUsed, Stored, IInv, WritesProper, ProperWrite
    <2> QED BY <1>6, <2>3, <2>4
  <1>8. CASE h.sp
    <2>1. PICK kept \in Remaining(store) :
            /\ Await({p \in ToSet(kept) : p.type = "publish"})
            /\ pubcomp' = pubcomp \cup {p.pid : p \in {q \in ToSet(kept) : q.type = "pubrel"}}
            /\ writing' = writing \o Resent(kept) /\ store' = kept
            /\ free' = free \cup {p.pid : p \in Stored \ ToSet(kept)}
      BY <1>8 DEF RecvConnack
    <2>2. store \in Seq(StoredPackets) /\ needStore \in BOOLEAN /\ UniqueIds(store)
      BY <1>1, TypedParts DEF Queues, Ranges, IInv, StoreProper
    <2>3. /\ kept \in Seq(StoredPackets) /\ ToSet(kept) \subseteq ToSet(store)
          /\ UniqueIds(kept) /\ (store = <<>> => kept = <<>>)
      BY <2>2, RemainingStore
    <2>4. /\ Resent(kept) \in Seq(Writes) /\ PacketsOf(Resent(kept)) = kept
          /\ \A w \in ToSet(Resent(kept)) : w.rel => w.packet.type = "publish" /\ ~needStore
      BY <2>2, <2>3, ResentPackets
    <2>5. ToSet(kept) \subseteq StoredPackets /\ kept \in Seq(Packets)
      <3>1. StoredPackets \subseteq Packets
        BY StoredPacket DEF Packets
      <3>2. ToSet(store) \subseteq StoredPackets
        BY <1>1, PipeTyped
      <3> QED BY <2>3, <3>1, <3>2, SeqMonotonic
    <2>6. \A e \in ToSet(kept) :
            /\ e.type \in {"publish", "pubrel"} /\ e.pid \in Ids /\ e.pid # 0
            /\ Carries(e) /\ Subject(e) = e.pid
            /\ e.type = "publish" => e.qos \in {1, 2}
      BY <2>5, StoredPacket DEF Carries, Subject, Ids
    <2>7. Pipe' = rest \o kept
      <3>1. PICK s \in Seq(Packets) : s = s2c'
        BY <1>2
      <3>2. PipeOf(s, c2s, writing \o Resent(kept)) =
              PipeOf(s, c2s, writing) \o PacketsOf(Resent(kept))
        BY <1>2, <2>4, PipeConcat
      <3> QED BY <1>2, <2>1, <2>4, <3>1, <3>2 DEF Pipe
    <2>8. rest \in Seq(Packets)
      <3>1. PICK s \in Seq(Packets) : s = s2c'
        BY <1>2
      <3> QED BY <1>2, <3>1, PipeElements
    <2>9. Distinct(kept)
      <3>1. \A i \in DOMAIN kept : kept[i] \in ToSet(kept)
        BY DEF ToSet
      <3> QED BY <2>3, <2>6, <3>1 DEF UniqueIds, Distinct
    <2>10. Distinct(Pipe') /\ ToSet(Pipe') = ToSet(rest) \cup ToSet(kept)
      <3>1. PICK r \in Seq(Packets) : r = rest
        BY <2>8
      <3>2. Distinct(r) /\ \A p \in ToSet(r) : ~Carries(p)
        BY <1>2, <1>4, <3>1
      <3>3. Distinct(r \o kept)
        BY <2>5, <2>9, <3>2, DistinctConcat
      <3>4. ToSet(r \o kept) = ToSet(r) \cup ToSet(kept)
        BY <2>5, ConcatElements
      <3> QED BY <2>7, <3>1, <3>3, <3>4
    <2>11. \A e \in ToSet(kept) : e.pid \notin free'
      <3>1. \A e, d \in ToSet(store) : e.pid = d.pid => e = d
        BY <2>2 DEF UniqueIds, ToSet
      <3>2. \A e \in ToSet(store) : e.pid \notin free
        BY DEF IInv, StoreProper, StoredIdsUsed, Stored
      <3> QED BY <2>1, <2>3, <3>1, <3>2 DEF Stored
    <2>12. ASSUME NEW e \in ToSet(kept) PROVE Proper(e)'
      <3>1. Awaited(e)'
        BY <2>1, <2>6 DEF Awaited, Await
      <3>2. ASSUME NEW d \in ToSet(store'), d.pid = e.pid PROVE Fits(e, d)
        <4>1. d = e
          BY <2>1, <2>3, <3>2 DEF UniqueIds, ToSet
        <4> QED BY <2>6, <4>1 DEF Fits
      <3> QED BY <1>5, <2>6, <2>11, <3>1, <3>2 DEF Proper
    <2>13. Orderly'
      BY <1>4, <2>10, <2>12 DEF Orderly, Proper
    <2>14. WritesProper'
      <3>1. ToSet(writing') = ToSet(writing) \cup ToSet(Resent(kept))
        BY <1>2, <2>1, <2>4, ConcatElements
      <3> QED BY <1>5, <2>4, <3>1 DEF IInv, WritesProper, ProperWrite
    <2>15. StoreProper'
      <3>1. Storing'
        BY <1>3, <1>5, <2>1, <2>3 DEF IInv, StoreProper, Storing
      <3> QED BY <2>1, <2>3, <2>11, <3>1 DEF StoreProper, StoredIdsUsed, Stored
    <2> QED BY <1>6, <2>13, <2>14, <2>15
  <1> QED BY <1>7, <1>8
-------------------------------------------------------------------------------
\* Every step keeps the inductive invariant.
LEMMA NextInvariant ==
  ASSUME WellUsed, IInv, [Next]_vars
  PROVE  IInv'
  <1>1. Typed'
    BY NextTyped DEF IInv
  <1>2. Orderly' /\ WritesProper' /\ StoreProper' /\ LinkProper'
    <2>1. CASE Library
      BY <2>1, WriteCompleteKeeps, WriteErrorKeeps, EndKeeps, ConnackKeeps, PubackKeeps,
         PubrecKeeps, PubcompKeeps, SubackKeeps DEF Library
    <2>2. CASE Server
      BY <2>2, ServerKeeps
    <2>3. CASE Application
      BY <2>3, ConnectKeeps, PublishKeeps, SubscribeKeeps, DisconnectKeeps, EndKeeps
      DEF Application
    <2>4. CASE Break \/ ServerExpire \/ Restart \/ Expire
      BY <2>4, EndKeeps, RestartKeeps, ExpireKeeps
    <2>5. CASE UNCHANGED vars
      BY <2>5 DEF vars, client, wire, server, IInv, Orderly, Pipe, Proper, Awaited,
         WritesProper, ProperWrite, StoreProper, Storing, StoredIdsUsed, Stored, LinkProper
    <2> QED BY <2>1, <2>2, <2>3, <2>4, <2>5 DEF Next
  <1> QED BY <1>1, <1>2 DEF IInv

\* An endpoint that is used well keeps the inductive invariant.
THEOREM Invariance == ASSUME WellUsed PROVE Spec => []IInv
  <1>1. IInv /\ [Next]_vars => IInv'
    BY NextInvariant
  <1> QED BY <1>1, InitInvariant, PTL DEF Spec

\* The state has its types, however the endpoint is used (TypeOK is about the
\* variables of the endpoint, the server and the messages).
THEOREM TypeCorrect == Spec => []TypeOK
  <1>1. Typed => TypeOK
    BY DEF Typed
  <1> QED BY <1>1, InitTyped, NextTyped, PTL DEF Spec

\* No vacant id belongs to a stored packet: a new packet never gets the id of one
\* that is still to be resent.
THEOREM StoredIdsAreUsed == ASSUME WellUsed PROVE Spec => []StoredIdsUsed
  <1>1. IInv => StoredIdsUsed
    BY DEF IInv, StoreProper, Storing
  <1> QED BY <1>1, Invariance, PTL

\* No ack of the server is taken for a protocol error.
THEOREM AcksAreExpected == ASSUME WellUsed PROVE Spec => []AcksExpected
  <1>1. IInv => AcksExpected
    <2> SUFFICES ASSUME IInv, NEW i \in DOMAIN s2c,
                        s2c[i].type \in {"puback", "pubrec", "pubcomp"}
                 PROVE  Awaited(s2c[i])
      BY DEF AcksExpected, Awaited
    <2>1. s2c[i] \in ToSet(s2c)
      BY DEF ToSet
    <2>2. s2c[i] \in ServerPackets
      BY TypedParts DEF IInv, Queues
    <2>3. Carries(s2c[i]) /\ Subject(s2c[i]) # 0
      BY <2>2, ServerPacket DEF Carries, Subject, Ids
    <2>4. Proper(s2c[i])
      BY <2>1, PipeOfTyped DEF IInv, Orderly
    <2> QED BY <2>3, <2>4 DEF Proper
  <1> QED BY <1>1, Invariance, PTL

\* A packet id serves one message at a time: among the stored packets, those that
\* send_ops write and those on the wire.
THEOREM OneMessageForAnId == ASSUME WellUsed PROVE Spec => []OneMessagePerId
  <1>1. IInv => OneMessagePerId
    <2> SUFFICES ASSUME IInv, NEW p \in Publishes, NEW q \in Publishes, p.pid = q.pid
                 PROVE  p.msg = q.msg
      BY DEF OneMessagePerId
    <2>1. \A r \in Publishes : r.type = "publish" /\ (r \in ToSet(store) \/ r \in ToSet(Pipe))
      BY PipeOfTyped DEF IInv, Publishes, InFlight, Stored
    <2>2. \A r \in Publishes : r.pid \in Ids /\ r.pid # 0 /\ Carries(r) /\ Subject(r) = r.pid
      <3>1. \A r \in ToSet(store) : r.type = "publish" => r.pid \in Ids
        BY PipeTyped, StoredPacket DEF IInv
      <3>2. \A r \in ToSet(Pipe) : r.type = "publish" => r.pid \in Ids
        <4> SUFFICES ASSUME NEW r \in ToSet(Pipe), r.type = "publish" PROVE r.pid \in Ids
          OBVIOUS
        <4>1. r \in Packets /\ Carries(r) /\ r.type \notin {"connect", "connack"}
          BY PipeOfTyped DEF IInv, Carries
        <4> QED BY <4>1, SubjectOf
      <3> QED BY <2>1, <3>1, <3>2 DEF Carries, Subject, Ids
    <2>3. CASE p \in ToSet(store) /\ q \in ToSet(store)
      BY <2>3 DEF IInv, StoreProper, Storing, UniqueIds, ToSet
    <2>4. ASSUME NEW a \in Publishes, NEW b \in Publishes, a.pid = b.pid,
                 a \in ToSet(Pipe), b \in ToSet(store)
          PROVE  a.msg = b.msg
      <3>1. Proper(a)
        BY <2>4 DEF IInv, Orderly
      <3> QED BY <2>1, <2>2, <2>4, <3>1 DEF Proper, Fits
    <2>5. CASE p \in ToSet(Pipe) /\ q \in ToSet(Pipe)
      <3>1. PICK i \in DOMAIN Pipe, j \in DOMAIN Pipe : p = Pipe[i] /\ q = Pipe[j]
        BY <2>5 DEF ToSet
      <3>2. i = j
        BY <2>2, <3>1 DEF IInv, Orderly, Distinct
      <3> QED BY <3>1, <3>2
    <2> QED BY <2>1, <2>3, <2>4, <2>5
  <1> QED BY <1>1, Invariance, PTL
-------------------------------------------------------------------------------
\* What the endpoint has sent or is about to write, and the CONNECT among it.
Sent == {w.packet : w \in ToSet(writing)} \cup ToSet(c2s)
Connects == {p \in Sent : p.type = "connect"}

\* A PUBLISH in flight has the QoS with which its message was accepted, and it is the
\* only one with this message.
Meant ==
  \A p \in Publishes :
    /\ p.qos = 1 => msg[p.msg] = "qos1"
    /\ p.qos = 2 => msg[p.msg] \in {"qos2", "rejected"}
    /\ \A q \in Publishes : q.msg = p.msg => q = p

\* How often a message may have been passed on.
Counted ==
  \A m \in Msgs : /\ msg[m] = "new" => delivered[m] = 0
                  /\ msg[m] = "qos2" => delivered[m] <= 1

\* The server knows the id of a QoS 2 PUBLISH that was passed on and may come again.
PassedOn(p) == p.type = "publish" /\ p.qos = 2 /\ delivered[p.msg] # 0
Remembered == \A p \in Publishes : PassedOn(p) => p.pid \in handled

\* Nothing stored was passed on when the server has no session or is about to give it
\* up; with a session the endpoint stores, and without one it does not.
Sessions ==
  /\ session \/ \A p \in Stored : ~PassedOn(p)
  /\ link = "up" =>
       /\ \A c \in Connects :
            c.keep = needStore /\ (c.clean => \A p \in Stored : ~PassedOn(p))
       /\ Connects # {} \/ session = needStore

\* The invariant of the QoS 2 handshake, on top of IInv.
Once == Meant /\ (~setup.expires => Counted /\ Remembered /\ Sessions)

\* The first element of a queue, and the others.
LEMMA HeadAndTail ==
  ASSUME NEW S, NEW q \in Seq(S), q # <<>>
  PROVE  ToSet(q) = {Head(q)} \cup ToSet(Tail(q))
  <1>1. /\ Tail(q) \in Seq(S) /\ Len(Tail(q)) = Len(q) - 1 /\ Len(q) \in Nat \ {0}
        /\ \A i \in 1..Len(Tail(q)) : Tail(q)[i] = q[i + 1] /\ i + 1 \in 1..Len(q)
        /\ Head(q) = q[1] /\ DOMAIN q = 1..Len(q) /\ DOMAIN Tail(q) = 1..Len(Tail(q))
    OBVIOUS
  <1>2. \A i \in 1..Len(q) : i = 1 \/ (i - 1 \in 1..Len(Tail(q)) /\ Tail(q)[i - 1] = q[i])
    BY <1>1
  <1>3. ASSUME NEW e \in ToSet(q) PROVE e = Head(q) \/ e \in ToSet(Tail(q))
    <2>1. PICK i \in 1..Len(q) : e = q[i]
      BY <1>1 DEF ToSet
    <2>2. i = 1 \/ (i - 1 \in 1..Len(Tail(q)) /\ Tail(q)[i - 1] = q[i])
      BY <1>2
    <2> QED BY <1>1, <2>1, <2>2 DEF ToSet
  <1>4. Head(q) \in ToSet(q) /\ ToSet(Tail(q)) \subseteq ToSet(q)
    BY <1>1 DEF ToSet
  <1> QED BY <1>3, <1>4

\* What a PUBLISH in flight says.
LEMMA PublishTyped ==
  ASSUME Typed, NEW p \in Publishes
  PROVE  p \in PublishPackets /\ p.type = "publish" /\ p.pid \in Ids /\ p.msg \in Msgs
         /\ p.qos \in {1, 2}
  <1>1. p \in ClientPackets /\ p.type = "publish"
    <2>1. ToSet(store) \subseteq StoredPackets /\ ToSet(c2s) \subseteq ClientPackets
          /\ \A w \in ToSet(writing) : w.packet \in ClientPackets
      BY WriteHasPacket, TypedParts DEF Queues, ToSet
    <2> QED BY <2>1, StoredPacket DEF Publishes, InFlight, Stored
  <1> QED BY <1>1, ClientPacket DEF PublishPackets

\* A step that sends no new PUBLISH, delivers nothing and leaves the server's session
\* alone keeps the invariant, when the connection is lost or what is known of the
\* sessions stays.
LEMMA OnceStays ==
  ASSUME Once, UNCHANGED <<setup, msg, server>>,
         \A p \in Stored' : p.type = "publish" => p \in Stored,
         \A p \in Sent' : p.type = "publish" => p \in Sent \cup Stored,
         link' = "up" => link = "up" /\ needStore' = needStore /\ Connects' = Connects
  PROVE  Once'
  <1>1. Publishes' \subseteq Publishes
    BY DEF Publishes, InFlight, Sent
  <1>2. /\ setup' = setup /\ msg' = msg /\ session' = session /\ handled' = handled
        /\ delivered' = delivered
    BY DEF server
  <1>3. Meant'
    BY <1>1, <1>2 DEF Once, Meant
  <1>4. ASSUME ~setup.expires PROVE Counted' /\ Remembered' /\ Sessions'
    <2>1. Counted /\ Remembered /\ Sessions
      BY <1>4 DEF Once
    <2>2. Counted' /\ Remembered'
      BY <1>1, <1>2, <2>1 DEF Counted, Remembered, PassedOn
    <2>3. \A p : PassedOn(p)' <=> PassedOn(p)
      BY <1>2 DEF PassedOn
    <2>4. (\A p \in Stored : ~PassedOn(p)) => \A p \in Stored' : ~PassedOn(p)'
      BY <2>3 DEF PassedOn
    <2>5. Sessions'
      BY <1>2, <2>1, <2>4 DEF Sessions
    <2> QED BY <2>2, <2>5
  <1> QED BY <1>2, <1>3, <1>4 DEF Once

\* Packets of other types join those that are sent.
LEMMA OnceSends ==
  ASSUME Typed, Once, UNCHANGED <<setup, msg, server>>, NEW x \in Writes,
         writing' \in {writing, Append(writing, x)}, c2s' = c2s,
         x.packet.type \notin {"publish", "connect"},
         \A p \in Stored' : p.type = "publish" => p \in Stored,
         link' = link, needStore' = needStore
  PROVE  Once'
  <1>1. ToSet(writing') \subseteq ToSet(writing) \cup {x}
        /\ ToSet(writing) \subseteq ToSet(writing')
    <2>1. writing \in Seq(Writes)
      BY PipeTyped
    <2>2. ToSet(Append(writing, x)) = ToSet(writing) \cup {x}
      BY <2>1, Elements
    <2> QED BY <2>2
  <1>2. Sent' \subseteq Sent \cup {x.packet} /\ Sent \subseteq Sent'
    BY <1>1 DEF Sent
  <1>3. Connects' = Connects
    BY <1>2 DEF Connects
  <1> QED BY <1>2, <1>3, OnceStays

\* The executor writes, or a write fails.
LEMMA WriteOnce ==
  ASSUME Typed, Once, WriteComplete \/ WriteError
  PROVE  Once'
  <1>1. writing \in Seq(Writes) /\ writing # <<>> /\ c2s \in Seq(ClientPackets)
        /\ writing' = Tail(writing) /\ Head(writing).packet \in ClientPackets
    BY PipeTyped, TypedParts DEF Queues, WriteComplete, WriteError
  <1>2. ToSet(writing) = {Head(writing)} \cup ToSet(writing')
    BY <1>1, HeadAndTail
  <1>3. Stored' = Stored /\ needStore' = needStore /\ link' = link
        /\ UNCHANGED <<setup, msg, server>>
    BY DEF WriteComplete, WriteError, client, wire, Stored
  <1>4. CASE WriteComplete
    <2>1. ToSet(c2s') = ToSet(c2s) \cup {Head(writing).packet}
      BY <1>1, <1>4, Elements DEF WriteComplete
    <2>2. Sent' = Sent
      BY <1>2, <2>1 DEF Sent
    <2>3. Connects' = Connects
      BY <2>2 DEF Connects
    <2> QED BY <1>3, <1>4, <2>2, <2>3, OnceStays DEF WriteComplete
  <1>5. CASE WriteError
    <2>1. Sent' \subseteq Sent
      BY <1>2, <1>5 DEF Sent, WriteError, wire
    <2> QED BY <1>3, <1>5, <2>1, OnceStays DEF WriteError, wire
  <1> QED BY <1>4, <1>5

\* The connection breaks or is closed, the program ends, a stored PUBLISH expires.
LEMMA EndOnce ==
  ASSUME Typed, Once, Break \/ Close \/ CloseComplete \/ ServerDisconnect \/ Restart \/ Expire
  PROVE  Once'
  <1>1. UNCHANGED <<setup, msg, server>>
    BY DEF Break, Close, CloseComplete, ServerDisconnect, Restart, Expire
  <1>2. Stored' \subseteq Stored
    <2>1. CASE Expire
      <3>1. store \in Seq(StoredPackets)
        BY TypedParts DEF Queues
      <3> QED BY <2>1, <3>1, Erased DEF Expire, Stored
    <2>2. CASE ~Expire
      BY <2>2 DEF Break, Close, CloseComplete, ServerDisconnect, Restart, RestorePackets,
         GetStoredPackets, client, Stored
    <2> QED BY <2>1, <2>2
  <1>3. CASE link' = "down"
    <2>1. Sent' \subseteq Sent
      <3>1. writing' = writing \/ writing' = <<>>
        BY DEF Break, Close, CloseComplete, ServerDisconnect, Restart, Expire
      <3>2. c2s' = c2s \/ c2s' = <<>>
        BY DEF Break, Close, CloseComplete, ServerDisconnect, Restart, Expire, LinkDown, wire
      <3>3. ToSet(<<>>) = {}
        BY EmptyPipe
      <3> QED BY <3>1, <3>2, <3>3 DEF Sent
    <2> QED BY <1>1, <1>2, <1>3, <2>1, OnceStays
  <1>4. CASE link' # "down"
    <2>1. CloseComplete \/ Expire
      BY <1>4 DEF Break, Close, ServerDisconnect, Restart, LinkDown, wire
    <2>2. writing' = writing /\ c2s' = c2s /\ link' = link /\ needStore' = needStore
      BY <2>1 DEF CloseComplete, Expire, wire
    <2>3. Sent' = Sent /\ Connects' = Connects
      BY <2>2 DEF Sent, Connects
    <2> QED BY <1>1, <1>2, <2>2, <2>3, OnceStays
  <1> QED BY <1>3, <1>4

\* A packet from the server changes neither a message nor the server.  What the store
\* gets is a PUBREL, and what is sent is one too, a DISCONNECT, or what was stored.
LEMMA ReceiveOnce ==
  ASSUME Typed, Once,
         RecvConnack \/ RecvPuback \/ RecvPubrec \/ RecvPubcomp \/ RecvSuback
  PROVE  Once'
  <1>1. PICK type : Received(type) /\ Consume
    BY DEF RecvConnack, RecvPuback, RecvPubrec, RecvPubcomp, RecvSuback
  <1>2. UNCHANGED <<setup, msg, server>> /\ needStore' = needStore /\ c2s' = c2s /\ link' = link
    BY <1>1 DEF RecvConnack, RecvPuback, RecvPubrec, RecvPubcomp, RecvSuback, Consume
  <1>3. store \in Seq(StoredPackets) /\ writing \in Seq(Writes)
    BY TypedParts DEF Queues
  <1>4. PICK bye \in Writes : bye = Write(Ack("disconnect", 0), FALSE)
    BY Sendable DEF Write
  <1>5. bye.packet.type = "disconnect"
    BY <1>4 DEF Write, Ack, Packet
  <1>6. Reject => writing' \in {writing, Append(writing, bye)}
    BY <1>4 DEF Reject
  <1>7. CASE RecvPuback
    <2>1. ToSet(store') \subseteq ToSet(store)
      BY <1>3, <1>7, Erased DEF RecvPuback
    <2>2. writing' \in {writing, Append(writing, bye)}
      BY <1>6, <1>7 DEF RecvPuback
    <2> QED BY <1>2, <1>5, <2>1, <2>2, OnceSends DEF Stored
  <1>8. CASE RecvPubcomp
    <2>1. ToSet(store') \subseteq ToSet(store)
      BY <1>3, <1>8, Erased DEF RecvPubcomp
    <2>2. writing' \in {writing, Append(writing, bye)}
      BY <1>6, <1>8 DEF RecvPubcomp
    <2> QED BY <1>2, <1>5, <2>1, <2>2, OnceSends DEF Stored
  <1>9. CASE RecvSuback
    <2>1. store' = store /\ writing' = writing
      BY <1>9 DEF RecvSuback
    <2> QED BY <1>2, <1>5, <2>1, OnceSends DEF Stored
  <1>10. CASE RecvPubrec
    <2>1. CASE Head(s2c).pid \notin pubrec
      <3>1. writing' \in {writing, Append(writing, bye)} /\ store' = store
        BY <1>6, <1>10, <2>1 DEF RecvPubrec
      <3> QED BY <1>2, <1>5, <3>1, OnceSends DEF Stored
    <2>2. CASE Head(s2c).pid \in pubrec
      <3> DEFINE pid == Head(s2c).pid
                 rest == StoreErase(store, "pubrec", pid)
      <3>1. pid \in Ids
        BY <2>2, TypedParts DEF Ranges
      <3>2. PICK rel \in Writes : rel = Write(Pubrel(pid), FALSE)
        BY <3>1, Sendable DEF Write
      <3>3. rel.packet.type = "pubrel" /\ Pubrel(pid).type = "pubrel"
            /\ Pubrel(pid) \in StoredPackets
        BY <3>1, <3>2, Sendable DEF Write, Pubrel, Packet
      <3>4. rest \in Seq(StoredPackets) /\ ToSet(rest) \subseteq ToSet(store)
        BY <1>3, Erased
      <3>5. ToSet(StoreAdd(rest, Pubrel(pid))) \subseteq ToSet(rest) \cup {Pubrel(pid)}
        <4> HIDE DEF rest
        <4> QED BY <3>3, <3>4, Added
      <3>6. store' \in {rest, StoreAdd(rest, Pubrel(pid))}
            /\ writing' \in {writing, Append(writing, rel)}
        BY <1>10, <2>2, <3>2 DEF RecvPubrec
      <3>7. \A p \in Stored' : p.type = "publish" => p \in Stored
        BY <3>3, <3>4, <3>5, <3>6 DEF Stored
      <3> QED BY <1>2, <3>3, <3>6, <3>7, OnceSends
    <2> QED BY <2>1, <2>2
  <1>11. CASE RecvConnack
    <2>1. \/ \E u \in Remaining(store) : store' = u /\ writing' = writing \o Resent(u)
          \/ store' = <<>> /\ writing' = writing
      BY <1>11 DEF RecvConnack
    <2>2. PICK s \in Seq(StoredPackets) :
            /\ ToSet(s) \subseteq Stored /\ ToSet(store') \subseteq ToSet(s)
            /\ writing' = writing \o Resent(s) \/ writing' = writing
      <3>1. CASE \E u \in Remaining(store) : store' = u /\ writing' = writing \o Resent(u)
        BY <1>3, <3>1, RemainingStore DEF Stored
      <3>2. CASE store' = <<>> /\ writing' = writing
        <4>1. <<>> \in Seq(StoredPackets) /\ ToSet(<<>>) = {}
          BY EmptyPipe
        <4> QED BY <3>2, <4>1
      <3> QED BY <2>1, <3>1, <3>2
    <2>3. {w.packet : w \in ToSet(Resent(s))} = ToSet(s) /\ Resent(s) \in Seq(Writes)
      <3>1. Resent(s) \in Seq(Writes) /\ PacketsOf(Resent(s)) = s
        BY TypedParts, ResentPackets DEF Ranges
      <3> QED BY <3>1, PacketsOfWrites
    <2>4. writing' = writing \/ ToSet(writing') = ToSet(writing) \cup ToSet(Resent(s))
      <3>1. ToSet(writing \o Resent(s)) = ToSet(writing) \cup ToSet(Resent(s))
        BY <1>3, <2>3, ConcatElements
      <3> QED BY <2>2, <3>1
    <2>5. Sent' \subseteq Sent \cup Stored /\ Sent \subseteq Sent' /\ Stored' \subseteq Stored
      BY <1>2, <2>2, <2>3, <2>4 DEF Sent, Stored
    <2>6. Connects' = Connects
      <3>1. \A p \in Stored : p.type # "connect"
        BY <1>3, StoredPacket, PipeTyped DEF Stored
      <3> QED BY <2>5, <3>1 DEF Connects
    <2> QED BY <1>2, <2>5, <2>6, OnceStays
  <1> QED BY <1>7, <1>8, <1>9, <1>10, <1>11

\* SUBSCRIBE and DISCONNECT are about no message.
LEMMA OtherSendOnce ==
  ASSUME Typed, Once, SendSubscribe \/ SendDisconnect
  PROVE  Once'
  <1>1. UNCHANGED <<setup, msg, server>> /\ needStore' = needStore /\ c2s' = c2s /\ link' = link
        /\ store' = store
    BY DEF SendSubscribe, SendDisconnect, wire
  <1>2. CASE SendSubscribe
    <2>1. Lowest(free) \in Ids
      BY <1>2, LowestVacant, TypedParts DEF SendSubscribe, Ranges, Ids
    <2>2. PICK x \in Writes : x = Write(Ack("subscribe", Lowest(free)), TRUE)
      BY <2>1, Sendable DEF Write, Ack, Packet
    <2>3. x.packet.type = "subscribe"
      BY <2>2 DEF Write, Ack, Packet
    <2> QED BY <1>1, <1>2, <2>2, <2>3, OnceSends DEF SendSubscribe, Stored
  <1>3. CASE SendDisconnect
    <2>1. PICK x \in Writes : x = Write(Ack("disconnect", 0), FALSE)
      BY Sendable DEF Write
    <2>2. x.packet.type = "disconnect"
      BY <2>1 DEF Write, Ack, Packet
    <2> QED BY <1>1, <1>3, <2>1, <2>2, OnceSends DEF SendDisconnect, Stored
  <1> QED BY <1>2, <1>3

\* CONNECT: it is the only one, and a clean start empties the store.
LEMMA ConnectOnce ==
  ASSUME IInv, Once, NEW c \in setup.connects, SendConnect(c)
  PROVE  Once'
  <1>1. c2s = <<>> /\ writing = <<>> /\ Typed
    BY DEF SendConnect, IInv, LinkProper
  <1>2. /\ UNCHANGED <<setup, msg, server>> /\ c2s' = c2s /\ link' = "up"
        /\ needStore' = c.keep /\ store' = (IF c.clean THEN <<>> ELSE store)
        /\ writing' = <<Write(Connect(c), FALSE)>>
    BY DEF SendConnect
  <1>3. Sent' = {Connect(c)}
    <2>1. PICK x : x = Write(Connect(c), FALSE)
      OBVIOUS
    <2>2. ToSet(<<x>>) = {x}
      BY DEF ToSet
    <2>3. x.packet = Connect(c)
      BY <2>1 DEF Write
    <2>4. writing' = <<x>> /\ c2s' = <<>>
      BY <1>1, <1>2, <2>1
    <2>5. ToSet(writing') = {x} /\ ToSet(c2s') = {}
      BY <2>2, <2>4, EmptyPipe
    <2> QED BY <2>3, <2>5 DEF Sent
  <1>4. Stored' \subseteq Stored /\ (c.clean => Stored' = {})
    BY <1>2, EmptyPipe DEF Stored
  <1>5. Connects' = {Connect(c)} /\ Connect(c).keep = c.keep /\ Connect(c).clean = c.clean
    BY <1>3 DEF Connects, Connect
  <1>6. Publishes' \subseteq Publishes
    BY <1>3, <1>4 DEF Publishes, InFlight, Sent, Connect
  <1>7. msg' = msg /\ delivered' = delivered /\ handled' = handled /\ session' = session
        /\ setup' = setup
    BY <1>2 DEF server
  <1>8. Meant'
    BY <1>6, <1>7 DEF Once, Meant
  <1>9. ASSUME ~setup.expires PROVE Counted' /\ Remembered' /\ Sessions'
    <2>1. Counted /\ Remembered /\ Sessions
      BY <1>9 DEF Once
    <2>2. Counted' /\ Remembered'
      BY <1>6, <1>7, <2>1 DEF Counted, Remembered, PassedOn
    <2>3. Sessions'
      BY <1>2, <1>4, <1>5, <1>7, <2>1 DEF Sessions, PassedOn
    <2> QED BY <2>2, <2>3
  <1> QED BY <1>7, <1>8, <1>9 DEF Once

\* PUBLISH: a new message, which was not delivered, with an id of its own.
LEMMA PublishOnce ==
  ASSUME WellUsed, IInv, Once, Publishing
  PROVE  Once'
  <1>1. PICK m \in Msgs, q \in {1, 2}, f \in setup.faults \cup {"none"} : SendPublish(m, q, f)
    BY DEF Publishing
  <1>2. Typed /\ store \in Seq(StoredPackets) /\ writing \in Seq(Writes)
        /\ msg \in [Msgs -> {"new", "refused", "qos1", "qos2", "rejected"}]
        /\ needStore \in BOOLEAN
    BY TypedParts DEF IInv, Ranges, Queues
  <1>3. f \in {"tooBig", "none"}
    BY TypedParts, SessionAssumption DEF WellUsed, IInv, Ranges
  <1>4. PICK pid : pid = Lowest(free) /\ pid \in Ids
    BY <1>1, <1>2, LowestVacant, TypedParts DEF SendPublish, Ranges, Ids
  <1>5. PICK p \in StoredPackets : p = Publish(pid, m, q)
    BY <1>4, Sendable
  <1>6. p.type = "publish" /\ p.qos = q /\ p.msg = m /\ p \in ClientPackets
    BY <1>5, StoredPacket DEF Publish, Packet
  <1>7. PICK x \in Writes : x = Write(p, ~needStore) /\ x.packet = p
    BY <1>2, <1>6, Sendable DEF Write
  <1>8. /\ store' = IF needStore /\ f # "tooBig" THEN StoreAdd(store, p) ELSE store
        /\ writing' = IF f = "none" /\ status = "connected" THEN Append(writing, x) ELSE writing
        /\ msg[m] = "new"
        /\ msg' = [msg EXCEPT ![m] = IF f # "none" THEN "refused"
                                        ELSE IF q = 1 THEN "qos1" ELSE "qos2"]
        /\ link' = link /\ c2s' = c2s /\ needStore' = needStore
        /\ setup' = setup /\ session' = session /\ handled' = handled
        /\ delivered' = delivered
    BY <1>1, <1>4, <1>5, <1>7 DEF SendPublish, wire, server
  <1>9. Stored' \subseteq Stored \cup {p} /\ (f = "tooBig" => Stored' = Stored)
    BY <1>2, <1>3, <1>8, Added DEF Stored
  <1>10. ToSet(writing) \subseteq ToSet(writing')
         /\ ToSet(writing') \subseteq (ToSet(writing) \cup {x})
         /\ (f = "tooBig" => writing' = writing)
    <2>1. ToSet(Append(writing, x)) = ToSet(writing) \cup {x}
      BY <1>2, Elements
    <2> QED BY <1>8, <2>1
  <1>11. Publishes' \subseteq Publishes \cup {p} /\ (f = "tooBig" => Publishes' = Publishes)
    BY <1>7, <1>8, <1>9, <1>10 DEF Publishes, InFlight
  <1>12. ASSUME NEW r \in Publishes PROVE r.msg # m /\ msg'[r.msg] = msg[r.msg]
    <2>1. r.msg \in Msgs /\ r.qos \in {1, 2}
      BY <1>2, <1>12, PublishTyped
    <2>2. r.msg # m
      BY <1>8, <1>12, <2>1 DEF Once, Meant
    <2> QED BY <1>2, <1>8, <2>1, <2>2
  <1>13. Meant'
    <2>1. f = "none" => msg'[m] = IF q = 1 THEN "qos1" ELSE "qos2"
      BY <1>2, <1>8
    <2>2. ASSUME NEW r \in Publishes'
          PROVE  /\ r.qos = 1 => msg'[r.msg] = "qos1"
                 /\ r.qos = 2 => msg'[r.msg] \in {"qos2", "rejected"}
      <3>1. CASE r \in Publishes
        BY <1>12, <3>1 DEF Once, Meant
      <3>2. CASE r \notin Publishes
        BY <1>3, <1>6, <1>11, <2>1, <2>2, <3>2
      <3> QED BY <3>1, <3>2
    <2>3. ASSUME NEW r \in Publishes', NEW s \in Publishes', s.msg = r.msg PROVE s = r
      BY <1>6, <1>11, <1>12, <2>3 DEF Once, Meant
    <2> QED BY <2>2, <2>3 DEF Meant
  <1>14. ASSUME ~setup.expires PROVE Counted' /\ Remembered' /\ Sessions'
    <2>1. Counted /\ Remembered /\ Sessions
      BY <1>14 DEF Once
    <2>2. delivered[m] = 0
      BY <1>8, <2>1 DEF Counted
    <2>3. Counted'
      BY <1>2, <1>8, <2>1, <2>2 DEF Counted
    <2>4. ~PassedOn(p)' /\ \A r : PassedOn(r)' <=> PassedOn(r)
      BY <1>6, <1>8, <2>2 DEF PassedOn
    <2>5. Remembered'
      BY <1>8, <1>11, <2>1, <2>4 DEF Remembered
    <2>6. (\A r \in Stored : ~PassedOn(r)) => \A r \in Stored' : ~PassedOn(r)'
      BY <1>9, <2>4
    <2>7. Connects' = Connects
      BY <1>6, <1>7, <1>8, <1>10 DEF Connects, Sent
    <2> QED BY <1>8, <2>1, <2>3, <2>5, <2>6, <2>7 DEF Sessions
  <1> QED BY <1>8, <1>13, <1>14 DEF Once
-------------------------------------------------------------------------------
\* The first packet on the way to the server is the only one about its id on that way.
LEMMA FirstSent ==
  ASSUME NEW s \in Seq(Packets), NEW c \in Seq(Packets), NEW w \in Seq(Writes),
         c # <<>>, Distinct(PipeOf(s, c, w))
  PROVE  \A p \in ToSet(Tail(c)) \cup {x.packet : x \in ToSet(w)} :
           Carries(p) /\ Carries(Head(c)) => Subject(p) # Subject(Head(c))
  <1>1. PacketsOf(w) \in Seq(Packets) /\ <<>> \in Seq(Packets) /\ Tail(c) \in Seq(Packets)
    BY PacketsOfWrites
  <1> DEFINE v == PacketsOf(w)
  <1>2. v \in Seq(Packets)
    BY <1>1
  <1>3. PipeOf(s, c, w) = (s \o c) \o v /\ PipeOf(c, <<>>, w) = (c \o <<>>) \o v
    BY DEF PipeOf
  <1> HIDE DEF v
  <1>4. (s \o c) \o v = s \o (c \o v) /\ c \o <<>> = c /\ c \o v \in Seq(Packets)
    BY <1>2, Associative, ConcatEmptySeq, ConcatProperties
  <1>5. Distinct(PipeOf(c, <<>>, w))
    <2> DEFINE b == c \o v
    <2>1. Distinct(s \o b) /\ b \in Seq(Packets)
      BY <1>3, <1>4
    <2>2. Distinct(b)
      <3> HIDE DEF b
      <3> QED BY <2>1, DistinctSuffix
    <2> QED BY <1>3, <1>4, <2>2
  <1>6. \A p \in ToSet(PipeOf(Tail(c), <<>>, w)) :
          Carries(p) /\ Carries(Head(c)) => Subject(p) # Subject(Head(c))
    BY <1>1, <1>5, PipeReceives
  <1> DEFINE d == Tail(c)
  <1>7. d \in Seq(Packets)
    BY <1>1
  <1>8. ToSet(PipeOf(d, <<>>, w)) = (ToSet(d) \cup ToSet(<<>>)) \cup {x.packet : x \in ToSet(w)}
    <2> HIDE DEF d
    <2> QED BY <1>1, <1>7, PipeContents
  <1> QED BY <1>6, <1>8

\* The packet that the server answers leaves what the endpoint has sent.
LEMMA Answered ==
  ASSUME IInv, NEW t, Arrived(t), NEW r, Reply(r), UNCHANGED <<client, writing>>
  PROVE  /\ Head(c2s) \in ClientPackets /\ Head(c2s).type = t /\ Head(c2s) \in Sent
         /\ Sent = {Head(c2s)} \cup Sent' /\ link = "up" /\ link' = link
         /\ Stored' = Stored /\ needStore' = needStore /\ status' = status
         /\ Carries(Head(c2s)) => Proper(Head(c2s))
         /\ \A p \in Sent' :
              Carries(p) /\ Carries(Head(c2s)) => Subject(p) # Subject(Head(c2s))
  <1>1. /\ c2s # <<>> /\ c2s \in Seq(ClientPackets) /\ Head(c2s).type = t /\ link = "up"
        /\ Head(c2s) \in ClientPackets
    BY PipeTyped, TypedParts DEF IInv, Queues, Arrived
  <1>2. link' = link /\ c2s' = Tail(c2s) /\ writing' = writing /\ Stored' = Stored
        /\ needStore' = needStore /\ status' = status
    BY DEF Reply, client, Stored
  <1>3. ToSet(c2s) = {Head(c2s)} \cup ToSet(Tail(c2s))
    BY <1>1, HeadAndTail
  <1>4. Sent = {Head(c2s)} \cup Sent' /\ Head(c2s) \in Sent
    BY <1>2, <1>3 DEF Sent
  <1>5. Head(c2s) \in ToSet(Pipe)
    BY <1>3, PipeOfTyped DEF IInv
  <1>6. \A p \in ToSet(Tail(c2s)) \cup {x.packet : x \in ToSet(writing)} :
          Carries(p) /\ Carries(Head(c2s)) => Subject(p) # Subject(Head(c2s))
    BY <1>1, PipeTyped, FirstSent DEF IInv, Orderly, Pipe
  <1>7. \A p \in Sent' : Carries(p) /\ Carries(Head(c2s)) => Subject(p) # Subject(Head(c2s))
    BY <1>2, <1>6 DEF Sent
  <1> QED BY <1>1, <1>2, <1>4, <1>5, <1>7 DEF IInv, Orderly

\* A packet with a packet id on its way to the server: no CONNECT is, and what the
\* server keeps is what the endpoint expects.
LEMMA NoConnect ==
  ASSUME IInv, link = "up", NEW p \in Sent, Carries(p), Subject(p) # 0
  PROVE  /\ Connects = {} /\ (~needStore => Stored = {})
         /\ \A e \in Stored : e.pid = p.pid => Fits(p, e)
  <1>1. Sent \subseteq ToSet(Pipe) /\ Proper(p)
    BY PipeOfTyped DEF IInv, Orderly, Sent
  <1>2. status # "connecting" /\ \A e \in Stored : e.pid = p.pid => Fits(p, e)
    BY <1>1 DEF Proper, Stored
  <1>3. ASSUME NEW c \in Connects PROVE FALSE
    <2>1. Proper(c) /\ c.type = "connect"
      BY <1>1 DEF Connects, IInv, Orderly
    <2> QED BY <1>2, <2>1 DEF Proper, Carries, Subject
  <1>4. ~needStore => store = <<>>
    BY DEF IInv, StoreProper, Storing, LinkProper, Open
  <1> QED BY <1>2, <1>3, <1>4, EmptyPipe DEF Stored

\* PUBLISH at the server: what is known of it, and of the others.
LEMMA PublishArrives ==
  ASSUME IInv, Once, Arrived("publish"), NEW r, Reply(r), UNCHANGED <<client, writing>>
  PROVE  LET p == Head(c2s)
         IN  /\ p \in Publishes /\ p.pid \in Ids /\ p.msg \in Msgs
             /\ Publishes' \subseteq Publishes /\ Stored' = Stored /\ needStore' = needStore
             /\ \A q \in Publishes : q.msg = p.msg => q = p
             /\ Connects = {} /\ Connects' = {} /\ (~needStore => Stored = {})
             /\ link = "up" /\ link' = "up"
  <1> DEFINE p == Head(c2s)
  <1>1. /\ p \in ClientPackets /\ p.type = "publish" /\ p \in Sent
        /\ Sent = {p} \cup Sent' /\ link = "up" /\ link' = link /\ Stored' = Stored
        /\ needStore' = needStore
    BY Answered
  <1> HIDE DEF p
  <1>2. p \in Publishes /\ Publishes' \subseteq Publishes
    BY <1>1 DEF Publishes, InFlight, Sent
  <1>3. p.pid \in Ids /\ p.msg \in Msgs
    BY <1>2, PublishTyped DEF IInv
  <1>4. Carries(p) /\ Subject(p) # 0
    BY <1>1, <1>3 DEF Carries, Subject, Ids
  <1>5. Connects = {} /\ (~needStore => Stored = {})
    BY <1>1, <1>4, NoConnect
  <1>6. Connects' = {}
    BY <1>1, <1>5 DEF Connects
  <1> QED BY <1>1, <1>2, <1>3, <1>5, <1>6 DEF p, Once, Meant

\* Handling a PUBLISH keeps the invariant.
LEMMA ServerPublishOnce ==
  ASSUME IInv, Once, ServerPublishQos1 \/ ServerPublishQos2 \/ ServerRefuseQos2
  PROVE  Once'
  <1>1. PICK r : Arrived("publish") /\ Reply(r) /\ UNCHANGED <<client, writing>>
    BY DEF ServerPublishQos1, ServerPublishQos2, ServerRefuseQos2
  <1>2. PICK p : p = Head(c2s)
    OBVIOUS
  <1>3. /\ p \in Publishes /\ p.pid \in Ids /\ p.msg \in Msgs
        /\ Publishes' \subseteq Publishes /\ Stored' = Stored /\ needStore' = needStore
        /\ \A q \in Publishes : q.msg = p.msg => q = p
        /\ Connects = {} /\ Connects' = {} /\ (~needStore => Stored = {})
        /\ link = "up" /\ link' = "up"
    BY <1>1, <1>2, PublishArrives
  <1>4. /\ setup' = setup /\ session' = session
        /\ ServerPublishQos1 => /\ p.qos = 1 /\ handled' = handled /\ msg' = msg
                                /\ Deliver(p.msg)
        /\ ServerPublishQos2 => /\ p.qos = 2 /\ handled' = handled \cup {p.pid} /\ msg' = msg
                                /\ IF p.pid \in handled THEN delivered' = delivered
                                                       ELSE Deliver(p.msg)
        /\ ServerRefuseQos2 => /\ p.qos = 2 /\ handled' = handled /\ delivered' = delivered
                               /\ msg' = [msg EXCEPT ![p.msg] = "rejected"]
    BY <1>2 DEF ServerPublishQos1, ServerPublishQos2, ServerRefuseQos2, PassOn, server
  <1>5. /\ msg \in [Msgs -> {"new", "refused", "qos1", "qos2", "rejected"}]
        /\ delivered \in [Msgs -> 0..2]
    BY TypedParts DEF IInv, Ranges
  <1>6. p.qos = 1 => msg[p.msg] = "qos1"
    BY <1>3 DEF Once, Meant
  <1>7. p.qos = 2 => msg[p.msg] \in {"qos2", "rejected"}
    BY <1>3 DEF Once, Meant
  <1>8. \A m \in Msgs : m # p.msg => msg'[m] = msg[m] /\ delivered'[m] = delivered[m]
    BY <1>4, <1>5 DEF Deliver
  <1>9. \A q \in Publishes : q.msg \in Msgs /\ (q = p \/ q.msg # p.msg)
    BY <1>3, PublishTyped DEF IInv
  <1>10. p.qos = 1 => msg'[p.msg] = "qos1"
    BY <1>4, <1>6
  <1>11. p.qos = 2 => msg'[p.msg] \in {"qos2", "rejected"}
    <2>1. ServerRefuseQos2 => msg'[p.msg] = "rejected"
      BY <1>3, <1>4, <1>5
    <2> QED BY <1>4, <1>7, <2>1
  <1>12. Meant'
    <2>1. ASSUME NEW q \in Publishes'
          PROVE  /\ q.qos = 1 => msg'[q.msg] = "qos1"
                 /\ q.qos = 2 => msg'[q.msg] \in {"qos2", "rejected"}
      <3>1. q \in Publishes
        BY <1>3, <2>1
      <3>2. CASE q = p
        BY <1>10, <1>11, <3>2
      <3>3. CASE q # p
        BY <1>8, <1>9, <3>1, <3>3 DEF Once, Meant
      <3> QED BY <3>2, <3>3
    <2> QED BY <1>3, <2>1 DEF Once, Meant
  <1>13. ASSUME ~setup.expires PROVE Counted' /\ Remembered' /\ Sessions'
    <2>1. Counted /\ Remembered /\ Sessions /\ session = needStore
      BY <1>3, <1>13 DEF Once, Sessions
    <2>2. Counted'
      <3>1. ASSUME msg'[p.msg] = "qos2" PROVE delivered'[p.msg] <= 1
        <4>1. ServerPublishQos2 /\ msg[p.msg] = "qos2"
          BY <1>3, <1>4, <1>5, <1>6, <3>1
        <4>2. CASE p.pid \in handled
          BY <1>3, <1>4, <2>1, <4>1, <4>2 DEF Counted
        <4>3. CASE p.pid \notin handled
          <5>1. delivered[p.msg] = 0 /\ Deliver(p.msg)
            BY <1>3, <1>4, <2>1, <4>1, <4>3, PublishTyped DEF IInv, Remembered, PassedOn,
               Publishes
          <5> QED BY <1>3, <1>5, <5>1 DEF Deliver
        <4> QED BY <4>2, <4>3
      <3>2. msg'[p.msg] # "new"
        BY <1>4, <1>10, <1>11
      <3> QED BY <1>8, <2>1, <3>1, <3>2 DEF Counted
    <2>3. ASSUME NEW q \in Publishes, q # p PROVE PassedOn(q)' <=> PassedOn(q)
      BY <1>8, <1>9, <2>3 DEF PassedOn
    <2>4. PassedOn(p)' => p.pid \in handled'
      <3>1. CASE ServerPublishQos2
        BY <1>4, <3>1
      <3>2. CASE ServerPublishQos1
        BY <1>4, <3>2 DEF PassedOn
      <3>3. CASE ServerRefuseQos2
        BY <1>3, <1>4, <2>1, <3>3 DEF PassedOn, Remembered
      <3> QED BY <3>1, <3>2, <3>3
    <2>5. Remembered'
      <3>1. handled \subseteq handled'
        BY <1>4
      <3> QED BY <1>3, <2>1, <2>3, <2>4, <3>1 DEF Remembered
    <2>6. Sessions'
      BY <1>3, <1>4, <2>1 DEF Sessions
    <2> QED BY <2>2, <2>5, <2>6
  <1> QED BY <1>4, <1>12, <1>13 DEF Once

\* PUBREL: the id is forgotten, and no PUBLISH has it.
LEMMA ServerPubrelOnce ==
  ASSUME IInv, Once, ServerPubrel
  PROVE  Once'
  <1> DEFINE p == Head(c2s)
  <1>1. /\ Arrived("pubrel") /\ Reply(Ack("pubcomp", p.pid)) /\ UNCHANGED <<client, writing>>
        /\ setup' = setup /\ msg' = msg /\ session' = session /\ delivered' = delivered
        /\ handled' = handled \ {p.pid}
    BY DEF ServerPubrel
  <1>2. /\ p \in ClientPackets /\ p.type = "pubrel" /\ p \in Sent
        /\ Sent = {p} \cup Sent' /\ link = "up" /\ link' = link /\ Stored' = Stored
        /\ needStore' = needStore
        /\ \A q \in Sent' : Carries(q) /\ Carries(p) => Subject(q) # Subject(p)
    BY <1>1, Answered
  <1> HIDE DEF p
  <1>3. Carries(p) /\ Subject(p) = p.pid /\ Subject(p) # 0
    BY <1>2, ClientPacket DEF Carries, Subject, Ids
  <1>4. /\ Connects = {} /\ (~needStore => Stored = {})
        /\ \A e \in Stored : e.pid = p.pid => Fits(p, e)
    BY <1>2, <1>3, NoConnect
  <1>5. Publishes' \subseteq Publishes /\ Connects' = {}
    BY <1>2, <1>4 DEF Publishes, InFlight, Sent, Connects
  <1>6. ASSUME NEW q \in Publishes' PROVE q.pid # p.pid
    <2>1. q.type = "publish" /\ (q \in Stored \/ q \in Sent')
      BY <1>2 DEF Publishes, InFlight, Sent
    <2>2. CASE q \in Stored
      BY <1>2, <1>4, <2>1, <2>2 DEF Fits
    <2>3. CASE q \in Sent'
      BY <1>2, <1>3, <2>1, <2>3 DEF Carries, Subject
    <2> QED BY <2>1, <2>2, <2>3
  <1>7. Meant'
    BY <1>1, <1>5 DEF Once, Meant
  <1>8. ASSUME ~setup.expires PROVE Counted' /\ Remembered' /\ Sessions'
    <2>1. Counted /\ Remembered /\ Sessions /\ session = needStore
      BY <1>2, <1>4, <1>8 DEF Once, Sessions
    <2>2. Counted'
      BY <1>1, <2>1 DEF Counted
    <2>3. Remembered'
      BY <1>1, <1>5, <1>6, <2>1 DEF Remembered, PassedOn
    <2>4. Sessions'
      BY <1>1, <1>2, <1>4, <1>5, <2>1 DEF Sessions
    <2> QED BY <2>2, <2>3, <2>4
  <1> QED BY <1>1, <1>7, <1>8 DEF Once

\* CONNECT: when the handled ids are forgotten, no PUBLISH that was passed on is left.
LEMMA ServerConnectOnce ==
  ASSUME IInv, Once, ServerConnect
  PROVE  Once'
  <1> DEFINE p == Head(c2s)
             sp == session /\ ~p.clean
  <1>1. /\ Arrived("connect") /\ Reply(Connack(sp)) /\ UNCHANGED <<client, writing>>
        /\ setup' = setup /\ msg' = msg /\ session' = p.keep /\ delivered' = delivered
        /\ handled' = IF sp THEN handled ELSE {}
    BY DEF ServerConnect
  <1>2. /\ p \in ClientPackets /\ p.type = "connect" /\ p \in Sent
        /\ Sent = {p} \cup Sent' /\ link = "up" /\ link' = link /\ Stored' = Stored
        /\ needStore' = needStore /\ (Carries(p) => Proper(p))
    BY <1>1, Answered
  <1> HIDE DEF p
  <1>3. status = "connecting" /\ p \in Connects /\ (~needStore => Stored = {})
    <2>1. status = "connecting"
      BY <1>2 DEF Proper, Carries, Subject
    <2>2. ~needStore => store = <<>>
      BY <2>1 DEF IInv, StoreProper, Storing
    <2> QED BY <1>2, <2>1, <2>2, EmptyPipe DEF Connects, Stored
  <1>4. Publishes' \subseteq Stored /\ Publishes' \subseteq Publishes
    <2>1. ASSUME NEW q \in Sent', q.type = "publish" PROVE FALSE
      <3>1. q \in Publishes /\ q \in ToSet(Pipe)
        BY <1>2, <2>1, PipeOfTyped DEF Publishes, InFlight, Sent, IInv
      <3>2. q.pid \in Ids /\ Proper(q)
        BY <3>1, PublishTyped DEF IInv, Orderly
      <3> QED BY <1>3, <2>1, <3>2 DEF Proper, Carries, Subject, Ids
    <2> QED BY <1>2, <2>1 DEF Publishes, InFlight, Sent
  <1>5. Connects' \subseteq Connects
    BY <1>2 DEF Connects
  <1>6. Meant'
    BY <1>1, <1>4 DEF Once, Meant
  <1>7. ASSUME ~setup.expires PROVE Counted' /\ Remembered' /\ Sessions'
    <2>1. /\ Counted /\ Remembered /\ Sessions /\ p.keep = needStore
          /\ ~sp => \A e \in Stored : ~PassedOn(e)
      BY <1>2, <1>3, <1>7 DEF Once, Sessions
    <2> HIDE DEF sp
    <2>2. Counted'
      BY <1>1, <2>1 DEF Counted
    <2>3. Remembered'
      BY <1>1, <1>4, <2>1 DEF Remembered, PassedOn
    <2>4. Sessions'
      BY <1>1, <1>2, <1>3, <1>5, <2>1 DEF Sessions, PassedOn
    <2> QED BY <2>2, <2>3, <2>4
  <1> QED BY <1>1, <1>6, <1>7 DEF Once

\* Whatever the server does.
LEMMA ServerOnce ==
  ASSUME IInv, Once, Server \/ ServerExpire
  PROVE  Once'
  <1>1. CASE ServerSubscribe
    <2>1. /\ Arrived("subscribe") /\ UNCHANGED <<client, writing>>
          /\ Reply(Ack("suback", Head(c2s).pid))
          /\ UNCHANGED <<setup, msg, server>>
      BY <1>1 DEF ServerSubscribe
    <2>2. /\ Head(c2s).type = "subscribe" /\ Sent = {Head(c2s)} \cup Sent' /\ link' = link
          /\ Stored' = Stored /\ needStore' = needStore
      BY <2>1, Answered
    <2>3. Connects' = Connects
      BY <2>2 DEF Connects
    <2> QED BY <2>1, <2>2, <2>3, OnceStays
  <1>2. CASE ServerExpire
    <2>1. /\ setup.expires /\ setup' = setup /\ msg' = msg
          /\ writing' = writing /\ c2s' = c2s /\ store' = store
      BY <1>2 DEF ServerExpire, client, wire
    <2>2. Publishes' = Publishes
      BY <2>1 DEF Publishes, InFlight, Stored
    <2> QED BY <2>1, <2>2 DEF Once, Meant
  <1>3. CASE ServerDisconnect
    BY <1>3, EndOnce DEF IInv
  <1> QED BY <1>1, <1>2, <1>3, ServerPublishOnce, ServerPubrelOnce, ServerConnectOnce DEF Server

\* Every step keeps the invariant of the QoS 2 handshake.
LEMMA NextOnce ==
  ASSUME WellUsed, IInv, Once, [Next]_vars
  PROVE  Once'
  <1>1. Typed
    BY DEF IInv
  <1>2. CASE Library
    BY <1>1, <1>2, WriteOnce, ReceiveOnce, EndOnce DEF Library
  <1>3. CASE Server \/ ServerExpire
    BY <1>3, ServerOnce
  <1>4. CASE Application
    BY <1>1, <1>4, ConnectOnce, PublishOnce, OtherSendOnce, EndOnce DEF Application
  <1>5. CASE Break \/ Restart \/ Expire
    BY <1>1, <1>5, EndOnce
  <1>6. CASE UNCHANGED vars
    <2>1. UNCHANGED <<setup, msg, server, store, writing, c2s, link, needStore>>
      BY <1>6 DEF vars, client, wire
    <2>2. Stored' = Stored /\ Sent' = Sent /\ Connects' = Connects
      BY <2>1 DEF Stored, Sent, Connects
    <2> QED BY <2>1, <2>2, OnceStays
  <1> QED BY <1>2, <1>3, <1>4, <1>5, <1>6 DEF Next

\* A QoS 2 message is passed on at most once, for every number of ids, messages and
\* broken connections, when the server keeps its session: over any interleaving of
\* resent packets, restarts, expiries and sessions that are given up.
THEOREM DeliveredOnce == ASSUME WellUsed PROVE Spec => []ExactlyOnce
  <1>1. Init => IInv /\ Once
    <2> SUFFICES ASSUME Init PROVE Once
      BY InitInvariant
    <2>1. Stored = {} /\ Sent = {} /\ Publishes = {}
      BY EmptyPipe DEF Init, Stored, Sent, Publishes, InFlight
    <2> QED BY <2>1 DEF Init, Once, Meant, Counted, Remembered, Sessions
  <1>2. (IInv /\ Once) /\ [Next]_vars => (IInv /\ Once)'
    BY NextInvariant, NextOnce
  <1>3. Once => ExactlyOnce
    BY DEF Once, Counted, ExactlyOnce
  <1> QED BY <1>1, <1>2, <1>3, PTL DEF Spec
===============================================================================
