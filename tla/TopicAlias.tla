------------------------------ MODULE TopicAlias ------------------------------
(***************************************************************************)
(* v5.0 PUBLISH packets with topic aliases, from the endpoint that sends   *)
(* them to the one that receives them.  The sender keeps the aliases of    *)
(* topic_alias_send_ in the order of their time points, applies them in    *)
(* one of three modes, and only then looks at the Receive Maximum and the  *)
(* Maximum Packet Size of the peer; the receiver keeps its own table.      *)
(* A message is identified with its packet id.                             *)
(***************************************************************************)
EXTENDS Integers, Sequences, FiniteSets, FiniteSetsExt, SequencesExt

CONSTANTS
  N,          \* messages 1..N are published, in this order
  Topics,     \* topic names
  NoTopic,    \* the empty topic name
  AliasMax,   \* bound on the Topic Alias Maximum of the receiver
  Maximum,    \* Receive Maximum of the receiver
  Modes,      \* a subset of {"manual", "map", "replace"}
  Rooms,      \* Maximum Packet Size, less the payload: room for a topic, or an alias too
  MaxDowns    \* bound on how often the connection goes down

ASSUME AliasAssumption ==
  /\ N \in Nat /\ AliasMax \in Nat \ {0} /\ Maximum \in Nat \ {0} /\ MaxDowns \in Nat
  /\ Modes \subseteq {"manual", "map", "replace"} /\ Rooms \subseteq 2..3
  /\ NoTopic \notin Topics

Msgs == 1..N
Aliases == 1..AliasMax
Wrap == 2^16

VARIABLES
  mode,       \* auto_map_topic_alias_send_, auto_replace_topic_alias_send_ or neither
  next,       \* the next message to publish
  message,    \* per published message: its topic, QoS, and room
  snd,        \* the sender, see Sender
  rcv,        \* the receiver: topic_alias_recv_ and publish_recv_
  back,       \* PUBACK packets on their way to the sender
  link,       \* "up", or why the connection is down
  downs       \* how often the connection went down

vars == <<mode, next, message, snd, rcv, back, link, downs>>

\* A packet has its message, its topic or NoTopic, and its alias or 0.
Packet(m, t, a) == [m |-> m, topic |-> t, alias |-> a]

\* max: Topic Alias Maximum of the connection; entries: oldest time point first; used:
\* the ids va_ has given out; spoiled (history): an alias was applied to a packet of
\* this connection that was not written at once.
Sender(max, stored) ==
  [max |-> max, entries |-> <<>>, used |-> {}, count |-> 0, queue |-> <<>>, wire |-> <<>>,
   stored |-> stored, spoiled |-> FALSE]
Receiver == [table |-> [a \in Aliases |-> NoTopic], pending |-> {}]

Init ==
  /\ mode \in Modes /\ next = 1 /\ message = <<>>
  /\ (\E x \in Aliases : snd = Sender(x, <<>>)) /\ rcv = Receiver /\ back = <<>>
  /\ link = "up" /\ downs = 0
-------------------------------------------------------------------------------
Elements(s) == {s[i] : i \in DOMAIN s}
Without(es, a) == RemoveFirstMatch(es, LAMBDA e : e.alias = a)

\* Mutants: a mapped alias keeps its topic; the first packet with an automatic alias
\* goes out without its topic; the stored packet keeps the alias.
RegisterOnce(s, t, a) ==
  [s EXCEPT !.used = @ \cup {a},
            !.entries = IF \E e \in Elements(@) : e.alias = a \/ e.topic = t THEN @
                        ELSE Append(@, [alias |-> a, topic |-> t])]

\* topic_alias_send::insert_or_update.  The topics are unique too: when another alias
\* has this topic, a new entry is not inserted, and an existing one is erased (NDEBUG:
\* with assertions on, the program ends).
Register(s, t, a) ==
  [s EXCEPT !.used = @ \cup {a},
            !.entries = IF \E e \in Elements(@) : e.topic = t /\ e.alias # a
                        THEN Without(@, a)
                        ELSE Append(Without(@, a), [alias |-> a, topic |-> t])]

\* find(alias) gives the entry a new time point, find(topic) does not.
Entry(s, a) == {e \in Elements(s.entries) : e.alias = a}
Touch(s, a) == [s EXCEPT !.entries = Without(@, a) \o SetToSeq(Entry(s, a))]
AliasesOf(s, t) == {e.alias : e \in {f \in Elements(s.entries) : f.topic = t}}

\* get_lru_alias: the first vacant alias, or the one with the oldest time point.
LruAlias(s) ==
  IF s.used # 1..s.max THEN Min(1..s.max \ s.used) ELSE Head(s.entries).alias

\* validate_topic_alias and validate_topic_alias_range.
Valid(s, p) ==
  IF p.topic = NoTopic THEN Entry(s, p.alias) # {} ELSE p.alias \in 0..s.max

\* The alias the packet goes out with, 0 for none, and whether it replaces the topic.
Chosen(s, p) ==
  IF p.alias # 0 \/ mode = "manual" THEN p.alias
  ELSE IF AliasesOf(s, p.topic) # {} THEN CHOOSE a \in AliasesOf(s, p.topic) : TRUE
  ELSE IF mode = "map" THEN LruAlias(s) ELSE 0
Replaced(s, p) == p.alias = 0 /\ mode # "manual" /\ AliasesOf(s, p.topic) # {}

AppliedAtOnce(s, p) ==
  Packet(p.m, IF p.alias # Chosen(s, p) THEN NoTopic ELSE p.topic, Chosen(s, p))

\* "apply topic_alias": the packet as it is sent, and the table after it.
Applied(s, p) ==
  Packet(p.m, IF Replaced(s, p) THEN NoTopic ELSE p.topic, Chosen(s, p))
Table(s, p) ==
  IF p.topic = NoTopic THEN Touch(s, p.alias)
  ELSE IF Chosen(s, p) = 0 \/ Replaced(s, p) THEN s
  ELSE Register(s, p.topic, Chosen(s, p))

\* The alias alone, the topic alone, or both.
Size(p) == (IF p.topic = NoTopic THEN 0 ELSE 2) + (IF p.alias = 0 THEN 0 ELSE 1)
-------------------------------------------------------------------------------
Spoil(s, p) == [s EXCEPT !.spoiled = @ \/ p.alias # 0]
Held(s) == s.count = Maximum \/ s.queue # <<>>
Count(s) == IF s.count = Maximum THEN s ELSE [s EXCEPT !.count = (@ + 1) % Wrap]

\* The size is validated last, when the alias is registered and the packet is counted.
Write(ms, s, p) ==
  IF Size(p) > ms[p.m].room THEN Spoil(s, p) ELSE [s EXCEPT !.wire = Append(@, p)]

\* enqueue_publish, but not for a packet that comes from the queue.
Enqueue(ms, s, p) ==
  IF ms[p.m].qos = 0 THEN Write(ms, s, p)
  ELSE IF Held(s) THEN Spoil([Count(s) EXCEPT !.queue = Append(@, p)], p)
  ELSE Write(ms, Count(s), p)

\* process_send_packet from "apply topic_alias" on.
Send(ms, s, p) ==
  IF Valid(s, p) THEN Enqueue(ms, Table(s, p), Applied(s, p)) ELSE s
SendQueued(ms, s, p) ==
  IF Valid(s, p) THEN Write(ms, Table(s, p), Applied(s, p)) ELSE s

\* send_publish_from_queue: the loop tests the count, and does not change it.
Flush(ms, s) ==
  IF s.count = Maximum THEN s
  ELSE FoldLeft(LAMBDA t, p : SendQueued(ms, t, p), [s EXCEPT !.queue = <<>>], s.queue)

\* send_stored() calls enqueue_publish itself, then async_send, which does so again.
Resend(ms, s, p) ==
  IF Held(s) THEN [Count(s) EXCEPT !.queue = Append(@, p)] ELSE Send(ms, Count(s), p)

\* The topic a packet of the application is about.
TopicOf(s, p) ==
  IF p.topic # NoTopic THEN p.topic ELSE (CHOOSE e \in Entry(s, p.alias) : TRUE).topic

PlainAsSent(s, p) == Packet(p.m, p.topic, p.alias)

\* The packet as it is stored.
Plain(s, p) == Packet(p.m, TopicOf(s, p), 0)

\* async_send of PUBLISH.  A packet of QoS 1 is stored first, with its topic and without
\* its alias.  An alias out of range is refused after that, and the packet stays stored.
Publish(t, a, q, room) ==
  LET p == Packet(next, t, a)
      plain == Plain(snd, p)
      kept == [(IF t = NoTopic THEN Touch(snd, a) ELSE snd) EXCEPT
                 !.stored = IF q = 0 THEN @ ELSE Append(@, plain)]
      ms == Append(message, [topic |-> TopicOf(snd, p), qos |-> q, room |-> room])
  IN /\ link = "up" /\ next <= N
     /\ t # NoTopic \/ Valid(snd, p)
     /\ next' = next + 1 /\ message' = ms
     /\ snd' = Send(ms, kept, p)
     /\ UNCHANGED <<mode, rcv, back, link, downs>>
-------------------------------------------------------------------------------
\* The receiver's table after a packet, and the topic the packet is about.
Update(table, p) ==
  IF p.topic # NoTopic /\ p.alias # 0 THEN [table EXCEPT ![p.alias] = p.topic] ELSE table
Resolve(table, p) == IF p.topic = NoTopic THEN table[p.alias] ELSE p.topic

\* recv_op of PUBLISH: the receive maximum first, then the alias.  An error sends
\* DISCONNECT and closes.
Receive ==
  LET p == Head(snd.wire)
      counted == message[p.m].qos # 0
      full == counted /\ Cardinality(rcv.pending) = Maximum
      topic == Resolve(rcv.table, p)
  IN /\ link = "up" /\ snd.wire # <<>>
     /\ snd' = [snd EXCEPT !.wire = Tail(@)]
     /\ rcv' = IF full THEN rcv
               ELSE [table |-> Update(rcv.table, p),
                     pending |-> IF counted THEN rcv.pending \cup {p.m} ELSE rcv.pending]
     /\ link' = IF full THEN "receive_maximum_exceeded"
                ELSE IF topic = NoTopic THEN "topic_alias_invalid" ELSE "up"
     /\ UNCHANGED <<mode, next, message, back, downs>>

\* The receiving application acknowledges a message when it likes.
Acknowledge(m) ==
  /\ link = "up" /\ m \in rcv.pending
  /\ rcv' = [rcv EXCEPT !.pending = @ \ {m}] /\ back' = Append(back, m)
  /\ UNCHANGED <<mode, next, message, snd, link, downs>>

\* recv_op of PUBACK.
RecvPuback ==
  /\ link = "up" /\ back # <<>> /\ back' = Tail(back)
  /\ snd' = Flush(message, [snd EXCEPT !.count = (@ - 1) % Wrap,
                                       !.stored = RemoveFirstMatch(@, LAMBDA p : p.m = Head(back))])
  /\ UNCHANGED <<mode, next, message, rcv, link, downs>>

Down ==
  /\ link = "up" /\ link' = "lost"
  /\ UNCHANGED <<mode, next, message, snd, rcv, back, downs>>

\* CONNECT and CONNACK with session present, and a Topic Alias Maximum of its own: both
\* sides have no alias again, and the stored packets are sent.
Connect ==
  /\ link # "up" /\ downs < MaxDowns
  /\ link' = "up" /\ downs' = downs + 1 /\ rcv' = Receiver /\ back' = <<>>
  /\ \E max \in Aliases :
       snd' = FoldLeft(LAMBDA s, p : Resend(message, s, p),
                       Sender(max, snd.stored), snd.stored)
  /\ UNCHANGED <<mode, next, message>>

Next ==
  \/ \E t \in Topics \cup {NoTopic}, a \in 0..(AliasMax + 1), q \in {0, 1}, room \in Rooms :
       Publish(t, a, q, room)
  \/ Receive \/ (\E m \in Msgs : Acknowledge(m)) \/ RecvPuback \/ Down \/ Connect

Spec == Init /\ [][Next]_vars
-------------------------------------------------------------------------------
\* What the receiver's table will be when it has received the first n packets underway.
TableAfter(n) == FoldLeft(Update, rcv.table, SubSeq(snd.wire, 1, n))

\* The tables of a connection.
TypeOK ==
  /\ mode \in Modes /\ next = Len(message) + 1 /\ next <= N + 1 /\ downs \in 0..MaxDowns
  /\ \A e \in Elements(snd.entries) : e.alias \in snd.used /\ e.topic \in Topics
  /\ snd.used \subseteq 1..snd.max /\ snd.max \in Aliases /\ snd.count \in 0..(Wrap - 1)
  /\ rcv.table \in [Aliases -> Topics \cup {NoTopic}] /\ rcv.pending \subseteq Msgs

\* The receiver will know every alias the sender may use, with the same topic, unless an
\* alias was applied to a packet that did not go out at once.
TablesAgree ==
  link = "up" /\ ~snd.spoiled =>
    \A e \in Elements(snd.entries) : TableAfter(Len(snd.wire))[e.alias] = e.topic

\* Under the same condition each packet underway will be understood as it was meant.
UnderstoodAsPublished ==
  link = "up" /\ ~snd.spoiled =>
    \A i \in DOMAIN snd.wire :
      Resolve(TableAfter(i - 1), snd.wire[i]) = message[snd.wire[i].m].topic

\* A stored packet has its topic and no alias, so that a later connection, whose tables
\* start empty, can resend it.
StoredWithTopic ==
  \A p \in Elements(snd.stored) : p.topic = message[p.m].topic /\ p.alias = 0
===============================================================================
