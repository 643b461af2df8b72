---------------------------- MODULE ReceiveMaximum ----------------------------
(***************************************************************************)
(* The flow control of a v5.0 endpoint that sends PUBLISH packets of QoS 1 *)
(* and 2: publish_send_count_ counts them up to publish_send_max_, the     *)
(* Receive Maximum of the peer, and publish_queue_ keeps those beyond it.  *)
(* The peer answers in the order MQTT asks for.  What a connection loses   *)
(* and how ids are reused is the subject of module Session; here a message *)
(* is identified with its packet id, and the session is kept.              *)
(***************************************************************************)
EXTENDS Integers, Sequences, FiniteSets, SequencesExt

CONSTANTS
  N,          \* messages 1..N are published, in this order
  Maximum,    \* the Receive Maximum that every CONNACK of the peer has
  QoS,        \* the qualities of service in use, a subset of {1, 2}
  MaxDowns,   \* bound on how often the connection goes down
  Wrap        \* publish_send_count_ is unsigned: 2^16 in the code

ASSUME FlowAssumption ==
  /\ N \in Nat /\ Maximum \in Nat \ {0} /\ MaxDowns \in Nat
  /\ QoS \subseteq {1, 2}
  /\ Wrap \in Nat /\ Maximum < Wrap

Msgs == 1..N

VARIABLES
  status,    \* status_: "closed", "connecting", "connected"
  downs,     \* how often the connection went down
  st,        \* per message: "new", "publish" or "pubrel" is in the store, "done", and
             \* "dropped" with the session, or because it came before the first CONNECT
  qos,       \* per message: 0 as long as it is new
  limit,     \* publish_send_max_, from the CONNACK of this or an earlier connection
  count,     \* publish_send_count_
  queue,     \* publish_queue_
  sent,      \* the PUBLISH packets written on this connection
  answered,  \* the messages of sent that got PUBACK or PUBREC
  large,     \* the messages whose PUBLISH is over maximum_packet_size_send_ once it has
             \* its topic alias, and is not without
  early      \* what async_send did with PUBLISH packets between the CONNECT and the CONNACK
             \* of this connection: "no", there was none, "counted" each, "held" one back

vars == <<status, downs, st, qos, limit, count, queue, sent, answered, large, early>>
flow == <<limit, count, queue, sent, large>>

\* The endpoint's sending state as a value, for the steps one handler makes.
Flow == [max |-> limit, count |-> count, queue |-> queue, sent |-> sent, large |-> large]
Becomes(next) == \E f \in {next} :
  /\ limit' = f.max /\ count' = f.count /\ queue' = f.queue /\ sent' = f.sent
  /\ large' = f.large

\* The end of process_send_packet, after store_.add() and the count: a packet that is too
\* large is refused, and stays stored and counted.
Emit(f, m) == IF m \in f.large THEN f ELSE [f EXCEPT !.sent = Append(@, m)]

Init ==
  /\ status = "closed" /\ downs = 0
  /\ st = [m \in Msgs |-> "new"] /\ qos = [m \in Msgs |-> 0]
  /\ limit = Wrap - 1 /\ count = 0 /\ queue = <<>> /\ sent = <<>> /\ answered = {}
  /\ large = {} /\ early = "no"
-------------------------------------------------------------------------------
\* Mutants: kept back packets overtake each other; no loop at all.
HoldFront(f, m) == [f EXCEPT !.queue = <<m>> \o @]
UncountedOnly(f) == [f EXCEPT !.count = (@ - 1) % Wrap]

Hold(f, m) == [f EXCEPT !.queue = Append(@, m)]

\* enqueue_publish: the packet is kept back when the maximum is reached, and behind
\* those kept back before; it is counted unless the maximum is reached.
Held(f) == f.count = f.max \/ f.queue # <<>>
Counted(f) == IF f.count = f.max THEN f ELSE [f EXCEPT !.count = (@ + 1) % Wrap]

\* send_op of PUBLISH: kept back, or counted and written.
SendPublish(f, m) == IF Held(f) THEN Hold(Counted(f), m) ELSE Emit(Counted(f), m)

\* send_stored() calls enqueue_publish itself, then async_send, which does so again.
Resend(f, m) ==
  IF Held(f) THEN Hold(Counted(f), m) ELSE SendPublish(Counted(f), m)
ResendAll(from, s) ==
  FoldLeft(LAMBDA f0, m : CHOOSE g \in {Resend(f, m) : f \in {f0}} : TRUE, from, s)

\* send_publish_from_queue: the loop tests the count, and does not change it.
Flush(f) ==
  LET fit == SelectSeq(f.queue, LAMBDA m : m \notin f.large)
  IN IF f.count = f.max THEN f ELSE [f EXCEPT !.sent = @ \o fit, !.queue = <<>>]

\* --publish_send_count_, then send_publish_from_queue().
Uncounted(f) == Flush([f EXCEPT !.count = (@ - 1) % Wrap])
-------------------------------------------------------------------------------
\* need_store_, which the first CONNECT sets.
NeedStore == downs > 0 \/ status # "closed"

\* The application sends PUBLISH m, whatever the status: stored if need_store_, counted or
\* kept back, and written if connected.  fits is FALSE for a member of large.
Publish(m, q, fits) ==
  LET f == [Flow EXCEPT !.large = IF fits THEN @ ELSE @ \cup {m}] IN
  /\ st[m] = "new" /\ \A k \in 1..(m - 1) : st[k] # "new"
  /\ st' = [st EXCEPT ![m] = IF NeedStore THEN "publish" ELSE "dropped"]
  /\ qos' = [qos EXCEPT ![m] = q]
  /\ Becomes(IF status = "connected" THEN SendPublish(f, m)
             ELSE [SendPublish(f, m) EXCEPT !.sent = <<>>])
  /\ early' = IF status # "connecting" THEN early
              ELSE IF Held(f) THEN "held" ELSE "counted"
  /\ UNCHANGED <<status, downs, answered>>

\* The first written PUBLISH that the peer has not answered.
Next1 == {i \in DOMAIN sent : \A j \in 1..i : sent[j] \in answered <=> j < i}
Answer(m) == \E i \in Next1 : sent[i] = m

\* PUBACK, or PUBREC with an error: the handshake ends.
RecvFinal(m) ==
  /\ status = "connected" /\ Answer(m) /\ st[m] = "publish"
  /\ st' = [st EXCEPT ![m] = "done"] /\ answered' = answered \cup {m}
  /\ Becomes(Uncounted(Flow))
  /\ UNCHANGED <<status, downs, qos, early>>

\* PUBREC: PUBREL is stored and sent.
RecvPubrec(m) ==
  /\ status = "connected" /\ Answer(m) /\ st[m] = "publish" /\ qos[m] = 2
  /\ st' = [st EXCEPT ![m] = "pubrel"] /\ answered' = answered \cup {m}
  /\ UNCHANGED <<status, downs, qos, flow, early>>

\* PUBCOMP.
RecvPubcomp(m) ==
  /\ status = "connected" /\ st[m] = "pubrel"
  /\ st' = [st EXCEPT ![m] = "done"]
  /\ UNCHANGED <<status, downs, qos, flow, answered, early>>

Down ==
  /\ status # "closed" /\ downs < MaxDowns
  /\ status' = "closed" /\ downs' = downs + 1
  /\ sent' = <<>> /\ answered' = {}
  /\ UNCHANGED <<st, qos, limit, count, queue, large, early>>

\* CONNECT: initialize() forgets the count and the queue, not the maximum.
SendConnect ==
  /\ status = "closed" /\ status' = "connecting"
  /\ Becomes([Flow EXCEPT !.count = 0, !.queue = <<>>])
  /\ early' = "no"
  /\ UNCHANGED <<downs, st, qos, answered>>

Granted == [Flow EXCEPT !.max = Maximum]
Unacked == SelectSeq([m \in Msgs |-> m], LAMBDA m : st[m] = "publish")

\* CONNACK with session present: the stored PUBLISH packets are sent in their order.
RecvConnack ==
  /\ status = "connecting" /\ status' = "connected"
  /\ Becomes(ResendAll(Granted, Unacked))
  /\ UNCHANGED <<downs, st, qos, answered, early>>

\* CONNACK without: the ids and the store are cleared, the queue is not.
RecvNewSession ==
  /\ status = "connecting" /\ status' = "connected"
  /\ st' = [m \in Msgs |-> IF st[m] \in {"publish", "pubrel"} THEN "dropped" ELSE st[m]]
  /\ Becomes(Granted)
  /\ UNCHANGED <<downs, qos, answered, early>>
-------------------------------------------------------------------------------
Peer == \E m \in Msgs : RecvFinal(m) \/ RecvPubrec(m) \/ RecvPubcomp(m)

Next ==
  \/ \E m \in Msgs, q \in QoS, fits \in BOOLEAN : Publish(m, q, fits)
  \/ Peer \/ Down \/ SendConnect \/ RecvConnack \/ RecvNewSession

Spec == Init /\ [][Next]_vars

\* The peer answers what it got, as long as the connection is up.
FairSpec == Spec /\ WF_vars(Peer) /\ WF_vars(SendConnect) /\ WF_vars(RecvConnack)
-------------------------------------------------------------------------------
Elements(s) == {s[i] : i \in DOMAIN s}
Increasing(s) == \A i, j \in DOMAIN s : i < j => s[i] < s[j]

\* The count stays within its type; a new message is nowhere.
TypeOK ==
  /\ status \in {"closed", "connecting", "connected"} /\ downs \in 0..MaxDowns
  /\ st \in [Msgs -> {"new", "publish", "pubrel", "done", "dropped"}]
  /\ {limit, count} \subseteq 0..(Wrap - 1) /\ early \in {"no", "counted", "held"}
  /\ large \subseteq Msgs /\ answered \subseteq Elements(sent)
  /\ \A m \in Elements(queue) \cup Elements(sent) : st[m] # "new"

\* "The order of sending the PUBLISH packets is the same as the order of the user's
\* async_send() function calls." (doc/functionality/receive_maximum.html:138)  What is kept
\* back follows what is sent, unless a PUBLISH was kept back before the CONNACK: the stored
\* ones line up behind it then.
SentInOrder == Increasing(IF early = "held" THEN sent ELSE sent \o queue)

\* Every PUBLISH that is kept back goes out in the end, as the peer answers those before
\* it.  Not so with QoS 2, whose PUBCOMP does not decrease the count; nor when a PUBLISH was
\* counted between CONNECT and CONNACK, as the resend counts it again; nor when one was
\* counted and then refused for its size.
Regular == (\A m \in Msgs : qos[m] # 2) /\ early = "no" /\ large = {}
QueueDrains == Regular /\ queue # <<>> ~> ~Regular \/ queue = <<>>

===============================================================================
