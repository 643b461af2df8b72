-------------------------------- MODULE Session --------------------------------
(***************************************************************************)
(* The sending half of a client basic_endpoint: packet ids, the store, the *)
(* sets of ids that await a response, and the QoS 1 and 2 handshakes, over *)
(* a link that may break and a server that keeps a session.                *)
(*                                                                         *)
(* Every handler runs on the endpoint's executor, so each is one action.   *)
(* auto_pub_response is on: PUBREL is sent from the PUBREC handler.        *)
(* publish_send_max_ has its default, far above the ids in use here, so    *)
(* enqueue_publish lets every packet through; module ReceiveMaximum has    *)
(* the flow control.                                                       *)
(***************************************************************************)
EXTENDS Integers, Sequences, SequencesExt

CONSTANTS
  MaxId,          \* packet ids are 1..MaxId
  MaxMsg,         \* the application publishes messages 1..MaxMsg
  MaxBreaks,      \* bound on how often the link goes down
  Setups          \* the ways of using the endpoint, one of which a behavior has:
    \* v5        protocol_version::v5, otherwise v3.1.1
    \* connects  how the application connects: a set of [clean, keep] records, where
    \*           clean is clean_session or clean_start, and keep says that the session
    \*           outlives the connection
    \* faults    local send errors to explore: "tooBig", "badAlias"
    \* uses      what the application does besides publishing while connected:
    \*           "offline", "subscribe", "disconnect"; "restart", the program may end and
    \*           start again; "expire", messages have a Message Expiry Interval;
    \*           "shrink", the Maximum Packet Size differs from one CONNACK to the next
    \* expires   the server may discard the session of an absent client

ConnectKinds == [clean : BOOLEAN, keep : BOOLEAN]
KeptSession == [clean |-> FALSE, keep |-> TRUE]

ASSUME SessionAssumption ==
  /\ MaxId \in Nat \ {0} /\ MaxMsg \in Nat /\ MaxBreaks \in Nat
  /\ \A s \in Setups :
       /\ s.v5 \in BOOLEAN /\ s.expires \in BOOLEAN /\ s.connects \subseteq ConnectKinds
       /\ s.faults \subseteq {"tooBig", "badAlias"}
       /\ s.uses \subseteq {"offline", "subscribe", "disconnect", "restart", "expire", "shrink"}
       /\ ~s.v5 => s.faults = {} /\ \A c \in s.connects : c.keep = ~c.clean
       /\ ~s.v5 => s.uses \cap {"expire", "shrink"} = {}
       /\ "restart" \in s.uses =>
            "badAlias" \notin s.faults /\ \A c \in s.connects : c.clean \/ c.keep

Ids == 1..MaxId
Msgs == 1..MaxMsg

VARIABLES
  setup,       \* the member of Setups this behavior has
  status,      \* status_
  free,        \* the vacant ids of pid_man_
  store,       \* store_, in insertion order
  puback, pubrec, pubcomp, suback,    \* pid_puback_ and so on
  processing,  \* qos2_publish_processing_
  needStore,   \* need_store_
  writing,     \* send_ops whose write is not complete: [packet, rel], where
               \* rel says that release_pid_opt is set
  link,        \* "up" or "down"
  breaks,      \* how often it went down
  c2s, s2c,    \* packets on the wire
  session,     \* the server keeps a session for this client
  handled,     \* the server's qos2_publish_handled_
  msg,         \* what became of each message: see TypeOK
  delivered    \* how often the server passed each message on, counted up to 2

client == <<status, free, store, puback, pubrec, pubcomp, suback, processing, needStore>>
awaits == <<puback, pubrec, pubcomp, suback>>
wire == <<link, breaks, c2s, s2c>>
server == <<session, handled, delivered>>
vars == <<setup, client, writing, wire, server, msg>>

Packet(t, p, m, q) == [type |-> t, pid |-> p, msg |-> m, qos |-> q]
Publish(p, m, q) == Packet("publish", p, m, q)
Pubrel(p) == Packet("pubrel", p, 0, 2)
Ack(t, p) == Packet(t, p, 0, 0)
Connect(c) == [type |-> "connect", clean |-> c.clean, keep |-> c.keep]
Connack(sp) == [type |-> "connack", sp |-> sp]

Write(p, rel) == [packet |-> p, rel |-> rel]
Lowest(S) == CHOOSE i \in S : \A j \in S : i <= j
Open == {"connecting", "connected", "disconnecting"}
-------------------------------------------------------------------------------
\* store: unique by response packet type and packet id, a second add() is dropped.
Response(p) == CASE p.type = "pubrel" -> "pubcomp"
                 [] p.qos = 1 -> "puback"
                 [] OTHER -> "pubrec"
Key(p) == <<Response(p), p.pid>>

\* Mutants: only PUBLISH is stored; only PUBREL is stored; PUBREC erases nothing.
StoreAddPublish(s, p) == IF p.type = "publish" THEN Append(s, p) ELSE s
StoreAddPubrel(s, p) == IF p.type = "pubrel" THEN Append(s, p) ELSE s
StoreEraseFinal(s, r, pid) ==
  IF r = "pubrec" THEN s ELSE SelectSeq(s, LAMBDA e : Key(e) # <<r, pid>>)

StoreAdd(s, p) == IF \E i \in DOMAIN s : Key(s[i]) = Key(p) THEN s ELSE Append(s, p)
StoreErase(s, r, pid) ==
  LET found == {i \in DOMAIN s : Key(s[i]) = <<r, pid>>}
  IN IF found = {} THEN s ELSE RemoveAt(s, CHOOSE i \in found : TRUE)
Stored == ToSet(store)

Init ==
  /\ setup \in Setups
  /\ status = "closed" /\ free = Ids /\ store = <<>>
  /\ puback = {} /\ pubrec = {} /\ pubcomp = {} /\ suback = {} /\ processing = {}
  /\ needStore = FALSE /\ writing = <<>>
  /\ link = "down" /\ breaks = 0 /\ c2s = <<>> /\ s2c = <<>>
  /\ session = FALSE /\ handled = {}
  /\ msg = [m \in Msgs |-> "new"] /\ delivered = [m \in Msgs |-> 0]
-------------------------------------------------------------------------------
\* initialize() forgets the ids that await a response.
Initialize ==
  puback' = {} /\ pubrec' = {} /\ pubcomp' = {} /\ suback' = {} /\ processing' = {}

\* async_send(CONNECT) after the transport handshake of a new connection; by then
\* the writes of the previous one have completed.  A clean start forgets everything.
SendConnect(c) ==
  /\ status = "closed" /\ link = "down" /\ writing = <<>>
  /\ status' = "connecting" /\ link' = "up" /\ Initialize
  /\ needStore' = c.keep
  /\ free' = IF c.clean THEN Ids ELSE free
  /\ store' = IF c.clean THEN <<>> ELSE store
  /\ writing' = <<Write(Connect(c), FALSE)>>
  /\ UNCHANGED <<setup, breaks, c2s, s2c, server, msg>>

\* The ids a send_op of PUBLISH puts into the sets before it can still fail.
Await(ps) ==
  /\ puback' = puback \cup {p.pid : p \in {q \in ps : q.qos = 1}}
  /\ pubrec' = pubrec \cup {p.pid : p \in {q \in ps : q.qos = 2}}
  /\ processing' = processing \cup {p.pid : p \in {q \in ps : q.qos = 2}}

\* acquire_unique_packet_id() and async_send(PUBLISH) of a new message.  tooBig:
\* over maximum_packet_size_send_, found before store_.add() when the packet would be
\* stored and at the end of process_send_packet otherwise.  badAlias: the topic alias
\* is out of range, found after store_.add().  Both release the packet id.
SendPublish(m, q, fault) ==
  LET pid == Lowest(free)
      p == Publish(pid, m, q)
  IN /\ free # {} /\ msg[m] = "new" /\ \A n \in 1..(m - 1) : msg[n] # "new"
     /\ status = "connected" \/ "offline" \in setup.uses
     /\ store' = IF needStore /\ fault # "tooBig" THEN StoreAdd(store, p) ELSE store
     /\ Await(IF needStore /\ fault = "tooBig" THEN {} ELSE {p})
     /\ free' = IF fault = "none" THEN free \ {pid} ELSE free
     /\ msg' = [msg EXCEPT ![m] = IF fault # "none" THEN "refused"
                                     ELSE IF q = 1 THEN "qos1" ELSE "qos2"]
     /\ writing' = IF fault = "none" /\ status = "connected"
                   THEN Append(writing, Write(p, ~needStore)) ELSE writing
     /\ UNCHANGED <<setup, status, pubcomp, suback, needStore, wire, server>>

\* acquire_unique_packet_id() and async_send(SUBSCRIBE or UNSUBSCRIBE).
SendSubscribe ==
  LET pid == Lowest(free) IN
  /\ "subscribe" \in setup.uses /\ free # {} /\ status = "connected"
  /\ free' = free \ {pid} /\ suback' = suback \cup {pid}
  /\ writing' = Append(writing, Write(Ack("subscribe", pid), TRUE))
  /\ UNCHANGED <<setup, status, store, puback, pubrec, pubcomp, processing, needStore,
                 wire, server, msg>>

\* async_send(DISCONNECT).
SendDisconnect ==
  /\ "disconnect" \in setup.uses /\ status = "connected"
  /\ status' = "disconnecting"
  /\ writing' = Append(writing, Write(Ack("disconnect", 0), FALSE))
  /\ UNCHANGED <<setup, free, store, awaits, processing, needStore, wire, server, msg>>

\* The stream wrote the first queued packet: send_op completes without error.
WriteComplete ==
  /\ writing # <<>> /\ link = "up"
  /\ c2s' = Append(c2s, Head(writing).packet) /\ writing' = Tail(writing)
  /\ UNCHANGED <<setup, client, link, breaks, s2c, server, msg>>

\* The write failed: send_op releases the packet id it still answers for.
WriteError ==
  /\ writing # <<>> /\ link = "down"
  /\ free' = IF Head(writing).rel THEN free \cup {Head(writing).packet.pid} ELSE free
  /\ writing' = Tail(writing)
  /\ UNCHANGED <<setup, status, store, awaits, processing, needStore, wire, server, msg>>
-------------------------------------------------------------------------------
\* The transport breaks: what was on the wire is lost.
LinkDown ==
  /\ link = "up" /\ breaks < MaxBreaks
  /\ link' = "down" /\ breaks' = breaks + 1 /\ c2s' = <<>> /\ s2c' = <<>>

Break == LinkDown /\ UNCHANGED <<setup, client, writing, server, msg>>

\* close_op, started by the application or by recv_op after a read error.
Close ==
  /\ status \in Open /\ status' = "closing"
  /\ LinkDown \/ (link = "down" /\ UNCHANGED wire)
  /\ UNCHANGED <<setup, free, store, awaits, processing, needStore, writing, server, msg>>

CloseComplete ==
  /\ status = "closing" /\ status' = "closed"
  /\ UNCHANGED <<setup, free, store, awaits, processing, needStore, writing, wire, server,
                 msg>>

\* get_stored_packets(), and restore_packets(), which registers the packet ids first; a
\* mutant registers none.  The ids are distinct in the setups that restart.
NoneRegistered(ids, packets) == ids
Registered(ids, packets) == ids \ {p.pid : p \in ToSet(packets)}
GetStoredPackets == store
RestorePackets(packets) == store' = packets /\ free' = Registered(Ids, packets)

\* The program ends, whatever it was doing, and starts again with a new endpoint.  It
\* has kept what get_stored_packets() returned.
Restart ==
  /\ "restart" \in setup.uses /\ status' = "closed"
  /\ LinkDown \/ (link = "down" /\ UNCHANGED wire)
  /\ RestorePackets(GetStoredPackets) /\ Initialize
  /\ needStore' = FALSE /\ writing' = <<>>
  /\ UNCHANGED <<setup, server, msg>>

\* The timer of a stored PUBLISH fires.  Nobody releases its packet id then.
Expire ==
  /\ "expire" \in setup.uses
  /\ \E i \in DOMAIN store :
       /\ store[i].type = "publish"
       /\ store' = StoreErase(store, Response(store[i]), store[i].pid)
  /\ UNCHANGED <<setup, status, free, awaits, processing, needStore, writing, wire, server,
                 msg>>
-------------------------------------------------------------------------------
Received(t) == link = "up" /\ s2c # <<>> /\ Head(s2c).type = t
Consume == s2c' = Tail(s2c) /\ UNCHANGED <<link, breaks, c2s>>

\* What send_stored leaves of a store s: a packet over the new maximum_packet_size_send_ is
\* erased, and its id released.  A PUBREL is never too large.
Remaining(s) ==
  IF "shrink" \notin setup.uses THEN {s}
  ELSE {t \in SeqOf(ToSet(s), Len(s)) :
          /\ \A p \in ToSet(s) \ ToSet(t) : p.type = "publish"
          /\ \A i, j \in DOMAIN t : i < j =>
               \E k, l \in DOMAIN s : k < l /\ t[i] = s[k] /\ t[j] = s[l]}

\* The stored packets s, sent again.
Resent(s) == [i \in DOMAIN s |-> Write(s[i], s[i].type = "publish" /\ ~needStore)]

\* handle_*_connack: resend the stored packets, or forget all state.
RecvConnack ==
  /\ Received("connack") /\ Consume
  /\ status' = "connected"
  /\ IF Head(s2c).sp
     THEN \E s \in Remaining(store) :
            /\ Await({p \in ToSet(s) : p.type = "publish"})
            /\ pubcomp' = pubcomp \cup {p.pid : p \in {q \in ToSet(s) : q.type = "pubrel"}}
            /\ writing' = writing \o Resent(s) /\ store' = s
            /\ free' = free \cup {p.pid : p \in Stored \ ToSet(s)}
     ELSE /\ free' = Ids /\ store' = <<>>
          /\ UNCHANGED <<puback, pubrec, pubcomp, processing, writing>>
  /\ UNCHANGED <<setup, suback, needStore, server, msg>>

\* An ack nobody awaits is a protocol_error: recv_op sends DISCONNECT (v5) and goes
\* on to close_op, the action Close.
Reject ==
  IF setup.v5 /\ status = "connected"
  THEN /\ status' = "disconnecting"
       /\ writing' = Append(writing, Write(Ack("disconnect", 0), FALSE))
  ELSE UNCHANGED <<status, writing>>

RecvPuback ==
  LET pid == Head(s2c).pid IN
  /\ Received("puback") /\ Consume
  /\ IF pid \in puback
     THEN /\ puback' = puback \ {pid} /\ free' = free \cup {pid}
          /\ store' = StoreErase(store, "puback", pid)
          /\ UNCHANGED <<status, writing>>
     ELSE Reject /\ UNCHANGED <<puback, free, store>>
  /\ UNCHANGED <<setup, pubrec, pubcomp, suback, processing, needStore, server, msg>>

\* A PUBREC with an error code ends the handshake (v5); otherwise PUBREL follows,
\* unless the connection is no longer in connected.
RecvPubrec ==
  LET pid == Head(s2c).pid
      rest == StoreErase(store, "pubrec", pid)
      release == ~Head(s2c).err /\ status = "connected"
  IN /\ Received("pubrec") /\ Consume
     /\ IF pid \in pubrec
        THEN /\ pubrec' = pubrec \ {pid} /\ UNCHANGED status
             /\ free' = IF Head(s2c).err THEN free \cup {pid} ELSE free
             /\ processing' = IF Head(s2c).err THEN processing \ {pid} ELSE processing
             /\ store' = IF release /\ needStore THEN StoreAdd(rest, Pubrel(pid)) ELSE rest
             /\ pubcomp' = IF release THEN pubcomp \cup {pid} ELSE pubcomp
             /\ writing' = IF release THEN Append(writing, Write(Pubrel(pid), FALSE))
                                      ELSE writing
        ELSE Reject /\ UNCHANGED <<pubrec, free, processing, store, pubcomp>>
     /\ UNCHANGED <<setup, puback, suback, needStore, server, msg>>

RecvPubcomp ==
  LET pid == Head(s2c).pid IN
  /\ Received("pubcomp") /\ Consume
  /\ IF pid \in pubcomp
     THEN /\ pubcomp' = pubcomp \ {pid} /\ free' = free \cup {pid}
          /\ processing' = processing \ {pid}
          /\ store' = StoreErase(store, "pubcomp", pid)
          /\ UNCHANGED <<status, writing>>
     ELSE Reject /\ UNCHANGED <<pubcomp, free, processing, store>>
  /\ UNCHANGED <<setup, puback, pubrec, suback, needStore, server, msg>>

RecvSuback ==
  LET pid == Head(s2c).pid IN
  /\ Received("suback") /\ Consume
  /\ free' = IF pid \in suback THEN free \cup {pid} ELSE free
  /\ suback' = suback \ {pid}
  /\ UNCHANGED <<setup, status, store, puback, pubrec, pubcomp, processing, needStore,
                 writing, server, msg>>
-------------------------------------------------------------------------------
\* The server: a conforming broker on a server endpoint of this library.
Arrived(t) == link = "up" /\ c2s # <<>> /\ Head(c2s).type = t
Reply(p) == c2s' = Tail(c2s) /\ s2c' = Append(s2c, p) /\ UNCHANGED <<link, breaks>>
Deliver(m) == delivered' = [delivered EXCEPT ![m] = IF @ = 2 THEN 2 ELSE @ + 1]

\* CONNECT: the session and its handled ids are resumed, or start anew.
ServerConnect ==
  LET p == Head(c2s)
      sp == session /\ ~p.clean
  IN /\ Arrived("connect") /\ Reply(Connack(sp))
     /\ session' = p.keep
     /\ handled' = IF sp THEN handled ELSE {}
     /\ UNCHANGED <<setup, client, writing, msg, delivered>>

ServerPublishQos1 ==
  LET p == Head(c2s) IN
  /\ Arrived("publish") /\ p.qos = 1
  /\ Reply(Ack("puback", p.pid)) /\ Deliver(p.msg)
  /\ UNCHANGED <<setup, client, writing, msg, session, handled>>

\* process_qos2_publish: a handled id gets a PUBREC and is not passed on again.
PassOnAgain(p) == TRUE    \* mutant: a resent PUBLISH is passed on again
PassOn(p) == p.pid \notin handled
Pubrec(p, e) == [type |-> "pubrec", pid |-> p, err |-> e]

ServerPublishQos2 ==
  LET p == Head(c2s) IN
  /\ Arrived("publish") /\ p.qos = 2
  /\ Reply(Pubrec(p.pid, FALSE))
  /\ handled' = handled \cup {p.pid}
  /\ IF PassOn(p) THEN Deliver(p.msg) ELSE UNCHANGED delivered
  /\ UNCHANGED <<setup, client, writing, msg, session>>

\* v5: the broker refuses a new message; sending the PUBREC forgets the id again.
ServerRefuseQos2 ==
  LET p == Head(c2s) IN
  /\ setup.v5 /\ Arrived("publish") /\ p.qos = 2 /\ PassOn(p)
  /\ Reply(Pubrec(p.pid, TRUE))
  /\ msg' = [msg EXCEPT ![p.msg] = "rejected"]
  /\ UNCHANGED <<setup, client, writing, server>>

ServerPubrel ==
  LET p == Head(c2s) IN
  /\ Arrived("pubrel") /\ Reply(Ack("pubcomp", p.pid))
  /\ handled' = handled \ {p.pid}
  /\ UNCHANGED <<setup, client, writing, msg, session, delivered>>

ServerSubscribe ==
  /\ Arrived("subscribe") /\ Reply(Ack("suback", Head(c2s).pid))
  /\ UNCHANGED <<setup, client, writing, msg, server>>

ServerDisconnect ==
  /\ Arrived("disconnect") /\ LinkDown
  /\ UNCHANGED <<setup, client, writing, msg, server>>

\* The server discards the session of an absent client (expiry, restart).
ServerExpire ==
  /\ setup.expires /\ link = "down" /\ session /\ session' = FALSE /\ handled' = {}
  /\ UNCHANGED <<setup, client, writing, msg, wire, delivered>>
-------------------------------------------------------------------------------
Library ==
  \/ WriteComplete \/ WriteError \/ CloseComplete
  \/ RecvConnack \/ RecvPuback \/ RecvPubrec \/ RecvPubcomp \/ RecvSuback
Server ==
  \/ ServerConnect \/ ServerPublishQos1 \/ ServerPublishQos2 \/ ServerRefuseQos2
  \/ ServerPubrel \/ ServerSubscribe \/ ServerDisconnect
Publishing ==
  \E m \in Msgs, q \in {1, 2}, f \in setup.faults \cup {"none"} : SendPublish(m, q, f)
Application ==
  \/ \E c \in setup.connects : SendConnect(c)
  \/ Publishing \/ SendSubscribe \/ SendDisconnect \/ Close

Next == Library \/ Server \/ Application \/ Break \/ ServerExpire \/ Restart \/ Expire

Spec == Init /\ [][Next]_vars

\* The executor runs what is posted to it, the server answers, recv_op closes a
\* broken connection, and the application connects again with a kept session.
Fairness ==
  /\ WF_vars(Library) /\ WF_vars(Server)
  /\ WF_vars(link = "down" /\ Close)
  /\ WF_vars(KeptSession \in setup.connects /\ SendConnect(KeptSession))
FairSpec == Spec /\ Fairness
-------------------------------------------------------------------------------
InFlight == Stored \cup {w.packet : w \in ToSet(writing)} \cup ToSet(c2s)
Publishes == {p \in InFlight : p.type = "publish"}

\* The ranges of the endpoint's state; a message is new, refused by async_send,
\* accepted as QoS 1 or 2, or rejected by the server.
TypeOK ==
  /\ status \in Open \cup {"closing", "closed"}
  /\ free \subseteq Ids /\ handled \subseteq Ids
  /\ puback \cup pubrec \cup pubcomp \cup suback \cup processing \subseteq Ids
  /\ \A p \in Stored : p.type \in {"publish", "pubrel"} /\ p.pid \in Ids
  /\ needStore \in BOOLEAN /\ session \in BOOLEAN /\ link \in {"up", "down"}
  /\ breaks \in 0..MaxBreaks
  /\ msg \in [Msgs -> {"new", "refused", "qos1", "qos2", "rejected"}]
  /\ delivered \in [Msgs -> 0..2]

\* A QoS 2 message reaches the server's application at most once, however the link
\* breaks, the program restarts, the session resumes and packets are resent.  (When the
\* server has lost the session and the CONNACK that says so is lost, nobody can tell.)
ExactlyOnce ==
  ~setup.expires => \A m \in Msgs : msg[m] = "qos2" => delivered[m] <= 1

\* No ack of a conforming server is rejected as a protocol_error: its id is in the
\* set that the handler erases it from, also after a resume.
AcksExpected ==
  \A i \in DOMAIN s2c :
    /\ s2c[i].type = "puback" => s2c[i].pid \in puback
    /\ s2c[i].type = "pubrec" => s2c[i].pid \in pubrec
    /\ s2c[i].type = "pubcomp" => s2c[i].pid \in pubcomp

\* The id of a stored packet is in use: no new packet can get it while the stored
\* one may still be resent.
StoredIdsUsed == \A p \in Stored : p.pid \notin free

\* One id is never in flight for two messages at once.
OneMessagePerId == \A p, q \in Publishes : p.pid = q.pid => p.msg = q.msg

\* An endpoint that does nothing but publish, on kept sessions, apart from what is in uses.
OnlyPublishes(uses) == setup.uses \subseteq uses /\ setup.connects = {KeptSession}

\* Every message async_send accepted on a kept session reaches the server's
\* application or is refused by it, once the link stays up long enough and the program
\* runs.  Not so with "shrink": a stored message that a later CONNACK makes too large is
\* erased, and nobody is told.
AcceptedIsDelivered ==
  \A m \in Msgs :
    OnlyPublishes({"restart"}) /\ msg[m] \in {"qos1", "qos2"}
      ~> delivered[m] > 0 \/ msg[m] = "rejected"

\* Every packet id in use is released again: the handshake that holds it ends, over
\* however many connections and restarts; a local send error, a message that the server
\* refuses and one that became too large to be resent give it back as well.
EveryIdReturns ==
  \A i \in Ids : OnlyPublishes({"restart", "shrink"}) /\ i \notin free ~> i \in free
===============================================================================
