------------------------------- MODULE Codec -------------------------------
(***************************************************************************)
(* Packets from an application to the peer's application: an object is     *)
(* built from values, changed by the endpoint, sent as octets, parsed by   *)
(* buffer_to_packet_variant and, when it is a PUBLISH, changed and sent    *)
(* again (PacketsV3, PacketsV5). The peer may also send something else,    *)
(* framed by its length as stream_read_packet does.                        *)
(***************************************************************************)
EXTENDS PacketsV3, PacketsV5

CONSTANTS Texts,        \* texts of the packets
          Lists,        \* lists of properties
          Payloads,     \* of a PUBLISH: sequences of buffers
          Wills,        \* optional wills of v5.0
          Octets,       \* octets that turn up in a malformed packet
          Words,        \* what a peer may send as a text
          MaxChanges    \* bound on the changes of one PUBLISH

VARIABLES pkt,      \* the object of the sender, or NoPacket
          wire,     \* the octets of the packet being received
          intact,   \* whether they are those the sender gave
          got,      \* the object of the receiver, or an error
          changes   \* changes of the PUBLISH so far

vars == <<pkt, wire, intact, got, changes>>

----------------------------------------------------------------------------
(* The packet variant. *)

\* const_buffer_sequence() of the class of o.
BytesOf(o) ==
  CASE "all" \in DOMAIN o -> o.all
    [] o.kind = "v3_connect" -> V3ConnectBytes(o)
    [] o.kind = "v3_publish" -> V3PublishBytes(o)
    [] o.kind = "v3_subscribe" -> V3SubscribeBytes(o)
    [] o.kind = "v3_suback" -> V3SubackBytes(o)
    [] o.kind = "v3_unsubscribe" -> V3UnsubscribeBytes(o)
    [] o.kind = "v5_connect" -> V5ConnectBytes(o)
    [] o.kind = "v5_connack" -> V5ConnackBytes(o)
    [] o.kind = "v5_publish" -> V5PublishBytes(o)
    [] o.kind = "v5_puback" -> V5PubackBytes(o)
    [] o.kind = "v5_pubrec" -> V5PubrecBytes(o)
    [] o.kind = "v5_pubrel" -> V5PubrelBytes(o)
    [] o.kind = "v5_pubcomp" -> V5PubcompBytes(o)
    [] o.kind = "v5_subscribe" -> V5SubscribeBytes(o)
    [] o.kind = "v5_unsubscribe" -> V5UnsubscribeBytes(o)
    [] o.kind = "v5_suback" -> V5SubackBytes(o)
    [] o.kind = "v5_unsuback" -> V5UnsubackBytes(o)
    [] o.kind = "v5_disconnect" -> V5DisconnectBytes(o)
    [] o.kind = "v5_auth" -> V5AuthBytes(o)

\* size()
SizeOf(o) == IF "all" \in DOMAIN o THEN Len(o.all) ELSE 1 + Len(o.rlbuf) + o.rl

\* The version of the CONNECT in b: its protocol level.
ProtocolVersion(b) ==
  LET v == VarVal(Tail(b)) IN
  IF v.ok /\ Len(b) >= 1 + v.size + 7 THEN b[1 + v.size + 7] ELSE 0

Unsupported == [kind |-> "error", ec |-> "unsupported_protocol_version"]

\* An endpoint of version ver, 0 when it is undetermined.
BufferToPacketVariant(b, ver) ==
  LET t == TypeOf(b[1])
      v == IF t = Type.connect /\ ver = 0 THEN ProtocolVersion(b) ELSE ver
  IN  CASE Len(b) < 2 -> Rejected
        [] t = Type.connect -> CASE v = 4 -> V3ParseConnect(b)
                                 [] v = 5 -> V5ParseConnect(b)
                                 [] OTHER -> Unsupported
        [] t # Type.connect /\ v = 4 ->
             CASE t = Type.connack -> V3ParseConnack(b)
               [] t = Type.publish -> V3ParsePublish(b)
               [] t = Type.puback -> V3ParsePuback(b)
               [] t = Type.pubrec -> V3ParsePubrec(b)
               [] t = Type.pubrel -> V3ParsePubrel(b)
               [] t = Type.pubcomp -> V3ParsePubcomp(b)
               [] t = Type.subscribe -> V3ParseSubscribe(b)
               [] t = Type.suback -> V3ParseSuback(b)
               [] t = Type.unsubscribe -> V3ParseUnsubscribe(b)
               [] t = Type.unsuback -> V3ParseUnsuback(b)
               [] t = Type.pingreq -> V3ParsePingreq(b)
               [] t = Type.pingresp -> V3ParsePingresp(b)
               [] t = Type.disconnect -> V3ParseDisconnect(b)
               [] t = Type.auth -> [kind |-> "error", ec |-> "protocol_error"]
               [] OTHER -> Rejected
        [] t # Type.connect /\ v = 5 ->
             CASE t = Type.connack -> V5ParseConnack(b)
               [] t = Type.publish -> V5ParsePublish(b)
               [] t = Type.puback -> V5ParsePuback(b)
               [] t = Type.pubrec -> V5ParsePubrec(b)
               [] t = Type.pubrel -> V5ParsePubrel(b)
               [] t = Type.pubcomp -> V5ParsePubcomp(b)
               [] t = Type.subscribe -> V5ParseSubscribe(b)
               [] t = Type.suback -> V5ParseSuback(b)
               [] t = Type.unsubscribe -> V5ParseUnsubscribe(b)
               [] t = Type.unsuback -> V5ParseUnsuback(b)
               [] t = Type.pingreq -> V5ParsePingreq(b)
               [] t = Type.pingresp -> V5ParsePingresp(b)
               [] t = Type.disconnect -> V5ParseDisconnect(b)
               [] t = Type.auth -> V5ParseAuth(b)
               [] OTHER -> Rejected
        [] OTHER -> [kind |-> "error", ec |-> "protocol_error"]

----------------------------------------------------------------------------
Init ==
  /\ pkt = NoPacket
  /\ wire = <<>>
  /\ intact = TRUE
  /\ got = NoPacket
  /\ changes = 0

(* The application makes a packet. A constructor that throws makes none.   *)

Make(o) ==
  /\ pkt = NoPacket
  /\ o # NoPacket
  /\ pkt' = o
  /\ UNCHANGED <<wire, intact, got, changes>>

Options(set) == {<<>>} \cup {<<x>> : x \in set}

MakeConnect ==
  \E cid \in Texts, will \in Wills, user, pass \in Options({t \in Texts : Len(t) = 1}),
     ps \in Lists :
    \/ Make(V3Connect(TRUE, 1, cid, will, user, pass))
    \/ Make(V5Connect(FALSE, 256, cid, will, user, pass, ps))

MakeConnack ==
  \E present \in BOOLEAN, ps \in Lists :
    \/ \E code \in {0, 5} : Make(V3Connack(present, code))
    \/ \E code \in {0, 159} : Make(V5Connack(present, code, ps))

MakePublish ==
  \E pid \in {0, 1}, topic \in Texts, pl \in Payloads, opts \in 0..5, ps \in Lists :
    \/ Make(V3Publish(pid, topic, pl, opts))
    \/ Make(V5Publish(pid, topic, pl, opts, ps))

MakeAck ==
  \/ Make(V3Puback(1)) \/ Make(V3Pubrec(1)) \/ Make(V3Pubrel(1)) \/ Make(V3Pubcomp(1))
  \/ \E code \in Options({0, 146, 16}), ps \in Lists :
       /\ code = <<>> => ps = <<>>
       /\ \/ code # <<146>> /\ Make(V5Puback(1, code, ps))
          \/ code # <<146>> /\ Make(V5Pubrec(1, code, ps))
          \/ code # <<16>> /\ Make(V5Pubrel(1, code, ps))
          \/ code # <<16>> /\ Make(V5Pubcomp(1, code, ps))

MakeSubscribe ==
  \E t1, t2 \in Texts, opts \in {1, 34}, ps \in Lists :
    \E es \in {<<[topic |-> t1, opts |-> 1]>>,
               <<[topic |-> t1, opts |-> opts], [topic |-> t2, opts |-> 0]>>} :
      Make(V3Subscribe(1, es)) \/ Make(V5Subscribe(1, es, ps))

MakeUnsubscribe ==
  \E t1, t2 \in Texts, ps \in Lists : \E ts \in {<<t1>>, <<t1, t2>>} :
    Make(V3Unsubscribe(1, ts)) \/ Make(V5Unsubscribe(1, ts, ps))

MakeSuback ==
  \/ Make(V3Unsuback(1))
  \/ \E codes \in {<<0>>, <<1, 128>>, <<0, 2, 1>>}, ps \in Lists :
       Make(V3Suback(1, codes)) \/ Make(V5Suback(1, codes, ps))
  \/ \E codes \in {<<0>>, <<17, 128>>}, ps \in Lists : Make(V5Unsuback(1, codes, ps))

MakePing ==
  \/ Make(V3Pingreq) \/ Make(V3Pingresp) \/ Make(V5Pingreq) \/ Make(V5Pingresp)

MakeDisconnect ==
  \/ Make(V3Disconnect)
  \/ \E code \in Options({0, 4}), ps \in Lists :
       /\ code = <<>> => ps = <<>>
       /\ Make(V5Disconnect(code, ps))

MakeAuth ==
  \E code \in Options({24}), ps \in Lists :
    /\ code = <<>> => ps = <<>>
    /\ Make(V5Auth(code, ps))

(* An endpoint changes a PUBLISH: it maps a topic to an alias or back, it  *)
(* keeps one for retransmission, and its message expiry interval runs.     *)

\* Those of the tables of topic aliases: they were in a PUBLISH before.
Topics == {t \in Texts : t # <<>> /\ Utf8(t)}

HasAlias(o) == \E i \in 1..Len(o.props) : o.props[i].id = Id.topic_alias

Changed(o) ==
  {SetDup(o)}
  \cup IF o.kind = "v3_publish" THEN {}
       ELSE {UpdateMessageExpiryInterval(o, 7)}
            \cup (IF o.topic # <<>> /\ ~HasAlias(o)
                  THEN {AddTopicAlias(o, 1), RemoveTopicAddTopicAlias(o, 1)} ELSE {})
            \cup (IF o.topic # <<>> THEN {RemoveTopicAlias(o)} ELSE {})
            \cup (IF o.topic = <<>> /\ HasAlias(o)
                  THEN {AddTopic(o, t) : t \in Topics} \cup
                       {RemoveTopicAliasAddTopic(o, t) : t \in Topics}
                  ELSE {})

Change ==
  /\ pkt.kind \in {"v3_publish", "v5_publish"}
  /\ wire = <<>>
  /\ changes < MaxChanges
  /\ pkt' \in Changed(pkt)
  /\ changes' = changes + 1
  /\ UNCHANGED <<wire, intact, got>>

(* The packet reaches the peer, or another one does. *)

Send ==
  /\ pkt # NoPacket
  /\ wire = <<>>
  /\ wire' = BytesOf(pkt)
  /\ intact' = TRUE
  /\ UNCHANGED <<pkt, got, changes>>

\* The octets after the fixed header of a packet.
Body(b) == Rest(b, 1 + VarVal(Tail(b)).size)

\* A peer sends the packet with one octet different, with its last octet
\* missing or with one more; its remaining length is right all the same.
Malform ==
  /\ intact /\ wire # <<>> /\ got = NoPacket /\ changes = 0
  /\ \E body \in LET b == Body(wire)
                 IN  {[b EXCEPT ![i] = e] : i \in 1..Len(b), e \in Octets}
                     \cup {Append(b, e) : e \in Octets}
                     \cup IF b = <<>> THEN {} ELSE {Front(b)} :
       wire' = <<wire[1]>> \o VarBytes(Len(body)) \o body
  /\ intact' = FALSE
  /\ UNCHANGED <<pkt, got, changes>>

\* A peer sends a PUBLISH of v3.1.1 with any octets for its topic.
SendWord ==
  /\ pkt = NoPacket
  /\ pkt' = V3Publish(0, <<>>, <<>>, 0)
  /\ \E t \in Words : wire' = <<Type.publish>> \o VarBytes(2 + Len(t)) \o Text(t)
  /\ intact' = FALSE
  /\ UNCHANGED <<got, changes>>

VersionOf(o) ==
  IF o.kind \in {"v3_connect", "v5_connect"} THEN 0
  ELSE IF o.kind \in {"v3_connack", "v3_publish", "v3_puback", "v3_pubrec", "v3_pubrel",
                      "v3_pubcomp", "v3_subscribe", "v3_suback", "v3_unsubscribe",
                      "v3_unsuback", "v3_pingreq", "v3_pingresp", "v3_disconnect"}
  THEN 4 ELSE 5

Receive ==
  /\ wire # <<>>
  /\ got = NoPacket
  /\ got' = BufferToPacketVariant(wire, VersionOf(pkt))
  /\ UNCHANGED <<pkt, wire, intact, changes>>

\* The receiver changes a PUBLISH as it came, and passes it on.
Relay ==
  /\ intact
  /\ got.kind \in {"v3_publish", "v5_publish"}
  /\ changes < MaxChanges
  /\ pkt' = got
  /\ got' = NoPacket
  /\ wire' = <<>>
  /\ UNCHANGED <<intact, changes>>

Next ==
  \/ MakeConnect \/ MakeConnack \/ MakePublish \/ MakeAck \/ MakeSubscribe \/ MakeUnsubscribe
  \/ MakeSuback \/ MakePing \/ MakeDisconnect \/ MakeAuth
  \/ Change \/ Send \/ Malform \/ SendWord \/ Receive \/ Relay

Spec == Init /\ [][Next]_vars

----------------------------------------------------------------------------
Accepted == got.kind \notin {"none", "error"}

\* The lengths an object keeps are those of the octets it is sent as: its
\* size, the remaining length and its octets, and the property length and
\* its octets. Every constructor and each change of a PUBLISH computes them
\* anew or by differences.
LengthsAgreeFor(o) ==
  LET b == BytesOf(o) IN
  /\ SizeOf(o) = Len(b)
  /\ "rl" \in DOMAIN o => o.rlbuf = VarBytes(o.rl) /\ Len(b) = 1 + Len(o.rlbuf) + o.rl
  /\ "pl" \in DOMAIN o => /\ o.pl = Len(PropsBytes(o.props))
                          /\ o.plbuf # <<>> => VarVal(o.plbuf) =
                                [ok |-> TRUE, size |-> Len(o.plbuf), val |-> o.pl]

LengthsAgree == pkt # NoPacket => LengthsAgreeFor(pkt)

\* What the peer receives is what was sent: every packet an application can
\* make, whatever the endpoint changed in it, is parsed into the same object
\* (with its payload in one buffer).
Joined(o) ==
  IF "payloads" \notin DOMAIN o THEN o
  ELSE [o EXCEPT !.payloads = IF FlattenSeq(@) = <<>> THEN <<>> ELSE <<FlattenSeq(@)>>]

RoundTrip == intact /\ got # NoPacket => got = Joined(pkt)

\* A text is accepted just if it is UTF-8: of code points up to 10FFFF, none of them a
\* surrogate, each in its shortest form; wherever the text lies in memory, which decides
\* how much of it is looked at in words, and also if it is written in two parts
\* (utf8_checker: "may be called incrementally with segmented UTF8 sequences").
TextsAreUtf8 ==
  LET t == Rest(Body(wire), 2) IN
  /\ pkt = V3Publish(0, <<>>, <<>>, 0) /\ ~intact /\ got # NoPacket
  /\ Len(Body(wire)) >= 2 /\ wire = <<Type.publish>> \o VarBytes(2 + Len(t)) \o Text(t)
  => LET ok == WellFormed(t) IN
     /\ Accepted <=> ok
     /\ \A a \in Alignments :
          Utf8StringCheck(t, a) = ok /\ \A k \in 1..Len(t) : InTwoParts(t, k, a) = ok

\* CONNECT without a password does not look at what follows.
TrailingOctets == got.kind \in {"v3_connect", "v5_connect"} /\ ~Bit(got.flags, 64)

\* PUBLISH with a packet identifier of 0 is taken, and is sent on without one.
NoPacketId == got.kind \in {"v3_publish", "v5_publish"} /\ got.pid = 0 /\ Qos(got.fixed) # 0

\* A subscription identifier with more octets than it needs is sent on with fewer.
LongIdentifier ==
  /\ got.kind \in {"v5_publish", "v5_subscribe"}
  /\ \E i \in 1..Len(got.props) : got.props[i].id = Id.subscription_identifier

\* A packet is accepted as a whole or not at all: the object made of any received packet
\* is sent on as the octets it was made of (the constructors from a buffer), but for the
\* three cases named above.
AcceptedWhole ==
  Accepted => BytesOf(got) = wire \/ TrailingOctets \/ NoPacketId \/ LongIdentifier
=============================================================================
