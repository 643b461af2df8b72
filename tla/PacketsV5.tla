------------------------------ MODULE PacketsV5 ------------------------------
(***************************************************************************)
(* The packets of MQTT v5.0. Of each class: the constructor from values,   *)
(* which computes the lengths the object keeps; the octets it is sent as   *)
(* (const_buffer_sequence); and the constructor from a received buffer.    *)
(*                                                                         *)
(* An optional value is a sequence of at most one element.                 *)
(***************************************************************************)
EXTENDS Wire

\* The length of properties, its octets, and the properties.
PropertyMembers(ps) == [pl |-> PropsSize(ps), plbuf |-> VarBytes(PropsSize(ps)), props |-> ps]

----------------------------------------------------------------------------
(* CONNECT: will is <<>> or <<[topic, message, qos, retain, props]>>. *)

V5Connect(clean, keep, cid, will, user, pass, ps) ==
  LET props == PropertyMembers(ps)
      wps   == IF will = <<>> THEN <<>> ELSE will[1].props
      wplbuf == IF will = <<>> THEN <<>> ELSE VarBytes(PropsSize(wps))
      opt(t) == IF t = <<>> THEN 0 ELSE 2 + Len(t[1])
      rl == 2 + 4 + 1 + 1 + 2 + 2 + Len(cid) + opt(user) + opt(pass)
            + Len(props.plbuf) + props.pl
            + IF will = <<>> THEN 0
              ELSE Len(wplbuf) + PropsSize(wps) + 2 + Len(will[1].topic) + 2 + Len(will[1].message)
  IN  IF \/ ~Utf8(cid) \/ (user # <<>> /\ ~Utf8(user[1])) \/ ~AllValid("connect", ps)
         \/ will # <<>> /\ (~Utf8(will[1].topic) \/ ~AllValid("will", wps))
      THEN NoPacket
      ELSE WithLength(
             [kind |-> "v5_connect", fixed |-> Type.connect,
              flags |-> Flags(clean, will, user, pass), keep |-> keep, cid |-> cid,
              wpl |-> PropsSize(wps), wplbuf |-> wplbuf, wprops |-> wps,
              wtopic |-> IF will = <<>> THEN <<>> ELSE will[1].topic,
              wmessage |-> IF will = <<>> THEN <<>> ELSE will[1].message,
              user |-> IF user = <<>> THEN <<>> ELSE user[1],
              pass |-> IF pass = <<>> THEN <<>> ELSE pass[1]] @@ props, rl)

V5ConnectBytes(o) ==
  <<o.fixed>> \o o.rlbuf \o ProtocolName(5) \o <<o.flags>> \o Number(o.keep, 2)
  \o o.plbuf \o PropsBytes(o.props) \o Text(o.cid)
  \o (IF Bit(o.flags, 4)
      THEN o.wplbuf \o PropsBytes(o.wprops) \o Text(o.wtopic) \o Text(o.wmessage) ELSE <<>>)
  \o (IF Bit(o.flags, 128) THEN Text(o.user) ELSE <<>>)
  \o (IF Bit(o.flags, 64) THEN Text(o.pass) ELSE <<>>)

\* The will of a CONNECT: its fields, or no QoS and no retain without it.
V5ParseWill(s) ==
  IF Going(s) /\ Bit(s.o.flags, 4)
  THEN TextField(TextField(Props(s, "will", <<"wpl", "wplbuf", "wprops">>),
                           "wtopic", "topic_name_invalid"), "wmessage", "")
  ELSE s

\* Everything before the will.
V5ParseConnectHead(b) ==
  LET none == [kind |-> "v5_connect", wpl |-> 0, wplbuf |-> <<>>, wprops |-> <<>>,
               wtopic |-> <<>>, wmessage |-> <<>>, user |-> <<>>, pass |-> <<>>]
  IN  TextField(PropsAt(ConnectHead(b, none, 5), "connect"), "cid",
                "client_identifier_not_valid")

V5ParseConnect(b) ==
  Result(Password(UserName(V5ParseWill(WillFlags(V5ParseConnectHead(b))))))

----------------------------------------------------------------------------
(* CONNACK *)

ConnectCodes == {0, 140, 144, 149, 151, 153, 154, 155, 156, 157, 159} \cup 128..138

V5Connack(present, code, ps) ==
  LET props == PropertyMembers(ps) IN
  IF ~AllValid("connack", ps) THEN NoPacket
  ELSE WithLength([kind |-> "v5_connack", fixed |-> Type.connack,
                   flags |-> IF present THEN 1 ELSE 0, code |-> code] @@ props,
                  1 + 1 + Len(props.plbuf) + props.pl)

V5ConnackBytes(o) ==
  <<o.fixed>> \o o.rlbuf \o <<o.flags, o.code>> \o o.plbuf \o PropsBytes(o.props)

AtMost1(s) == Require(s, Going(s) => s.o.flags <= 1, "malformed_packet")

V5ParseConnack(b) ==
  LET r == Exact(Lengths(Checked(Fixed(b, [kind |-> "v5_connack"]), Type.connack)))
  IN  Result(End(PropsAt(Code(AtMost1(Field(r, "flags", 1)), ConnectCodes), "connack")))

----------------------------------------------------------------------------
(* PUBLISH: opts are the low bits of the fixed header. *)

V5Publish(pid, topic, payloads, opts, ps) ==
  LET props == PropertyMembers(ps)
      rl == 2 + Len(topic) + (IF Qos(opts) \in {1, 2} THEN PacketIdBytes ELSE 0)
            + FoldLeft(LAMBDA a, b : a + Len(b), 0, payloads) + Len(props.plbuf) + props.pl
  IN  IF ~Utf8(topic) \/ ~AllValid("publish", ps) \/ ((Qos(opts) \in {1, 2}) # (pid # 0))
      THEN NoPacket
      ELSE WithLength([kind |-> "v5_publish", fixed |-> Type.publish + opts, topic |-> topic,
                       tlen |-> Len(topic), pid |-> pid, payloads |-> payloads] @@ props, rl)

V5PublishBytes(o) ==
  <<o.fixed>> \o o.rlbuf \o Number(o.tlen, 2) \o o.topic
  \o (IF o.pid # 0 THEN Number(o.pid, PacketIdBytes) ELSE <<>>)
  \o o.plbuf \o PropsBytes(o.props) \o FlattenSeq(o.payloads)

TopicLength(s) ==
  IF Going(s) THEN [s EXCEPT !.o = ("tlen" :> Len(s.o.topic)) @@ @] ELSE s

V5ParsePublish(b) ==
  LET t == TextField(Lengths(Fixed(b, [kind |-> "v5_publish", pid |-> 0])),
                     "topic", "topic_name_invalid")
  IN  Result(PayloadOf(PropsAt(PublishPid(TopicLength(t), Qos(Head(b))), "publish")))

(* What the endpoints change in a PUBLISH they send, keep or receive. *)

UpdateRemainingLengthBuf(o) == [o EXCEPT !.rlbuf = VarBytes(o.rl)]

\* Adds d octets of properties: the properties, their length and its octets.
UpdatePropertyLengthBuf(o, ps, d) ==
  [o EXCEPT !.props = ps, !.pl = @ + d, !.plbuf = VarBytes(o.pl + d)]

AliasProperty(a) == [id |-> Id.topic_alias, val |-> a]

\* A mutant of RemoveTopicAddTopicAlias: the property length may take more
\* octets than before.
RemoveTopicCountsProperty(o, a) ==
  LET p == UpdatePropertyLengthBuf(o, Append(o.props, AliasProperty(a)),
                                   PropertySize(AliasProperty(a)))
  IN  UpdateRemainingLengthBuf(
        [p EXCEPT !.topic = <<>>, !.tlen = 0,
                  !.rl = @ + PropertySize(AliasProperty(a)) - Len(o.topic)])

RemoveTopicAddTopicAlias(o, a) ==
  LET p == UpdatePropertyLengthBuf(o, Append(o.props, AliasProperty(a)),
                                   PropertySize(AliasProperty(a)))
  IN  UpdateRemainingLengthBuf(
        [p EXCEPT !.topic = <<>>, !.tlen = 0,
                  !.rl = @ + PropertySize(AliasProperty(a)) + (Len(p.plbuf) - Len(o.plbuf))
                           - Len(o.topic)])

AddTopicAlias(o, a) ==
  LET p == UpdatePropertyLengthBuf(o, Append(o.props, AliasProperty(a)),
                                   PropertySize(AliasProperty(a)))
  IN  UpdateRemainingLengthBuf(
        [p EXCEPT !.rl = @ + PropertySize(AliasProperty(a)) + (Len(p.plbuf) - Len(o.plbuf))])

AddTopicImpl(o, t) == [o EXCEPT !.topic = t, !.tlen = Len(t)]

AddTopic(o, t) == UpdateRemainingLengthBuf([AddTopicImpl(o, t) EXCEPT !.rl = @ + Len(t)])

RemoveTopicAliasImpl(o) ==
  LET ps == SelectSeq(o.props, LAMBDA p : p.id # Id.topic_alias)
  IN  [props |-> ps, size |-> PropsSize(o.props) - PropsSize(ps)]

RemoveTopicAlias(o) ==
  LET r == RemoveTopicAliasImpl(o)
      p == UpdatePropertyLengthBuf(o, r.props, -r.size)
  IN  UpdateRemainingLengthBuf(
        [p EXCEPT !.rl = @ - r.size + (Len(p.plbuf) - Len(o.plbuf))])

RemoveTopicAliasAddTopic(o, t) ==
  LET r == RemoveTopicAliasImpl(o)
      p == AddTopicImpl(UpdatePropertyLengthBuf(o, r.props, -r.size), t)
  IN  UpdateRemainingLengthBuf(
        [p EXCEPT !.rl = @ + Len(t) - r.size + (Len(p.plbuf) - Len(o.plbuf))])

\* Only the first one is replaced.
UpdateMessageExpiryInterval(o, v) ==
  LET at == {i \in 1..Len(o.props) : o.props[i].id = Id.message_expiry_interval}
      i  == CHOOSE j \in at : \A k \in at : j <= k
  IN  IF at = {} THEN o ELSE [o EXCEPT !.props[i].val = v]

----------------------------------------------------------------------------
(* PUBACK, PUBREC, PUBREL and PUBCOMP: an optional reason code, and the    *)
(* property length only when there are properties.                         *)

NoCode == -1

AckMembers(kind, fixed, code) ==
  [kind |-> kind, fixed |-> fixed, code |-> code, pl |-> 0, plbuf |-> <<>>, props |-> <<>>]

WithCode(o, rl, loc, code, ps) ==
  IF code = <<>> THEN WithLength(o, rl)
  ELSE IF ps = <<>> THEN WithLength([o EXCEPT !.code = code[1]], rl + 1)
  ELSE IF ~AllValid(loc, ps) THEN NoPacket
  ELSE LET p == PropertyMembers(ps)
       IN  WithLength(p @@ [o EXCEPT !.code = code[1]], rl + 1 + Len(p.plbuf) + p.pl)

V5Puback(pid, code, ps) ==
  WithCode([pid |-> pid] @@ AckMembers("v5_puback", Type.puback, NoCode), PacketIdBytes,
           "puback", code, ps)

V5Pubrec(pid, code, ps) ==
  WithCode([pid |-> pid] @@ AckMembers("v5_pubrec", Type.pubrec, NoCode), PacketIdBytes,
           "pubrec", code, ps)

V5Pubrel(pid, code, ps) ==
  WithCode([pid |-> pid] @@ AckMembers("v5_pubrel", Type.pubrel + 2, NoCode), PacketIdBytes,
           "pubrel", code, ps)

V5Pubcomp(pid, code, ps) ==
  WithCode([pid |-> pid] @@ AckMembers("v5_pubcomp", Type.pubcomp, NoCode), PacketIdBytes,
           "pubcomp", code, ps)

CodeBytes(o) ==
  IF o.code = NoCode THEN <<>>
  ELSE <<o.code>> \o (IF o.plbuf = <<>> THEN <<>> ELSE o.plbuf \o PropsBytes(o.props))

V5PubackBytes(o) == <<o.fixed>> \o o.rlbuf \o Number(o.pid, PacketIdBytes) \o CodeBytes(o)

V5PubrecBytes(o) == <<o.fixed>> \o o.rlbuf \o Number(o.pid, PacketIdBytes) \o CodeBytes(o)

V5PubrelBytes(o) == <<o.fixed>> \o o.rlbuf \o Number(o.pid, PacketIdBytes) \o CodeBytes(o)

V5PubcompBytes(o) == <<o.fixed>> \o o.rlbuf \o Number(o.pid, PacketIdBytes) \o CodeBytes(o)

PubackCodes == {0, 16, 128, 131, 135, 144, 145, 151, 153}
PubrecCodes == {0, 16, 128, 131, 135, 144, 145, 151, 153}
PubrelCodes == {0, 146}
PubcompCodes == {0, 146}

\* The reason code, and the end of a packet of remaining length n without
\* properties.
CodeThen(s, codes, n, loc) == End(PropsAt(StopAt(Code(s, codes), n), loc))

V5ParsePuback(b) ==
  LET s == StopAt(Pid(Lengths(Fixed(b, AckMembers("v5_puback", 0, NoCode)))), PacketIdBytes)
  IN  Result(CodeThen(s, PubackCodes, 3, "puback"))

V5ParsePubrec(b) ==
  LET s == StopAt(Pid(Lengths(Fixed(b, AckMembers("v5_pubrec", 0, NoCode)))), PacketIdBytes)
  IN  Result(CodeThen(s, PubrecCodes, 3, "pubrec"))

V5ParsePubrel(b) ==
  LET s == StopAt(Pid(Lengths(Fixed(b, AckMembers("v5_pubrel", 0, NoCode)))), PacketIdBytes)
  IN  Result(CodeThen(s, PubrelCodes, 3, "pubrel"))

V5ParsePubcomp(b) ==
  LET s == StopAt(Pid(Lengths(Fixed(b, AckMembers("v5_pubcomp", 0, NoCode)))), PacketIdBytes)
  IN  Result(CodeThen(s, PubcompCodes, 3, "pubcomp"))

----------------------------------------------------------------------------
(* DISCONNECT and AUTH *)

V5Disconnect(code, ps) ==
  WithCode(AckMembers("v5_disconnect", Type.disconnect, NoCode), 0, "disconnect", code, ps)

V5Auth(code, ps) == WithCode(AckMembers("v5_auth", Type.auth, NoCode), 0, "auth", code, ps)

V5DisconnectBytes(o) == <<o.fixed>> \o o.rlbuf \o CodeBytes(o)

V5AuthBytes(o) == <<o.fixed>> \o o.rlbuf \o CodeBytes(o)

DisconnectCodes ==
  {0, 4, 128, 129, 130, 131, 135, 137, 139, 141, 142, 143, 144} \cup 147..162

AuthCodes == {0, 24, 25}

V5ParseDisconnect(b) ==
  LET s == StopAt(Lengths(Fixed(b, AckMembers("v5_disconnect", 0, NoCode))), 0)
  IN  Result(CodeThen(s, DisconnectCodes, 1, "disconnect"))

V5ParseAuth(b) ==
  LET s == StopAt(Lengths(Fixed(b, AckMembers("v5_auth", 0, NoCode))), 0)
  IN  Result(CodeThen(s, AuthCodes, 1, "auth"))

----------------------------------------------------------------------------
(* SUBSCRIBE, UNSUBSCRIBE: entries are [topic, opts], or topics. *)

RetainHandling(opts) == (opts \div 16) % 4

V5SubOpts == {o \in 0..63 : SubsQos(o) # 3 /\ RetainHandling(o) # 3}

V5Subscribe(pid, entries, ps) ==
  LET props == PropertyMembers(ps) IN
  IF \/ ~AllValid("subscribe", ps)
     \/ \E i \in 1..Len(entries) : entries[i].opts \notin V5SubOpts \/ ~Utf8(entries[i].topic)
  THEN NoPacket
  ELSE WithLength([kind |-> "v5_subscribe", fixed |-> Type.subscribe + 2, pid |-> pid,
                   entries |-> entries] @@ props,
                  FoldLeft(LAMBDA a, e : a + 2 + Len(e.topic) + 1,
                           PacketIdBytes + Len(props.plbuf) + props.pl, entries))

V5SubscribeBytes(o) ==
  <<o.fixed>> \o o.rlbuf \o Number(o.pid, PacketIdBytes) \o o.plbuf \o PropsBytes(o.props)
  \o EntriesBytes(o.entries)

V5ParseSubscribe(b) ==
  LET r == Exact(Lengths(Checked(Fixed(b, [kind |-> "v5_subscribe", entries |-> <<>>]),
                                 Type.subscribe)))
  IN  Result(ReadEntries(NotEnded(PropsAt(Pid(r), "subscribe")), V5SubOpts))

V5Unsubscribe(pid, topics, ps) ==
  LET props == PropertyMembers(ps) IN
  IF ~AllValid("unsubscribe", ps) \/ \E i \in 1..Len(topics) : ~Utf8(topics[i]) THEN NoPacket
  ELSE WithLength([kind |-> "v5_unsubscribe", fixed |-> Type.unsubscribe + 2, pid |-> pid,
                   entries |-> topics] @@ props,
                  FoldLeft(LAMBDA a, t : a + 2 + Len(t),
                           PacketIdBytes + Len(props.plbuf) + props.pl, topics))

V5UnsubscribeBytes(o) ==
  <<o.fixed>> \o o.rlbuf \o Number(o.pid, PacketIdBytes) \o o.plbuf \o PropsBytes(o.props)
  \o FlattenSeq([i \in 1..Len(o.entries) |-> Text(o.entries[i])])

V5ParseUnsubscribe(b) ==
  LET r == Exact(Lengths(Checked(Fixed(b, [kind |-> "v5_unsubscribe", entries |-> <<>>]),
                                 Type.unsubscribe)))
  IN  Result(ReadTopics(NotEnded(PropsAt(Pid(r), "unsubscribe"))))

----------------------------------------------------------------------------
(* SUBACK, UNSUBACK: entries are reason codes. *)

SubackCodes == {0, 1, 2, 128, 131, 135, 143, 145, 151, 158, 161, 162}
UnsubackCodes == {0, 17, 128, 131, 135, 143, 145}

V5Suback(pid, codes, ps) ==
  LET props == PropertyMembers(ps) IN
  IF ~AllValid("suback", ps) THEN NoPacket
  ELSE WithLength([kind |-> "v5_suback", fixed |-> Type.suback, pid |-> pid,
                   entries |-> codes] @@ props,
                  PacketIdBytes + Len(codes) + Len(props.plbuf) + props.pl)

V5Unsuback(pid, codes, ps) ==
  LET props == PropertyMembers(ps) IN
  IF ~AllValid("unsuback", ps) THEN NoPacket
  ELSE WithLength([kind |-> "v5_unsuback", fixed |-> Type.unsuback, pid |-> pid,
                   entries |-> codes] @@ props,
                  PacketIdBytes + Len(codes) + Len(props.plbuf) + props.pl)

V5SubackBytes(o) ==
  <<o.fixed>> \o o.rlbuf \o Number(o.pid, PacketIdBytes) \o o.plbuf \o PropsBytes(o.props)
  \o o.entries

V5UnsubackBytes(o) ==
  <<o.fixed>> \o o.rlbuf \o Number(o.pid, PacketIdBytes) \o o.plbuf \o PropsBytes(o.props)
  \o o.entries

V5ParseSuback(b) ==
  LET r == Exact(Lengths(Checked(Fixed(b, [kind |-> "v5_suback"]), Type.suback)))
  IN  Result(ReadCodes(PropsAt(Pid(r), "suback"), SubackCodes))

V5ParseUnsuback(b) ==
  LET r == Exact(Lengths(Checked(Fixed(b, [kind |-> "v5_unsuback"]), Type.unsuback)))
  IN  Result(ReadCodes(PropsAt(Pid(r), "unsuback"), UnsubackCodes))

----------------------------------------------------------------------------
(* PINGREQ and PINGRESP are two constant octets. *)

V5Pingreq == [kind |-> "v5_pingreq", all |-> <<Type.pingreq, 0>>]
V5Pingresp == [kind |-> "v5_pingresp", all |-> <<Type.pingresp, 0>>]

V5ParsePingreq(b) ==
  IF Len(b) < 2 \/ TypeWithCheck(b[1]) # Type.pingreq \/ b[2] # 0
  THEN [kind |-> "error", ec |-> "malformed_packet"]
  ELSE [kind |-> "v5_pingreq", all |-> SubSeq(b, 1, 2)]

V5ParsePingresp(b) ==
  IF Len(b) < 2 \/ TypeWithCheck(b[1]) # Type.pingresp \/ b[2] # 0
  THEN [kind |-> "error", ec |-> "malformed_packet"]
  ELSE [kind |-> "v5_pingresp", all |-> SubSeq(b, 1, 2)]
=============================================================================
