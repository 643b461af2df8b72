------------------------------ MODULE PacketsV3 ------------------------------
(***************************************************************************)
(* The packets of MQTT v3.1.1: constructors from values, the octets they   *)
(* are sent as, and constructors from a received buffer. The classes of    *)
(* fixed size keep all their octets in one member.                         *)
(***************************************************************************)
EXTENDS Wire

V3Connect(clean, keep, cid, will, user, pass) ==
  LET opt(t) == IF t = <<>> THEN 0 ELSE 2 + Len(t[1])
      rl == 2 + 4 + 1 + 1 + 2 + 2 + Len(cid) + opt(user) + opt(pass)
            + IF will = <<>> THEN 0 ELSE 2 + Len(will[1].topic) + 2 + Len(will[1].message)
  IN  IF ~Utf8(cid) \/ (user # <<>> /\ ~Utf8(user[1])) \/ (will # <<>> /\ ~Utf8(will[1].topic))
      THEN NoPacket
      ELSE WithLength(
             [kind |-> "v3_connect", fixed |-> Type.connect,
              flags |-> Flags(clean, will, user, pass), keep |-> keep, cid |-> cid,
              wtopic |-> IF will = <<>> THEN <<>> ELSE will[1].topic,
              wmessage |-> IF will = <<>> THEN <<>> ELSE will[1].message,
              user |-> IF user = <<>> THEN <<>> ELSE user[1],
              pass |-> IF pass = <<>> THEN <<>> ELSE pass[1]], rl)

V3ConnectBytes(o) ==
  <<o.fixed>> \o o.rlbuf \o ProtocolName(4) \o <<o.flags>> \o Number(o.keep, 2) \o Text(o.cid)
  \o (IF Bit(o.flags, 4) THEN Text(o.wtopic) \o Text(o.wmessage) ELSE <<>>)
  \o (IF Bit(o.flags, 128) THEN Text(o.user) ELSE <<>>)
  \o (IF Bit(o.flags, 64) THEN Text(o.pass) ELSE <<>>)

\* The will of a CONNECT: its fields, or no QoS and no retain without it.
V3ParseWill(s) ==
  IF Going(s) /\ Bit(s.o.flags, 4)
  THEN TextField(TextField(s, "wtopic", "topic_name_invalid"), "wmessage", "")
  ELSE s

\* Everything before the will.
V3ParseConnectHead(b) ==
  LET none == [kind |-> "v3_connect", wtopic |-> <<>>, wmessage |-> <<>>, user |-> <<>>,
               pass |-> <<>>]
  IN  TextField(ConnectHead(b, none, 4), "cid", "client_identifier_not_valid")

V3ParseConnect(b) ==
  Result(Password(UserName(V3ParseWill(WillFlags(V3ParseConnectHead(b))))))

----------------------------------------------------------------------------
(* PUBLISH *)

V3Publish(pid, topic, payloads, opts) ==
  LET rl == 2 + Len(topic) + (IF Qos(opts) \in {1, 2} THEN PacketIdBytes ELSE 0)
            + FoldLeft(LAMBDA a, b : a + Len(b), 0, payloads)
  IN  IF ~Utf8(topic) \/ Qos(opts) = 3 \/ ((Qos(opts) = 0) # (pid = 0)) THEN NoPacket
      ELSE WithLength([kind |-> "v3_publish", fixed |-> Type.publish + opts, topic |-> topic,
                       pid |-> pid, payloads |-> payloads], rl)

V3PublishBytes(o) ==
  <<o.fixed>> \o o.rlbuf \o Text(o.topic)
  \o (IF o.pid # 0 THEN Number(o.pid, PacketIdBytes) ELSE <<>>) \o FlattenSeq(o.payloads)

V3ParsePublish(b) ==
  LET r == Exact(Lengths(Checked(Fixed(b, [kind |-> "v3_publish", pid |-> 0]), Type.publish)))
      t == TextField(r, "topic", "topic_name_invalid")
  IN  Result(PayloadOf(PublishPid(t, Qos(Head(b)))))

----------------------------------------------------------------------------
(* SUBSCRIBE, SUBACK and UNSUBSCRIBE *)

V3SubOpts == 0..2

V3Subscribe(pid, entries) ==
  IF \/ entries = <<>>
     \/ \E i \in 1..Len(entries) : entries[i].opts \notin V3SubOpts \/ ~Utf8(entries[i].topic)
  THEN NoPacket
  ELSE WithLength([kind |-> "v3_subscribe", fixed |-> Type.subscribe + 2, pid |-> pid,
                   entries |-> entries],
                  FoldLeft(LAMBDA a, e : a + 2 + Len(e.topic) + 1, PacketIdBytes, entries))

V3SubscribeBytes(o) ==
  <<o.fixed>> \o o.rlbuf \o Number(o.pid, PacketIdBytes) \o EntriesBytes(o.entries)

V3ParseSubscribe(b) ==
  LET p == Pid(Exact(Lengths(Checked(Fixed(b, [kind |-> "v3_subscribe", entries |-> <<>>]),
                                     Type.subscribe))))
  IN  Result(ReadEntries(NotEnded(p), V3SubOpts))

V3SubackCodes == {0, 1, 2, 128}

V3Suback(pid, codes) ==
  WithLength([kind |-> "v3_suback", fixed |-> Type.suback, pid |-> pid, entries |-> codes],
             PacketIdBytes + Len(codes))

V3SubackBytes(o) == <<o.fixed>> \o o.rlbuf \o Number(o.pid, PacketIdBytes) \o o.entries

V3ParseSuback(b) ==
  LET p == Pid(Exact(Lengths(Checked(Fixed(b, [kind |-> "v3_suback"]), Type.suback))))
  IN  Result(ReadCodes(p, V3SubackCodes))

V3Unsubscribe(pid, topics) ==
  IF \E i \in 1..Len(topics) : ~Utf8(topics[i]) THEN NoPacket
  ELSE WithLength([kind |-> "v3_unsubscribe", fixed |-> Type.unsubscribe + 2, pid |-> pid,
                   entries |-> topics],
                  FoldLeft(LAMBDA a, t : a + 2 + Len(t), PacketIdBytes, topics))

V3UnsubscribeBytes(o) ==
  <<o.fixed>> \o o.rlbuf \o Number(o.pid, PacketIdBytes)
  \o FlattenSeq([i \in 1..Len(o.entries) |-> Text(o.entries[i])])

V3ParseUnsubscribe(b) ==
  LET p == Pid(Exact(Lengths(Checked(Fixed(b, [kind |-> "v3_unsubscribe", entries |-> <<>>]),
                                     Type.unsubscribe))))
  IN  Result(ReadTopics(NotEnded(p)))

----------------------------------------------------------------------------
(* The packets of fixed size. *)

V3Connack(present, code) ==
  [kind |-> "v3_connack", all |-> <<Type.connack, 2, IF present THEN 1 ELSE 0, code>>]

V3Puback(pid) ==
  [kind |-> "v3_puback", all |-> <<Type.puback, PacketIdBytes>> \o Number(pid, PacketIdBytes)]

V3Pubrec(pid) ==
  [kind |-> "v3_pubrec", all |-> <<Type.pubrec, PacketIdBytes>> \o Number(pid, PacketIdBytes)]

V3Pubrel(pid) ==
  [kind |-> "v3_pubrel",
   all |-> <<Type.pubrel + 2, PacketIdBytes>> \o Number(pid, PacketIdBytes)]

V3Pubcomp(pid) ==
  [kind |-> "v3_pubcomp", all |-> <<Type.pubcomp, PacketIdBytes>> \o Number(pid, PacketIdBytes)]

V3Unsuback(pid) ==
  [kind |-> "v3_unsuback",
   all |-> <<Type.unsuback, PacketIdBytes>> \o Number(pid, PacketIdBytes)]

V3Pingreq == [kind |-> "v3_pingreq", all |-> <<Type.pingreq, 0>>]
V3Pingresp == [kind |-> "v3_pingresp", all |-> <<Type.pingresp, 0>>]
V3Disconnect == [kind |-> "v3_disconnect", all |-> <<Type.disconnect, 0>>]

Rejected == [kind |-> "error", ec |-> "malformed_packet"]

V3ParseConnack(b) ==
  IF \/ TypeWithCheck(b[1]) # Type.connack \/ b[2] # 2 \/ Len(b) # 4
     \/ b[3] > 1 \/ b[4] > 5
  THEN Rejected ELSE [kind |-> "v3_connack", all |-> b]

V3ParsePuback(b) ==
  IF TypeWithCheck(b[1]) # Type.puback \/ b[2] # PacketIdBytes \/ Len(b) # 2 + PacketIdBytes
  THEN Rejected ELSE [kind |-> "v3_puback", all |-> b]

V3ParsePubrec(b) ==
  IF TypeWithCheck(b[1]) # Type.pubrec \/ b[2] # PacketIdBytes \/ Len(b) # 2 + PacketIdBytes
  THEN Rejected ELSE [kind |-> "v3_pubrec", all |-> b]

V3ParsePubrel(b) ==
  IF TypeWithCheck(b[1]) # Type.pubrel \/ b[2] # PacketIdBytes \/ Len(b) # 2 + PacketIdBytes
  THEN Rejected ELSE [kind |-> "v3_pubrel", all |-> b]

V3ParsePubcomp(b) ==
  IF TypeWithCheck(b[1]) # Type.pubcomp \/ b[2] # PacketIdBytes \/ Len(b) # 2 + PacketIdBytes
  THEN Rejected ELSE [kind |-> "v3_pubcomp", all |-> b]

V3ParseUnsuback(b) ==
  IF TypeWithCheck(b[1]) # Type.unsuback \/ b[2] # PacketIdBytes \/ Len(b) # 2 + PacketIdBytes
  THEN Rejected ELSE [kind |-> "v3_unsuback", all |-> b]

V3ParsePingreq(b) ==
  IF TypeWithCheck(b[1]) # Type.pingreq \/ b[2] # 0
  THEN Rejected ELSE [kind |-> "v3_pingreq", all |-> SubSeq(b, 1, 2)]

V3ParsePingresp(b) ==
  IF TypeWithCheck(b[1]) # Type.pingresp \/ b[2] # 0
  THEN Rejected ELSE [kind |-> "v3_pingresp", all |-> SubSeq(b, 1, 2)]

V3ParseDisconnect(b) ==
  IF TypeWithCheck(b[1]) # Type.disconnect \/ b[2] # 0
  THEN Rejected ELSE [kind |-> "v3_disconnect", all |-> SubSeq(b, 1, 2)]
=============================================================================
