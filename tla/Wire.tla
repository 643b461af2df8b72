-------------------------------- MODULE Wire --------------------------------
(***************************************************************************)
(* What every MQTT packet class is made of: fixed header, variable byte    *)
(* integers, numbers and texts on the wire, properties, and the steps with *)
(* which a constructor from a buffer consumes the received octets.         *)
(*                                                                         *)
(* An octet is a number, a text a sequence of octets, a property a record  *)
(* of its id and its value, and a packet object a record of the members of *)
(* its class (the cached lengths among them).                              *)
(***************************************************************************)
EXTENDS Integers, Sequences, SequencesExt, Utf8Checker

CONSTANTS Radix,          \* of a variable byte integer: 128 in the code
          PacketIdBytes   \* 2, or 4 between brokers

ASSUME RadixAssumption == Radix \in Nat /\ Radix > 1
ASSUME PacketIdBytesAssumption == PacketIdBytes \in {2, 4}

----------------------------------------------------------------------------
(* Integers and texts. *)

VarBytes(v) ==
  IF v >= Radix^4 THEN <<>>
  ELSE LET n == CHOOSE i \in 1..4 : v < Radix^i /\ (i = 1 \/ v >= Radix^(i - 1))
       IN  [i \in 1..n |-> ((v \div Radix^(i - 1)) % Radix) + (IF i < n THEN Radix ELSE 0)]

\* The integer at the head of b and the octets it takes, or none.
VarVal(b) ==
  LET ends == {i \in 1..Len(b) : b[i] < Radix}
      n    == CHOOSE i \in ends : \A j \in ends : i <= j
  IN  IF ends = {} THEN [ok |-> FALSE]
      ELSE IF n > 4 THEN [ok |-> FALSE]
      ELSE [ok |-> TRUE, size |-> n,
            val |-> FoldRight(LAMBDA e, a : a * Radix + (e % Radix), SubSeq(b, 1, n), 0)]

Number(v, n) == [i \in 1..n |-> (v \div 256^(n - i)) % 256]

\* A number of four octets from 2^31 on is represented by the number less 2^32.
Leading(b) == IF Len(b) = 4 /\ b[1] > 127 THEN b[1] - 256 ELSE b[1]

NumberOf(b) ==
  IF b = <<>> THEN 0 ELSE FoldLeft(LAMBDA a, e : a * 256 + e, Leading(b), Tail(b))

Text(t) == Number(Len(t), 2) \o t

\* The outcome does not depend on where the text is (TextsAreUtf8).
Utf8(t) == Utf8StringCheck(t, 0)

Bit(v, b) == (v \div b) % 2 = 1

----------------------------------------------------------------------------
(* Control packet types. *)

Type == [connect |-> 16, connack |-> 32, publish |-> 48, puback |-> 64, pubrec |-> 80,
         pubrel |-> 96, pubcomp |-> 112, subscribe |-> 128, suback |-> 144,
         unsubscribe |-> 160, unsuback |-> 176, pingreq |-> 192, pingresp |-> 208,
         disconnect |-> 224, auth |-> 240]

TypeOf(octet) == (octet \div 16) * 16

TypeWithCheck(octet) ==
  LET t == TypeOf(octet)
      reserved == IF t \in {Type.pubrel, Type.subscribe, Type.unsubscribe} THEN 2 ELSE 0
  IN  IF t = Type.publish \/ (t # 0 /\ octet % 16 = reserved) THEN t ELSE 0

----------------------------------------------------------------------------
(* Properties. *)

Id == [payload_format_indicator |-> 1, message_expiry_interval |-> 2, content_type |-> 3,
       response_topic |-> 8, correlation_data |-> 9, subscription_identifier |-> 11,
       session_expiry_interval |-> 17, assigned_client_identifier |-> 18,
       server_keep_alive |-> 19, authentication_method |-> 21, authentication_data |-> 22,
       request_problem_information |-> 23, will_delay_interval |-> 24,
       request_response_information |-> 25, response_information |-> 26,
       server_reference |-> 28, reason_string |-> 31, receive_maximum |-> 33,
       topic_alias_maximum |-> 34, topic_alias |-> 35, maximum_qos |-> 36,
       retain_available |-> 37, user_property |-> 38, maximum_packet_size |-> 39,
       wildcard_subscription_available |-> 40, subscription_identifier_available |-> 41,
       shared_subscription_available |-> 42]

\* The class a property derives from: a number of 1, 2 or 4 octets, a
\* variable byte integer, a text, binary data, or a pair of texts.
OneByte == {1, 23, 25, 36, 37, 40, 41, 42}
TwoBytes == {19, 33, 34, 35}
FourBytes == {2, 17, 24, 39}
Binaries == {9, 22}
Strings == {3, 8, 18, 21, 26, 28, 31}

Width(id) == CASE id \in OneByte -> 1 [] id \in TwoBytes -> 2 [] id \in FourBytes -> 4

\* The values a property object may have.
ValidValue(id, v) ==
  CASE id \in {Id.payload_format_indicator, Id.maximum_qos} -> v \in {0, 1}
    [] id \in {Id.subscription_identifier, Id.receive_maximum, Id.maximum_packet_size} -> v # 0
    [] id \in Strings -> Utf8(v)
    [] id = Id.user_property -> Utf8(v[1]) /\ Utf8(v[2])
    [] OTHER -> TRUE

PropertyValue(p) ==
  CASE p.id \in OneByte \cup TwoBytes \cup FourBytes -> Number(p.val, Width(p.id))
    [] p.id = Id.subscription_identifier -> VarBytes(p.val)
    [] p.id \in Strings \cup Binaries -> Text(p.val)
    [] p.id = Id.user_property -> Text(p.val[1]) \o Text(p.val[2])

PropertySize(p) ==
  1 + CASE p.id \in OneByte \cup TwoBytes \cup FourBytes -> Width(p.id)
        [] p.id = Id.subscription_identifier -> Len(VarBytes(p.val))
        [] p.id \in Strings \cup Binaries -> 2 + Len(p.val)
        [] p.id = Id.user_property -> 2 + Len(p.val[1]) + 2 + Len(p.val[2])

PropsBytes(ps) == FlattenSeq([i \in 1..Len(ps) |-> <<ps[i].id>> \o PropertyValue(ps[i])])

PropsSize(ps) == FoldLeft(LAMBDA a, p : a + PropertySize(p), 0, ps)

ValidAt ==
  LET text == {Id.reason_string, Id.user_property}
      message == {Id.payload_format_indicator, Id.message_expiry_interval, Id.content_type,
                  Id.response_topic, Id.correlation_data, Id.user_property}
      credentials == {Id.authentication_method, Id.authentication_data}
      limits == {Id.receive_maximum, Id.topic_alias_maximum, Id.maximum_packet_size}
  IN  [connect |-> credentials \cup limits \cup
         {Id.session_expiry_interval, Id.request_problem_information,
          Id.request_response_information, Id.user_property},
       will |-> message \cup {Id.will_delay_interval},
       connack |-> credentials \cup limits \cup text \cup
         {Id.session_expiry_interval, Id.assigned_client_identifier, Id.server_keep_alive,
          Id.response_information, Id.server_reference, Id.maximum_qos, Id.retain_available,
          Id.wildcard_subscription_available, Id.subscription_identifier_available,
          Id.shared_subscription_available},
       publish |-> message \cup {Id.subscription_identifier, Id.topic_alias},
       puback |-> text, pubrec |-> text, pubrel |-> text, pubcomp |-> text,
       subscribe |-> {Id.subscription_identifier, Id.user_property},
       suback |-> text, unsubscribe |-> {Id.user_property}, unsuback |-> text,
       disconnect |-> text \cup {Id.session_expiry_interval, Id.server_reference},
       auth |-> text \cup credentials]

AllValid(loc, ps) == \A i \in 1..Len(ps) : ps[i].id \in ValidAt[loc]

----------------------------------------------------------------------------
(* Reading a property: the property, and the octets left; or an error. *)

Rest(b, n) == SubSeq(b, n + 1, Len(b))

Malformed == [ec |-> "malformed_packet"]

Valued(id, v, b) ==
  IF ValidValue(id, v) THEN [ec |-> "", p |-> [id |-> id, val |-> v], buf |-> b]
  ELSE IF id = Id.payload_format_indicator THEN Malformed
  ELSE [ec |-> "protocol_error"]

ReadNumber(id, b) ==
  LET w == Width(id) IN
  IF Len(b) < w THEN Malformed ELSE Valued(id, NumberOf(SubSeq(b, 1, w)), Rest(b, w))

ReadVariable(id, b) ==
  LET v == VarVal(b) IN
  IF v.ok THEN Valued(id, v.val, Rest(b, v.size)) ELSE Malformed

\* A text, and one after another: the length of both is looked at before what is in them.
ReadText(b) ==
  LET n == NumberOf(SubSeq(b, 1, 2)) IN
  IF Len(b) < 2 \/ Len(b) < 2 + n THEN Malformed
  ELSE [ec |-> "", val |-> SubSeq(b, 3, 2 + n), buf |-> Rest(b, 2 + n)]

OneText(id, t) == IF t.ec # "" THEN t ELSE Valued(id, t.val, t.buf)
ReadBinary(id, b) == OneText(id, ReadText(b))

TwoTexts(id, key, val) ==
  IF val.ec # "" THEN val ELSE Valued(id, <<key.val, val.val>>, val.buf)
ReadValue(id, key) == IF key.ec # "" THEN key ELSE TwoTexts(id, key, ReadText(key.buf))
ReadPair(id, b) == ReadValue(id, ReadText(b))

ReadProperty(b, loc) ==
  LET id == Head(b) IN
  IF id \notin ValidAt[loc] THEN Malformed
  ELSE CASE id = Id.subscription_identifier -> ReadVariable(id, Tail(b))
         [] id \in Strings \cup Binaries -> ReadBinary(id, Tail(b))
         [] id = Id.user_property -> ReadPair(id, Tail(b))
         [] OTHER -> ReadNumber(id, Tail(b))

RECURSIVE MakeProperties(_, _, _)
MakeFurther(r, loc, props) ==
  IF r.ec # "" THEN [ec |-> r.ec] ELSE MakeProperties(r.buf, loc, Append(props, r.p))
MakeProperties(b, loc, props) ==
  IF b = <<>> THEN [ec |-> "", props |-> props]
  ELSE MakeFurther(ReadProperty(b, loc), loc, props)

----------------------------------------------------------------------------
(* The steps of a constructor from a buffer: s.buf is what is left of the  *)
(* buffer, s.o the object so far, s.ec the error it ends with and s.fin    *)
(* that it has returned.                                                   *)

Going(s) == s.ec = "" /\ ~s.fin

Fail(s, e) == [s EXCEPT !.ec = e]

Fixed(b, o) == [buf |-> Tail(b), ec |-> "", fin |-> FALSE, o |-> ("fixed" :> Head(b)) @@ o]

Checked(s, t) == IF TypeWithCheck(s.o.fixed) = t THEN s ELSE Fail(s, "malformed_packet")

Lengths(s) ==
  LET v == VarVal(s.buf) IN
  IF ~Going(s) THEN s
  ELSE IF ~v.ok THEN Fail(s, "malformed_packet")
  ELSE [s EXCEPT !.buf = Rest(@, v.size),
                 !.o = ("rl" :> v.val) @@ ("rlbuf" :> SubSeq(s.buf, 1, v.size)) @@ @]

Exact(s) == IF Going(s) /\ s.o.rl # Len(s.buf) THEN Fail(s, "malformed_packet") ELSE s

Field(s, k, n) ==
  IF ~Going(s) THEN s
  ELSE IF Len(s.buf) < n THEN Fail(s, "malformed_packet")
  ELSE [s EXCEPT !.buf = Rest(@, n), !.o = (k :> NumberOf(SubSeq(s.buf, 1, n))) @@ @]

Pid(s) == Field(s, "pid", PacketIdBytes)

Require(s, cond, e) == IF Going(s) /\ ~cond THEN Fail(s, e) ELSE s

\* The constructors do not look whether there is an octet left, and CONNACK need not have
\* one: then the behaviour is undefined and the object is not followed further.
Among(r, codes) ==
  IF Going(r) /\ r.o.code \notin codes THEN Fail(r, "malformed_packet") ELSE r
Code(s, codes) ==
  IF Going(s) /\ s.buf = <<>> THEN Fail(s, "undefined")
  ELSE Among(Field(s, "code", 1), codes)

TextField(s, k, e) ==
  LET n == NumberOf(SubSeq(s.buf, 1, 2)) IN
  IF ~Going(s) THEN s
  ELSE IF Len(s.buf) < 2 \/ Len(s.buf) < 2 + n THEN Fail(s, "malformed_packet")
  ELSE LET t == SubSeq(s.buf, 3, 2 + n) IN
       IF e # "" /\ ~Utf8(t) THEN Fail(s, e)
       ELSE [s EXCEPT !.buf = Rest(@, 2 + n), !.o = (k :> t) @@ @]

\* A property length and the properties of that length, into the members
\* named by k: the length, its octets and the properties.
WithProps(s, v, r, k) ==
  IF r.ec # "" THEN Fail(s, r.ec)
  ELSE [s EXCEPT !.buf = Rest(@, v.size + v.val),
                 !.o = (k[1] :> v.val) @@ (k[2] :> SubSeq(s.buf, 1, v.size))
                       @@ (k[3] :> r.props) @@ @]

Props(s, loc, k) ==
  LET v == VarVal(s.buf) IN
  IF ~Going(s) THEN s
  ELSE IF ~v.ok THEN Fail(s, "malformed_packet")
  ELSE IF Len(s.buf) < v.size + v.val THEN Fail(s, "malformed_packet")
  ELSE WithProps(s, v, MakeProperties(SubSeq(s.buf, v.size + 1, v.size + v.val), loc, <<>>), k)

PropsAt(s, loc) == Props(s, loc, <<"pl", "plbuf", "props">>)

\* The packet may end here: when its remaining length is n it does.
StopAt(s, n) ==
  IF ~Going(s) \/ s.o.rl # n THEN s
  ELSE IF s.buf # <<>> THEN Fail(s, "malformed_packet")
  ELSE [s EXCEPT !.fin = TRUE]

\* A mutant of End: what follows is left alone.
EndUnchecked(s) == s

End(s) == IF Going(s) /\ s.buf # <<>> THEN Fail(s, "malformed_packet") ELSE s

Result(s) == IF s.ec = "" THEN s.o ELSE [kind |-> "error", ec |-> s.ec]

\* The object of a constructor that throws.
NoPacket == [kind |-> "none"]

----------------------------------------------------------------------------
(* What packets of both versions share. *)

\* The object with remaining length rl.
WithLength(o, rl) == [rl |-> rl, rlbuf |-> VarBytes(rl)] @@ o

ProtocolName(level) == <<0, 4, 77, 81, 84, 84, level>>

Flags(clean, will, user, pass) ==
  (IF clean THEN 2 ELSE 0)
  + (IF will = <<>> THEN 0 ELSE 4 + will[1].qos * 8 + (IF will[1].retain THEN 32 ELSE 0))
  + (IF pass = <<>> THEN 0 ELSE 64) + (IF user = <<>> THEN 0 ELSE 128)

Qos(opts) == (opts \div 2) % 4

\* set_dup.
SetDup(o) == [o EXCEPT !.fixed = IF Bit(@, 8) THEN @ ELSE @ + 8]

\* CONNECT up to its keep-alive, into the members of o: the protocol name and level, and
\* flags of which the lowest is 0.
Named(s, level) ==
  IF ~Going(s) THEN s
  ELSE IF Len(s.buf) < 7 THEN Fail(s, "malformed_packet")
  ELSE IF SubSeq(s.buf, 1, 7) # ProtocolName(level) THEN Fail(s, "unsupported_protocol_version")
  ELSE [s EXCEPT !.buf = Rest(@, 7)]
Flagged(s) == Require(s, Going(s) => ~Bit(s.o.flags, 1), "malformed_packet")
ConnectHead(b, o, level) ==
  LET r == Exact(Lengths(Checked(Fixed(b, o), Type.connect)))
  IN  Field(Flagged(Field(Named(r, level), "flags", 1)), "keep", 2)

\* The QoS of a will is none, if there is none, like its retain flag.
WillFlags(s) ==
  IF ~Going(s) THEN s
  ELSE IF Bit(s.o.flags, 4) THEN Require(s, (s.o.flags \div 8) % 4 # 3, "malformed_packet")
  ELSE Require(s, ~Bit(s.o.flags, 32) /\ (s.o.flags \div 8) % 4 = 0, "malformed_packet")

\* The user name and the password: only a password ends the packet.
UserName(s) ==
  IF Going(s) /\ Bit(s.o.flags, 128)
  THEN TextField(s, "user", "bad_user_name_or_password") ELSE s
Password(s) ==
  IF Going(s) /\ Bit(s.o.flags, 64) THEN End(TextField(s, "pass", "")) ELSE s

\* The packet identifier of a PUBLISH of QoS q, and a mutant that has none with QoS 2.
PublishPidQos1(s, q) == IF q = 1 THEN Pid(s) ELSE s
PublishPid(s, q) ==
  CASE q = 0 -> s
    [] q \in {1, 2} -> Pid(s)
    [] OTHER -> Require(s, FALSE, "malformed_packet")

\* What is left is the payload.
PayloadOf(s) ==
  IF ~Going(s) THEN s
  ELSE [s EXCEPT !.o = ("payloads" :> IF s.buf = <<>> THEN <<>> ELSE <<s.buf>>) @@ @]

EntriesBytes(es) == FlattenSeq([i \in 1..Len(es) |-> Text(es[i].topic) \o <<es[i].opts>>])

SubsQos(opts) == opts % 4

NotEnded(s) == Require(s, s.buf # <<>>, "protocol_error")

\* The entries to the end of the buffer, with options among opts.
RECURSIVE ReadEntries(_, _)
NextEntry(t, o, opts) ==
  IF ~Going(t) THEN t
  ELSE IF t.o.opts \notin opts THEN Fail(t, "malformed_packet")
  ELSE ReadEntries([t EXCEPT !.o = [o EXCEPT !.entries =
                      Append(@, [topic |-> t.o.topic, opts |-> t.o.opts])]], opts)
ReadEntries(s, opts) ==
  IF ~Going(s) \/ s.buf = <<>> THEN s
  ELSE NextEntry(Field(TextField(s, "topic", "topic_filter_invalid"), "opts", 1), s.o, opts)

\* The topic filters to the end of the buffer.
RECURSIVE ReadTopics(_)
NextTopic(t, o) ==
  IF ~Going(t) THEN t
  ELSE ReadTopics([t EXCEPT !.o = [o EXCEPT !.entries = Append(@, t.o.topic)]])
ReadTopics(s) ==
  IF ~Going(s) \/ s.buf = <<>> THEN s
  ELSE NextTopic(TextField(s, "topic", "topic_filter_invalid"), s.o)

\* The reason codes to the end of the buffer.
ReadCodes(s, codes) ==
  IF ~Going(s) THEN s
  ELSE IF s.buf = <<>> THEN Fail(s, "protocol_error")
  ELSE IF \E i \in 1..Len(s.buf) : s.buf[i] \notin codes THEN Fail(s, "malformed_packet")
  ELSE [s EXCEPT !.o = ("entries" :> s.buf) @@ @]

=============================================================================
