------------------------------ MODULE MCCodec ------------------------------
EXTENDS Codec, TLC

MCTexts == {<<>>, <<97>>, <<98, 195, 169>>, <<255>>}

P(id, v) == [id |-> id, val |-> v]

\* Of each class of properties, and for each packet a list valid in it; some
\* packets refuse each of them.
MCLists ==
  {<<>>,
   <<P(Id.user_property, <<<<97>>, <<>>>>)>>,
   <<P(Id.reason_string, <<97, 98>>), P(Id.user_property, <<<<>>, <<98>>>>)>>,
   <<P(Id.payload_format_indicator, 1), P(Id.message_expiry_interval, 9)>>,
   <<P(Id.topic_alias, 2), P(Id.message_expiry_interval, 300)>>,
   <<P(Id.subscription_identifier, 5)>>,
   <<P(Id.receive_maximum, 1), P(Id.authentication_data, <<120>>)>>,
   <<P(Id.session_expiry_interval, 65536), P(Id.user_property, <<<<97>>, <<97>>>>)>>}

MCPayloads == {<<>>, <<<<1>>>>, <<<<1>>, <<2, 120>>>>}

MCWills ==
  {<<>>,
   <<[topic |-> <<97>>, message |-> <<120>>, qos |-> 2, retain |-> TRUE, props |-> <<>>]>>,
   <<[topic |-> <<97>>, message |-> <<>>, qos |-> 0, retain |-> FALSE,
      props |-> <<P(Id.will_delay_interval, 1)>>]>>}

MCOctets == {0, 1, 35, 255}

\* Octets at the bounds the validator looks at: texts of up to three of them, code points
\* of four, and long texts with something else than ASCII somewhere.
Bounds == {65, 127, 128, 143, 144, 159, 160, 191, 192, 193, 194, 223, 224, 225, 236, 237, 239,
           240, 241, 244, 245, 247, 248, 255}
Upto(n) == UNION {[1..k -> Bounds] : k \in 0..n}
Four == {<<a, b, c, d>> : a \in {240, 243, 244, 245}, b \in {65, 128, 143, 144, 191, 192},
                          c \in {127, 128, 191}, d \in {128, 191, 192}}
Run(n) == [i \in 1..n |-> 65]
Long == {Run(n) \o m \o Run(k) : n \in 0..17, k \in {0, 1, 2, 3, 9},
           m \in {<<>>, <<194, 128>>, <<224, 160>>, <<237, 159, 191>>, <<237, 160, 128>>,
                 <<240, 144, 128, 128>>, <<240, 143, 191, 191>>, <<128>>}}
MCWords == Upto(2) \cup Four \cup Long \cup
           {<<a, b, c>> : a \in {65, 194, 224, 225, 237, 239, 240}, b \in Bounds, c \in Bounds}
=============================================================================
