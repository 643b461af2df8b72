------------------------------- MODULE MCStream -------------------------------
(***************************************************************************)
(* Stream with three packets and two connections.  With digits of base two *)
(* and at most two of them a remaining length of four is too large.        *)
(***************************************************************************)
EXTENDS Stream
MCLengths == {<<0, 3, 1>>, <<2, 0, 0>>, <<1, 4, 0>>}
Receiver(e, k) == [endpoint |-> e, kinds |-> k]
MCReceivers ==
  {Receiver("v3", <<"other", "large", "wanted">>),
   Receiver("v3", <<"connect", "malformed", "wanted">>),
   Receiver("v5 client", <<"other", "large", "wanted">>),
   Receiver("v5 client", <<"wanted", "malformed", "badConnect">>),
   Receiver("v5 server", <<"connect", "large", "wanted">>),
   Receiver("v5 server", <<"badConnect", "malformed", "wanted">>)}
===============================================================================
