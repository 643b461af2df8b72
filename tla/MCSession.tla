------------------------------- MODULE MCSession -------------------------------
(***************************************************************************)
(* Session with the ways of using the endpoint that TLC explores.          *)
(***************************************************************************)
EXTENDS Session

CleanSession == [clean |-> TRUE, keep |-> FALSE]
FreshSession == [clean |-> TRUE, keep |-> TRUE]

\* v5.0 with a kept session, packets over the Maximum Packet Size, and restarts.
KeptV5 ==
  [v5 |-> TRUE, connects |-> {KeptSession}, faults |-> {"tooBig"}, uses |-> {"restart"},
   expires |-> FALSE]

\* The same on a server whose Maximum Packet Size differs from one connection to the next.
ShrinkV5 == [KeptV5 EXCEPT !.faults = {}, !.uses = {"shrink"}]

\* v3.1.1, clean and kept sessions in turn.
MixedV3 ==
  [v5 |-> FALSE, connects |-> {CleanSession, KeptSession}, faults |-> {}, uses |-> {},
   expires |-> FALSE]

\* v3.1.1 with a kept session: an application that publishes before it connects; one
\* that subscribes and disconnects, while the server may lose its session.
OfflineV3 ==
  [v5 |-> FALSE, connects |-> {KeptSession}, faults |-> {}, uses |-> {"offline"},
   expires |-> FALSE]
BusyV3 == [OfflineV3 EXCEPT !.uses = {"subscribe", "disconnect"}, !.expires = TRUE]

\* v5.0, a session kept, started afresh or given up, and messages that expire.
FreshV5 ==
  [KeptV5 EXCEPT !.connects = {KeptSession, FreshSession, CleanSession}, !.uses = {"expire"}]

Usual == {KeptV5, ShrinkV5, FreshV5, MixedV3, OfflineV3, BusyV3}
===============================================================================
