------------------------------- MODULE MCClient -------------------------------
(***************************************************************************)
(* Client with three operations on two packet ids, over two connections.   *)
(***************************************************************************)
EXTENDS Client

MCKinds == <<{"start"}, {"start", "sub", "pub2"},
             {"unsub", "pub0", "pub1", "disconnect", "auth", "invalid"}>>
MCCodes == <<<<FALSE>>, <<TRUE>>, <<FALSE, TRUE>>>>
===============================================================================
