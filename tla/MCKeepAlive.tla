------------------------------ MODULE MCKeepAlive ------------------------------
(***************************************************************************)
(* KeepAlive with keep-alives of two and four ticks, so that the grace of  *)
(* the server ends between two of them, and timeouts on both sides of them.*)
(***************************************************************************)
EXTENDS KeepAlive
===============================================================================
