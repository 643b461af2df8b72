--------------------------- MODULE MCReceiveMaximum ---------------------------
(***************************************************************************)
(* ReceiveMaximum with a few messages and a maximum of one or two, so that *)
(* packets are kept back, and a counter that wraps soon.                   *)
(***************************************************************************)
EXTENDS ReceiveMaximum
===============================================================================
