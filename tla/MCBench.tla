-------------------------------- MODULE MCBench --------------------------------
(***************************************************************************)
(* Bench for three clients.                                                *)
(***************************************************************************)
EXTENDS Bench

MCClients == <<"a", "b", "c">>
=============================================================================
