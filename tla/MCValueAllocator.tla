--------------------------- MODULE MCValueAllocator ---------------------------
(***************************************************************************)
(* ValueAllocator on seven values of a type that promotes.                 *)
(***************************************************************************)
EXTENDS ValueAllocator
===============================================================================
