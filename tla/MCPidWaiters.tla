----------------------------- MODULE MCPidWaiters -----------------------------
(***************************************************************************)
(* PidWaiters with the ways of using the endpoint that TLC explores.       *)
(***************************************************************************)
EXTENDS PidWaiters

CONSTANTS w1, w2, w3, w4, w5

Operations == {w1, w2, w3, w4, w5}

\* Every id is acquired by waiting operations, nobody cancels.
Alone == [waiters |-> Operations, ids |-> 2, with |-> {}]

\* Other code acquires ids without waiting.
Contended == [waiters |-> {w1, w2, w3, w4}, ids |-> 1, with |-> {"steal"}]

\* The application also cancels operations; a session starts anew.
Cancelled == [waiters |-> {w1, w2, w3}, ids |-> 2, with |-> {"cancel", "steal"}]
Cleared == [waiters |-> {w1, w2, w3}, ids |-> 1, with |-> {"cancel", "steal", "clear"}]

Usual == {Alone, Contended, Cancelled, Cleared}
===============================================================================
