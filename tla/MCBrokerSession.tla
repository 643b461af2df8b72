---------------------------- MODULE MCBrokerSession ----------------------------
(***************************************************************************)
(* BrokerSession for CONNECT packets that differ in what the session keeps *)
(* and in the will.                                                        *)
(***************************************************************************)
EXTENDS BrokerSession

Kind(version, clean, expiry, will) ==
  [version |-> version, clean |-> clean, expiry |-> expiry, will |-> will]
Keeping == Kind(5, FALSE, "finite", "delayed")
Kept3 == Kind(3, FALSE, "none", "now")
MCKinds == [c \in 1..N |->
    IF c = 1 THEN {Kept3, Keeping}
             ELSE {Kept3, Keeping, Kind(5, TRUE, "never", "now")}]
===============================================================================
