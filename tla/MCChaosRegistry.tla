--------------------------- MODULE MCChaosRegistry ---------------------------
(* Finite instances of ChaosRegistry: two fault types, of which the        *)
(* remediation clears one, as restart clears cpu and not db_slow.          *)
EXTENDS ChaosRegistry

CONSTANTS cpu, db

MCOpsClears == [a \in Actions |-> {cpu}]

(* A duration past the cap, and one whose nanoseconds do not fit an int64: *)
(* the conversion in makeChaosHandler turns that one negative.             *)
MCDurations == {-1, 3}

(* The negative one alone, which the registry replaces by the default.     *)
MCOverflow == {-1}
=============================================================================
