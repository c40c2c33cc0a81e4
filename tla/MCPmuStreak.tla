---------------------------- MODULE MCPmuStreak ---------------------------
(* PmuStreak with one status of a charging battery and one without. *)
EXTENDS PmuStreak

TwoStatuses ==
  {[vbus |-> TRUE, battery |-> b, charging |-> TRUE, charge_done |-> FALSE] : b \in BOOLEAN}
===========================================================================
