---------------------------- MODULE MCRunSchedule ----------------------------
(* Small instance of RunSchedule for TLC: a deployed and a managed schedule  *)
(* with one instant in common.                                               *)
EXTENDS RunSchedule, TLC
MCOccurs == [k \in {"daily", "extra"} |-> IF k = "daily" THEN {1, 5} ELSE {1, 4}]
MCSymmetry == Permutations(Dispatchers)
=============================================================================
