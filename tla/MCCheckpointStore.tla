-------------------------- MODULE MCCheckpointStore --------------------------
(* Small instance of CheckpointStore for TLC. *)
EXTENDS CheckpointStore, TLC
MCTimes == 1..2
MCSymmetry == Permutations(Writers)
=============================================================================
