-------------------------- MODULE MonotoneRegister --------------------------
(***************************************************************************)
(* What the durable checkpoint promises to the rest of the system, with no *)
(* blob, ETag or retry in it: a register that its writers can only raise.  *)
(* Only somebody outside the program (an operator who deletes the blob to  *)
(* reset the analysis window, or junk written over it) takes the value     *)
(* away, and `resets' counts how often that happened.                      *)
(***************************************************************************)
EXTENDS Naturals

VARIABLES
    value,      \* the watermark; 0 stands for "no checkpoint" (None)
    resets      \* how many times an outsider took the value away

vars == <<value, resets>>

Init == value \in Nat /\ resets = 0

\* BlobCheckpointStore.advance: a strictly newer watermark replaces the value.
Raise == value' \in Nat /\ value' > value /\ UNCHANGED resets

\* The blob is deleted or overwritten with junk.
Reset == value' = 0 /\ resets' = resets + 1

Next == Raise \/ Reset

Spec == Init /\ [][Next]_vars
=============================================================================
