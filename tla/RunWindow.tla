------------------------------ MODULE RunWindow ------------------------------
(***************************************************************************)
(* What one digest run promises about its window of updates, with no task, *)
(* semaphore or deadline in it: targets finish in any order, with a result *)
(* or as an isolated failure; the digest stage is given every result, and  *)
(* only then may the checkpoint be raised, to the date of the last target  *)
(* of the unbroken finished prefix.                                        *)
(* execute_run of src/orchestrator.py is shown to implement it (DigestRun).*)
(***************************************************************************)
EXTENDS Naturals

CONSTANTS Targets,      \* positions in the chronological target list: 1..n
          Date          \* publication date per position; 0 when it has none

VARIABLES phase,        \* "open", "reported" or "closed"
          finished,     \* targets the run is done with
          isolated,     \* those among them whose analysis failed
          reported,     \* targets the digest stage was given
          stored        \* the durable checkpoint

vars == <<phase, finished, isolated, reported, stored>>

\* The unbroken prefix of finished targets, and the newest date in it.
Prefix(done) == {i \in done : \A j \in Targets : j < i => j \in done}
Newest(S, d) == /\ \A i \in S : Date[i] <= d
                /\ d = 0 \/ \E i \in S : Date[i] = d

Init ==
    /\ phase = "open" /\ finished = {} /\ isolated = {} /\ reported = {}
    /\ stored \in Nat

Finish ==
    /\ phase = "open"
    /\ \E i \in Targets \ finished :
         /\ finished' = finished \cup {i}
         /\ isolated' \in {isolated, isolated \cup {i}}
    /\ UNCHANGED <<phase, reported, stored>>

Report ==
    /\ phase = "open" /\ phase' = "reported"
    /\ reported' = finished \ isolated
    /\ UNCHANGED <<finished, isolated, stored>>

Commit ==
    /\ phase = "reported" /\ phase' = "closed"
    /\ stored' \in {stored} \cup {Date[i] : i \in Prefix(finished)}
    /\ stored' # stored => stored' > stored /\ Newest(Prefix(finished), stored')
    /\ UNCHANGED <<finished, isolated, reported>>

\* A run that fails, or has nothing to do, leaves the checkpoint alone.
GiveUp ==
    /\ phase = "open" /\ phase' = "closed"
    /\ UNCHANGED <<finished, isolated, reported, stored>>

Next == Finish \/ Report \/ Commit \/ GiveUp

Spec == Init /\ [][Next]_vars
=============================================================================
