------------------------------ MODULE DigestRun ------------------------------
(***************************************************************************)
(* One orchestrated digest run: execute_run of src/orchestrator.py with    *)
(* its _analyze_one tasks, _WatermarkCursor, failure cutoff, run deadline, *)
(* archive, digest and checkpoint commit.                                  *)
(*                                                                         *)
(* A task's sections under results_lock and analysis_finished do not       *)
(* suspend, so each is one step; everything between two sections may       *)
(* interleave with the other tasks.                                        *)
(***************************************************************************)
EXTENDS Naturals, FiniteSets

CONSTANTS
    MaxTargets,                 \* bound: updates a run may select
    Date,                       \* publication date per position, 0: undated
    MaxConcurrentAnalyses,      \* settings.max_concurrent_analyses
    MaxConsecutiveFailures      \* MAX_CONSECUTIVE_FAILURES

ASSUME TargetsAssumption == MaxTargets \in Nat
ASSUME ConcurrencyAssumption == MaxConcurrentAnalyses \in Nat \ {0}
ASSUME FailuresAssumption == MaxConsecutiveFailures \in Nat \ {0}

Positions == 1..MaxTargets

\* _filter_updates, _chronological: oldest first, undated targets last.
ASSUME DateAssumption ==
    /\ Date \in [Positions -> Nat]
    /\ \A i, j \in Positions :
        i < j /\ Date[j] # 0 => Date[i] # 0 /\ Date[i] <= Date[j]

VARIABLES
    dryRun, sendEmail, commits, \* how the run was started (RunRecord)
    status,         \* RunRecord.status
    stage,          \* where execute_run is: "select", "analyze", "digest", "commit", "done"
    total,          \* number of targets selected
    task,           \* per position: where its _analyze_one is
    outcome,        \* per position: how its _analyze_one ended
    active,         \* active_analyses
    consecutive,    \* consecutive_failures
    halted,         \* halted_after_failures is set
    inBudget,       \* deadline.has_budget_for(slowest_s)
    finished,       \* cursor._finished
    cursor,         \* cursor.cursor
    watermark,      \* cursor.watermark, 0 for None
    digestItems,    \* positions in digest_items
    emailSent,      \* RunRecord.email_sent
    stored,         \* the durable checkpoint
    committed       \* the store was raised by this run

options  == <<dryRun, sendEmail, commits>>
tasks    == <<task, outcome>>
gate     == <<active, consecutive, halted, inBudget>>
progress == <<finished, cursor, watermark, digestItems>>
result   == <<emailSent, stored, committed>>
vars     == <<options, status, stage, total, tasks, gate, progress, result>>

TaskStates == {"queued", "waiting", "woken", "analyzing", "leaving", "archiving", "done"}
TaskOutcomes == {"none", "ok", "failed", "archiveFailed", "halted", "deferred"}
Targets == 1..total

TypeOK ==
    /\ dryRun \in BOOLEAN /\ sendEmail \in BOOLEAN /\ commits \in BOOLEAN
    /\ status \in {"queued", "running", "completed", "partial", "failed"}
    /\ stage \in {"select", "analyze", "digest", "commit", "done"}
    /\ total \in 0..MaxTargets
    /\ task \in [Positions -> TaskStates]
    /\ outcome \in [Positions -> TaskOutcomes]
    /\ active \in 0..MaxConcurrentAnalyses
    /\ consecutive \in 0..MaxTargets
    /\ halted \in BOOLEAN /\ inBudget \in BOOLEAN
    /\ finished \subseteq Positions /\ digestItems \subseteq Positions
    /\ cursor \in 0..total
    /\ watermark \in Nat /\ stored \in Nat
    /\ emailSent \in BOOLEAN /\ committed \in BOOLEAN

Init ==
    /\ dryRun \in BOOLEAN /\ sendEmail \in BOOLEAN /\ commits \in BOOLEAN
    /\ status = "queued" /\ stage = "select" /\ total = 0
    /\ task = [i \in Positions |-> "queued"]
    /\ outcome = [i \in Positions |-> "none"]
    /\ active = 0 /\ consecutive = 0 /\ halted = FALSE /\ inBudget = TRUE
    /\ finished = {} /\ cursor = 0 /\ watermark = 0 /\ digestItems = {}
    /\ emailSent = FALSE /\ stored = 0 /\ committed = FALSE

-----------------------------------------------------------------------------
(* Selecting the targets *)

End(how) ==
    /\ stage' = "done"
    /\ status' = how

\* execute_run up to asyncio.gather: the selector and the feed may raise; an
\* empty window completes at once; a dry run goes straight to the commit.
\* Runs that commit select by the checkpoint, which takes dated updates only;
\* the other selectors belong to Admin runs, which do not commit.
Select ==
    /\ stage = "select"
    /\ \/ End("failed") /\ UNCHANGED total
       \/ End("completed") /\ UNCHANGED total
       \/ /\ total' \in 1..MaxTargets
          /\ commits => \A i \in 1..total' : Date[i] # 0
          /\ stage' = IF dryRun THEN "commit" ELSE "analyze"
          /\ status' = "running"
    /\ UNCHANGED <<options, tasks, gate, progress, result>>

-----------------------------------------------------------------------------
(* _analyze_one *)

CutOff == consecutive >= MaxConsecutiveFailures

Holding == {i \in Targets : task[i] \notin {"queued", "done"}}

Move(i, to) == task' = [task EXCEPT ![i] = to]

EndTask(i, how) ==
    /\ Move(i, "done")
    /\ outcome' = [outcome EXCEPT ![i] = how]

\* Mutants of Gate: it turns a task away while analyses are still running; it
\* does not look at the failures at all.
GateDoesNotWait(i) ==
    \/ /\ CutOff
       /\ halted' = TRUE
       /\ EndTask(i, "halted")
       /\ UNCHANGED active
    \/ /\ ~CutOff /\ ~inBudget
       /\ EndTask(i, "deferred")
       /\ UNCHANGED <<active, halted>>
    \/ /\ ~CutOff /\ inBudget
       /\ active' = active + 1
       /\ Move(i, "analyzing")
       /\ UNCHANGED <<outcome, halted>>

GateWithoutCutoff(i) ==
    \/ /\ ~inBudget
       /\ EndTask(i, "deferred")
       /\ UNCHANGED <<active, halted>>
    \/ /\ inBudget
       /\ active' = active + 1
       /\ Move(i, "analyzing")
       /\ UNCHANGED <<outcome, halted>>

\* The section under analysis_finished that admits a task, or turns it away.
Gate(i) ==
    \/ /\ CutOff /\ active > 0
       /\ Move(i, "waiting")
       /\ UNCHANGED <<outcome, active, halted>>
    \/ /\ CutOff /\ active = 0
       /\ halted' = TRUE
       /\ EndTask(i, "halted")
       /\ UNCHANGED active
    \/ /\ ~CutOff /\ ~inBudget
       /\ EndTask(i, "deferred")
       /\ UNCHANGED <<active, halted>>
    \/ /\ ~CutOff /\ inBudget
       /\ active' = active + 1
       /\ Move(i, "analyzing")
       /\ UNCHANGED <<outcome, halted>>

\* Mutant of Enter: any waiting task may take the semaphore.
EnterInAnyOrder(i) ==
    /\ stage = "analyze" /\ task[i] = "queued"
    /\ Cardinality(Holding) < MaxConcurrentAnalyses
    /\ Gate(i)
    /\ UNCHANGED <<options, status, stage, total, consecutive, inBudget, progress, result>>

\* The semaphore serves the tasks in the order gather created them; the lock
\* is free whenever a task runs, so the gate is reached without a pause.
Enter(i) ==
    /\ stage = "analyze" /\ task[i] = "queued"
    /\ \A j \in Targets : j < i => task[j] # "queued"
    /\ Cardinality(Holding) < MaxConcurrentAnalyses
    /\ Gate(i)
    /\ UNCHANGED <<options, status, stage, total, consecutive, inBudget, progress, result>>

\* A task notified in analysis_finished.wait() looks at its condition again.
Recheck(i) ==
    /\ task[i] = "woken"
    /\ Gate(i)
    /\ UNCHANGED <<options, status, stage, total, consecutive, inBudget, progress, result>>

\* The clock runs, or a slower analysis raises the estimate.  The first task
\* is admitted with an estimate of zero, before any time has gone by.
BudgetRunsOut ==
    /\ stage = "analyze" /\ inBudget /\ task[1] # "queued"
    /\ inBudget' = FALSE
    /\ UNCHANGED <<options, status, stage, total, tasks, active, consecutive, halted,
                   progress, result>>

\* Mutants of CursorFinish: the date of the newest finished target; the date of
\* the target after the prefix.
CursorTakesNewest(i) ==
    /\ finished' = finished \cup {i}
    /\ cursor' \in cursor..total
    /\ \A j \in (cursor + 1)..cursor' : j \in finished'
    /\ cursor' = total \/ cursor' + 1 \notin finished'
    /\ watermark' = IF Date[i] > watermark THEN Date[i] ELSE watermark

CursorOneTooFar(i) ==
    /\ finished' = finished \cup {i}
    /\ cursor' \in cursor..total
    /\ \A j \in (cursor + 1)..cursor' : j \in finished'
    /\ cursor' = total \/ cursor' + 1 \notin finished'
    /\ watermark' = IF cursor' \in 1..(total - 1) /\ Date[cursor' + 1] > watermark
                    THEN Date[cursor' + 1] ELSE watermark

\* _WatermarkCursor.finish: extend the unbroken prefix and take its last date.
CursorFinish(i) ==
    /\ finished' = finished \cup {i}
    /\ cursor' \in cursor..total
    /\ \A j \in (cursor + 1)..cursor' : j \in finished'
    /\ cursor' = total \/ cursor' + 1 \notin finished'
    /\ watermark' = IF cursor' # cursor /\ Date[cursor'] > watermark
                    THEN Date[cursor'] ELSE watermark

\* The analysis raised: the update is isolated, and counts as processed.
AnalysisFails(i) ==
    /\ task[i] = "analyzing"
    /\ Move(i, "leaving")
    /\ outcome' = [outcome EXCEPT ![i] = "failed"]
    /\ consecutive' = consecutive + 1
    /\ CursorFinish(i)
    /\ UNCHANGED <<options, status, stage, total, active, halted, inBudget, digestItems, result>>

AnalysisSucceeds(i) ==
    /\ task[i] = "analyzing"
    /\ Move(i, "leaving")
    /\ outcome' = [outcome EXCEPT ![i] = "ok"]
    /\ consecutive' = 0
    /\ UNCHANGED <<options, status, stage, total, active, halted, inBudget, progress, result>>

\* Mutants of Leave: the waiters are not notified; the count is not lowered.
LeaveSilently(i) ==
    /\ task[i] = "leaving"
    /\ active' = active - 1
    /\ Move(i, IF outcome[i] = "ok" THEN "archiving" ELSE "done")
    /\ UNCHANGED <<options, status, stage, total, outcome, consecutive, halted, inBudget,
                   progress, result>>

LeaveUncounted(i) ==
    /\ task[i] = "leaving"
    /\ task' = [j \in Positions |->
                    IF j = i THEN IF outcome[i] = "ok" THEN "archiving" ELSE "done"
                    ELSE IF task[j] = "waiting" THEN "woken" ELSE task[j]]
    /\ UNCHANGED <<options, status, stage, total, outcome, active, consecutive, halted,
                   inBudget, progress, result>>

\* The finally clause: one analysis fewer, and every waiter is woken.
Leave(i) ==
    /\ task[i] = "leaving"
    /\ active' = active - 1
    /\ task' = [j \in Positions |->
                    IF j = i THEN IF outcome[i] = "ok" THEN "archiving" ELSE "done"
                    ELSE IF task[j] = "waiting" THEN "woken" ELSE task[j]]
    /\ UNCHANGED <<options, status, stage, total, outcome, consecutive, halted, inBudget,
                   progress, result>>

\* The canonical result is stored before it counts as finished.
ArchiveStores(i) ==
    /\ task[i] = "archiving"
    /\ Move(i, "done")
    /\ digestItems' = digestItems \cup {i}
    /\ CursorFinish(i)
    /\ UNCHANGED <<options, status, stage, total, outcome, gate, result>>

\* Mutant of ArchiveFails: the update counts as finished all the same.
ArchiveFailureFinishes(i) ==
    /\ task[i] = "archiving"
    /\ EndTask(i, "archiveFailed")
    /\ CursorFinish(i)
    /\ UNCHANGED <<options, status, stage, total, gate, digestItems, result>>

ArchiveFails(i) ==
    /\ task[i] = "archiving"
    /\ EndTask(i, "archiveFailed")
    /\ UNCHANGED <<options, status, stage, total, gate, progress, result>>

Analyze(i) ==
    \/ Enter(i) \/ Recheck(i)
    \/ AnalysisFails(i) \/ AnalysisSucceeds(i) \/ Leave(i)
    \/ ArchiveStores(i) \/ ArchiveFails(i)

-----------------------------------------------------------------------------
(* After the gather *)

Ended(how) == {i \in Targets : outcome[i] = how}

\* Mutant of Gathered: results that could not be archived are left out, unless
\* there are no others.
GatheredWithoutLost ==
    /\ stage = "analyze" /\ \A i \in Targets : task[i] = "done"
    /\ \/ /\ Ended("archiveFailed") # {} /\ digestItems = {}
          /\ End("failed")
       \/ /\ Ended("archiveFailed") = {} \/ digestItems # {}
          /\ stage' = IF sendEmail THEN "digest" ELSE "commit"
          /\ UNCHANGED status
    /\ UNCHANGED <<options, total, tasks, gate, progress, result>>

\* gather returns: a result that could not be archived fails the whole run.
Gathered ==
    /\ stage = "analyze" /\ \A i \in Targets : task[i] = "done"
    /\ \/ /\ Ended("archiveFailed") # {}
          /\ End("failed")
       \/ /\ Ended("archiveFailed") = {}
          /\ stage' = IF sendEmail THEN "digest" ELSE "commit"
          /\ UNCHANGED status
    /\ UNCHANGED <<options, total, tasks, gate, progress, result>>

\* _send_digest: FALSE with nothing to send or a recipient missed; it raises
\* when the subscribers cannot be read.
SendDigest ==
    /\ stage = "digest"
    /\ \/ /\ emailSent' \in IF digestItems = {} THEN {FALSE} ELSE BOOLEAN
          /\ stage' = "commit"
          /\ UNCHANGED status
       \/ /\ digestItems # {}
          /\ End("failed")
          /\ UNCHANGED emailSent
    /\ UNCHANGED <<options, total, tasks, gate, progress, stored, committed>>

Problems ==
    \/ Ended("failed") # {} \/ cursor < total \/ Ended("deferred") # {}
    \/ halted
    \/ sendEmail /\ ~emailSent

\* _commit_checkpoint and the final status.  The store may answer that it
\* holds a newer watermark, or fail before or after writing.
Commit ==
    /\ stage = "commit"
    /\ \/ UNCHANGED <<stored, committed>>
       \/ /\ commits /\ ~dryRun /\ watermark > stored
          /\ stored' = watermark /\ committed' = TRUE
    /\ End(IF Problems /\ ~dryRun THEN "partial" ELSE "completed")
    /\ UNCHANGED <<options, total, tasks, gate, progress, emailSent>>

-----------------------------------------------------------------------------
Next ==
    \/ Select
    \/ \E i \in Targets : Analyze(i)
    \/ BudgetRunsOut
    \/ Gathered \/ SendDigest \/ Commit

Spec == Init /\ [][Next]_vars

\* Every coroutine that can run is run by the event loop, and every remote
\* call returns or times out.
Fairness ==
    /\ WF_vars(Select) /\ WF_vars(Gathered) /\ WF_vars(SendDigest) /\ WF_vars(Commit)
    /\ \A i \in Positions : WF_vars(i \in Targets /\ Analyze(i))

FairSpec == Spec /\ Fairness

-----------------------------------------------------------------------------
(* Properties *)

\* However the analyses finish, no target dated before the watermark is still
\* unprocessed, and the targets up to the cursor are all processed
\* (_WatermarkCursor: "Only an unbroken prefix counts").
WatermarkCovers ==
    /\ \A i \in Targets : i <= cursor => i \in finished
    /\ \A i \in Targets : 0 < Date[i] /\ Date[i] < watermark => i \in finished

\* What the watermark covers is either an isolated failure or has its result
\* archived and queued for the digest: the window never advances beyond the
\* archive (README, "One scheduled run", step 6).
FinishedIsAccountedFor ==
    \A i \in Targets :
        i \in finished <=> outcome[i] = "failed" \/ i \in digestItems

\* When tasks start to be turned away for consecutive failures, no analysis
\* is running any more whose success could still lift the cutoff.
HaltIsFinal == halted => CutOff /\ active = 0

\* The cutoff bounds the damage of an outage: counting those still running,
\* the failures in a row never exceed the limit by a full batch of analyses.
OvershootBound ==
    consecutive + Cardinality({i \in Targets : task[i] = "analyzing"})
        < MaxConsecutiveFailures + MaxConcurrentAnalyses

\* A run that gets as far as its digest has finished its oldest target, so a
\* run that is not cut short always moves the window.
OldestIsSettled ==
    stage \in {"digest", "commit"} /\ ~dryRun => 1 \in finished

\* A result that could not be archived blocks both the digest and the
\* checkpoint, whatever became of the others (README, "Exact meaning of
\* completed status"); and when a run has moved the checkpoint, every target
\* dated before it was given to the digest stage, or is a failure that was
\* isolated, though others may have been deferred or turned away.
CommittedIsAccounted ==
    /\ stage \in {"digest", "commit"} \/ emailSent \/ committed => Ended("archiveFailed") = {}
    /\ committed => \A i \in Targets :
                        Date[i] < stored => i \in digestItems \/ outcome[i] = "failed"

\* Nobody waits on the condition for ever: the run ends.
RunEnds == <>(stage = "done")

\* The run is an implementation of RunWindow: the cursor loop computes the
\* unbroken prefix, and the checkpoint moves only after the digest stage was
\* given every result it passes.
Window == INSTANCE RunWindow WITH
            Targets <- Positions,
            phase <- IF stage = "done" THEN "closed"
                     ELSE IF stage = "commit" THEN "reported" ELSE "open",
            isolated <- Ended("failed"),
            reported <- IF stage = "commit" \/ status \in {"completed", "partial"}
                        THEN digestItems ELSE {}
ImplementsWindow == Window!Spec

\* What src/scheduler.py says of a run: "a failed execution (exit code 1)
\* leaves the window in place for the next one".
ExitOneKeepsWindow == status \in {"partial", "failed"} => ~committed
=============================================================================
