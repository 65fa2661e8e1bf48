---------------------------- MODULE AnalyzerGraph ----------------------------
(***************************************************************************)
(* The analysis graph of src/agent/analyzer.py as it runs inside the       *)
(* Hosted Agent's container: plan, execute, evaluate, revise, report, and  *)
(* the critic and verification that follow.  The container has one         *)
(* analyzer, so analyses in progress share its circuit breaker, the        *)
(* process-wide store of tool results and the analyzer's "last run"        *)
(* diagnostics.  A step is what one analysis does between two awaits; a    *)
(* guarded model call is two, the look at the breaker and the reply.       *)
(*                                                                         *)
(* The questions: does an analysis always come to an end, can it return a  *)
(* report on evidence nobody evaluated, and what do analyses do to one     *)
(* another through what they share.                                        *)
(***************************************************************************)
EXTENDS Naturals, Sequences, FiniteSets

CONSTANTS
    Callers,        \* requests of the application, one trace each
    MaxAttempts,    \* times a request may be sent: _MAX_ANALYSIS_ATTEMPTS
    Nobody,         \* no analysis: None in the "last run" attributes
    Criticised,     \* geval_enabled and geval_runtime_enabled
    Threshold,      \* failures in a row that open the breaker: failure_threshold
    MaxIterations,  \* max_iterations
    MaxPlanCalls,   \* max_planning_iters
    MaxPlans,       \* plans after which "insufficient" becomes "sufficient"
    MaxRevisions,   \* revisions after which "partial" becomes "sufficient"
    MaxRecoveries,  \* MAX_OUTPUT_RECOVERY_ATTEMPTS
    Capacity,       \* entries the store of tool results has room for
    MaxTasks,       \* bound: pending tasks a plan or a revision adds
    MaxPuts         \* bound: results too long for the prompt, per analysis

ASSUME CriticisedAssumption == Criticised \in BOOLEAN

ASSUME CountsAssumption ==
    /\ MaxAttempts \in Nat \ {0} /\ Threshold \in Nat \ {0}
    /\ MaxIterations \in Nat \ {0} /\ MaxPlanCalls \in Nat /\ MaxPlans \in Nat
    /\ MaxRevisions \in Nat /\ MaxRecoveries \in Nat \ {0}
    /\ Capacity \in Nat /\ MaxTasks \in Nat /\ MaxPuts \in Nat

Executions == Callers \X (1 .. MaxAttempts)

ASSUME NobodyAssumption == Nobody \notin Executions

Trace(e) == e[1]

Twins(e, f) == e # f /\ Trace(e) = Trace(f)

Loop      == {"plan", "planCall", "planTools", "execute", "evaluate",
              "evaluateCall", "revise", "reviseCall"}
Reporting == {"report", "reportCall", "recover", "region"}
Critic    == {"score", "rescore", "verify"}
Analysing == Loop \cup Reporting \cup Critic
Running   == Analysing \cup {"customize", "customizeCall"}
Ended     == {"done", "failed"}

VARIABLES
    node,           \* per analysis: where it is; "off" until its request arrives
    turns,          \* calls this node has made
    heard,          \* some call of this planning round was answered
    iteration, planned, revised,    \* the counters of AgentState
    flat,           \* evaluations in a row that found little new evidence
    pending,        \* pending tasks of the plan
    validated,      \* ghost: the evaluator answered on the latest results
    drafts,         \* report versions written: the critic has one rewritten
    puts,           \* results it put in the store
    reply,          \* what it returned: the version kept and the diagnostics
    failures, cooled,   \* the breaker: failures in a row (capped), time-out over
    store,          \* the stored results, oldest first: <<analysis, number>>
    evicted,        \* ghost: those dropped for room
    scored,         \* _last_geval: the analysis and the version it judges
    verified,       \* _last_action_verification: the analysis it is about
    beside          \* ghost: pairs of analyses that were in progress together

graph     == <<turns, heard, iteration, planned, revised, flat, pending, validated>>
reporting == <<drafts, reply>>
breaker   == <<failures, cooled>>
results   == <<puts, store, evicted>>
lastRun   == <<scored, verified, beside>>
analysisVars == <<node, graph, reporting, breaker, results, lastRun>>

NoReply == [kept |-> 0, quality |-> <<Nobody, 0>>, verified |-> Nobody]

Pairs == {{e, f} : e \in Executions, f \in Executions}

AnalysisTypeOK ==
    /\ node \in [Executions -> {"off", "queued"} \cup Running \cup Ended]
    /\ turns \in [Executions -> Nat]
    /\ heard \in [Executions -> BOOLEAN]
    /\ iteration \in [Executions -> 0 .. MaxIterations + 1]
    /\ planned \in [Executions -> Nat] /\ revised \in [Executions -> Nat]
    /\ flat \in [Executions -> Nat]
    /\ pending \in [Executions -> 0 .. MaxTasks]
    /\ validated \in [Executions -> BOOLEAN]
    /\ drafts \in [Executions -> 0 .. 2]
    /\ puts \in [Executions -> 0 .. MaxPuts]
    /\ reply \in [Executions ->
         [kept : 0 .. 2, quality : (Executions \cup {Nobody}) \X (0 .. 2),
          verified : Executions \cup {Nobody}]]
    /\ failures \in 0 .. Threshold /\ cooled \in BOOLEAN
    /\ store \in Seq(Executions \X (1 .. MaxPuts))
    /\ evicted \subseteq Executions \X (1 .. MaxPuts)
    /\ scored \in (Executions \cup {Nobody}) \X (0 .. 2)
    /\ verified \in Executions \cup {Nobody}
    /\ beside \subseteq Pairs

FreshProcess ==
    /\ failures = 0 /\ cooled = FALSE /\ store = <<>>
    /\ scored = <<Nobody, 0>> /\ verified = Nobody

AnalysisInit ==
    /\ node = [e \in Executions |-> "off"]
    /\ turns = [e \in Executions |-> 0]
    /\ heard = [e \in Executions |-> FALSE]
    /\ iteration = [e \in Executions |-> 0]
    /\ planned = [e \in Executions |-> 0]
    /\ revised = [e \in Executions |-> 0]
    /\ flat = [e \in Executions |-> 0]
    /\ pending = [e \in Executions |-> 0]
    /\ validated = [e \in Executions |-> FALSE]
    /\ drafts = [e \in Executions |-> 0]
    /\ puts = [e \in Executions |-> 0]
    /\ reply = [e \in Executions |-> NoReply]
    /\ evicted = {} /\ beside = {}
    /\ FreshProcess

-----------------------------------------------------------------------------
(* What analyses share. *)

Goto(e, n) == node' = [node EXCEPT ![e] = n]

MoveTo(e, n) == Goto(e, n) /\ UNCHANGED <<graph, reporting, results, lastRun>>

IsOpen == failures = Threshold /\ ~cooled

RecordSuccess == failures' = 0 /\ cooled' = FALSE

RecordFailure ==
    /\ failures' = IF failures = Threshold THEN Threshold ELSE failures + 1
    /\ cooled' = FALSE

(* reset_timeout has passed since the last failure: calls are let through. *)
Cool == IsOpen /\ cooled' = TRUE /\ UNCHANGED <<node, graph, reporting, failures, results, lastRun>>

(* store_and_handle of a result over the prompt's budget: the entry is      *)
(* appended, and the oldest make room but for the new one.                  *)
Put(e) ==
    LET ref   == <<e, puts[e] + 1>>
        full  == Append(store, ref)
        extra == IF Len(full) > Capacity THEN Len(full) - Capacity ELSE 0
        drop  == IF extra = Len(full) THEN extra - 1 ELSE extra
    IN  /\ puts[e] < MaxPuts
        /\ puts' = [puts EXCEPT ![e] = @ + 1]
        /\ store' = SubSeq(full, drop + 1, Len(full))
        /\ evicted' = evicted \cup {full[i] : i \in 1 .. drop}

MayPut(e) == Put(e) \/ UNCHANGED results

\* Mutant of ClearTrace: the whole store is emptied.
ClearStore(t) == store' = <<>> /\ UNCHANGED <<puts, evicted>>

(* The place of position i among the positions that are kept.               *)
PlaceAmong(kept, i) == Cardinality({j \in kept : j <= i})

(* clear_trace: the entries of a trace, whichever attempt put them there;    *)
(* the others keep their order.                                              *)
ClearTrace(t) ==
    LET kept  == {i \in DOMAIN store : Trace(store[i][1]) # t}
        At(n) == CHOOSE i \in kept : PlaceAmong(kept, i) = n
    IN  /\ store' = [n \in 1 .. Cardinality(kept) |-> store[At(n)]]
        /\ UNCHANGED <<puts, evicted>>

(* An evaluation request begins next to those in progress.                   *)
Enter(e) ==
    /\ Goto(e, "plan")
    /\ beside' = beside \cup {{e, f} : f \in {g \in Executions : node[g] \in Analysing}}
    /\ UNCHANGED <<graph, reporting, results, scored, verified>>

(* No node after the loop reads its counters: they are dropped there, and    *)
(* with the rest when the analysis ends.                                     *)
DropState(e) ==
    /\ turns' = [turns EXCEPT ![e] = 0]
    /\ heard' = [heard EXCEPT ![e] = FALSE]
    /\ iteration' = [iteration EXCEPT ![e] = 0]
    /\ planned' = [planned EXCEPT ![e] = 0]
    /\ revised' = [revised EXCEPT ![e] = 0]
    /\ flat' = [flat EXCEPT ![e] = 0]
    /\ pending' = [pending EXCEPT ![e] = 0]

(* The analysis raises: the hosted agent answers with status "failed".  What *)
(* it put in the store stays there.                                          *)
Fail(e) ==
    /\ Goto(e, "failed")
    /\ DropState(e)
    /\ validated' = [validated EXCEPT ![e] = FALSE]
    /\ drafts' = [drafts EXCEPT ![e] = 0]
    /\ UNCHANGED <<reply, results, lastRun>>

-----------------------------------------------------------------------------
(* Planning: up to MaxPlanCalls calls, the tools they ask for in between.   *)

PlanTurn(e) ==
    /\ node[e] = "plan" /\ turns[e] < MaxPlanCalls /\ ~IsOpen
    /\ MoveTo(e, "planCall") /\ UNCHANGED breaker

(* The plan is parsed from the last answer; a default one when it is not    *)
(* JSON.                                                                    *)
WritePlan(e) ==
    /\ Goto(e, "execute")
    /\ planned' = [planned EXCEPT ![e] = @ + 1]
    /\ iteration' = [iteration EXCEPT ![e] = @ + 1]
    /\ turns' = [turns EXCEPT ![e] = 0]
    /\ heard' = [heard EXCEPT ![e] = FALSE]
    /\ \E n \in 0 .. MaxTasks : pending' = [pending EXCEPT ![e] = n]
    /\ UNCHANGED <<revised, flat, validated, reporting, results, lastRun>>

PlanEnd(e) ==
    /\ node[e] = "plan" /\ (turns[e] = MaxPlanCalls \/ IsOpen)
    /\ IF heard[e] THEN WritePlan(e) ELSE Fail(e)
    /\ UNCHANGED breaker

PlanAnswered(e) ==
    /\ node[e] = "planCall"
    /\ RecordSuccess
    /\ \/ WritePlan(e)
       \/ /\ Goto(e, "planTools")
          /\ heard' = [heard EXCEPT ![e] = TRUE]
          /\ UNCHANGED <<turns, iteration, planned, revised, flat, pending, validated>>
          /\ UNCHANGED <<reporting, results, lastRun>>

\* Mutant of PlanBusy: the turn is not used up.
PlanBusyUncounted(e) == node[e] = "planCall" /\ MoveTo(e, "plan") /\ UNCHANGED breaker

(* 429, 503 or 529: the next turn after a delay, and the breaker not told.  *)
PlanBusy(e) ==
    /\ node[e] = "planCall"
    /\ Goto(e, "plan")
    /\ turns' = [turns EXCEPT ![e] = @ + 1]
    /\ UNCHANGED <<heard, iteration, planned, revised, flat, pending, validated>>
    /\ UNCHANGED <<reporting, breaker, results, lastRun>>

PlanFailed(e) == node[e] = "planCall" /\ RecordFailure /\ Fail(e)

PlanTools(e) ==
    /\ node[e] = "planTools"
    /\ MayPut(e)
    /\ Goto(e, "plan")
    /\ turns' = [turns EXCEPT ![e] = @ + 1]
    /\ UNCHANGED <<heard, iteration, planned, revised, flat, pending, validated>>
    /\ UNCHANGED <<reporting, breaker, lastRun>>

-----------------------------------------------------------------------------
(* Execution: pending tasks run in parallel; the attempts of one and the    *)
(* argument fixer between them touch nothing that is shared.                *)

RunTask(e) ==
    /\ node[e] = "execute" /\ pending[e] > 0
    /\ pending' = [pending EXCEPT ![e] = @ - 1]
    /\ MayPut(e)
    /\ UNCHANGED <<turns, heard, iteration, planned, revised, flat, validated>>
    /\ UNCHANGED <<node, reporting, breaker, lastRun>>

ExecuteEnd(e) ==
    /\ node[e] = "execute" /\ pending[e] = 0
    /\ Goto(e, "evaluate")
    /\ iteration' = [iteration EXCEPT ![e] = @ + 1]
    /\ validated' = [validated EXCEPT ![e] = FALSE]
    /\ UNCHANGED <<turns, heard, planned, revised, flat, pending>>
    /\ UNCHANGED <<reporting, breaker, results, lastRun>>

\* Mutant of Evaluate: an evaluator that cannot be asked is taken to agree.
EvaluateOrAssume(e) ==
    /\ node[e] = "evaluate"
    /\ UNCHANGED breaker
    /\ MoveTo(e, IF IsOpen THEN "report" ELSE "evaluateCall")

(* With an open breaker the evidence cannot be validated: model_error.      *)
Evaluate(e) ==
    /\ node[e] = "evaluate"
    /\ UNCHANGED breaker
    /\ IF IsOpen THEN Fail(e) ELSE MoveTo(e, "evaluateCall")

EvaluateFailed(e) == node[e] = "evaluateCall" /\ RecordFailure /\ Fail(e)

Verdicts == {"sufficient", "partial", "insufficient", "model_error"}

(* The loop guards of the node, on the verdict as parsed (and lowered to    *)
(* "partial" when a region is not covered).                                 *)
Forced(e, verdict) ==
    \/ verdict = "partial" /\ revised[e] >= MaxRevisions
    \/ verdict = "insufficient" /\ planned[e] >= MaxPlans

\* Mutant of Route: without the limit on iterations.
RouteOnVerdict(e, verdict, spent, small) ==
    IF verdict = "sufficient" \/ Forced(e, verdict) \/ small >= 3
    THEN "report"
    ELSE IF verdict = "partial" THEN "revise" ELSE "plan"

(* _route_after_evaluation. *)
Route(e, verdict, spent, small) ==
    IF verdict = "sufficient" \/ Forced(e, verdict) \/ spent >= MaxIterations \/ small >= 3
    THEN "report"
    ELSE IF verdict = "partial" THEN "revise" ELSE "plan"

EvaluateAnswered(e) ==
    /\ node[e] = "evaluateCall"
    /\ RecordSuccess
    /\ \E verdict \in Verdicts, small \in {0, flat[e] + 1} :
         IF verdict = "model_error"
         THEN Fail(e)
         ELSE LET next == Route(e, verdict, iteration[e] + 1, small)
              IN  /\ Goto(e, next)
                  /\ validated' = [validated EXCEPT ![e] = TRUE]
                  /\ IF next = "report"
                     THEN DropState(e)
                     ELSE /\ iteration' = [iteration EXCEPT ![e] = @ + 1]
                          /\ flat' = [flat EXCEPT ![e] = small]
                          /\ UNCHANGED <<turns, heard, planned, revised, pending>>
                  /\ UNCHANGED <<reporting, results, lastRun>>

(* The revision adds tasks, or none when it could not be made.              *)
WriteRevision(e, n) ==
    /\ Goto(e, "execute")
    /\ pending' = [pending EXCEPT ![e] = n]
    /\ revised' = [revised EXCEPT ![e] = @ + 1]
    /\ iteration' = [iteration EXCEPT ![e] = @ + 1]
    /\ UNCHANGED <<turns, heard, planned, flat, validated, reporting, results, lastRun>>

Revise(e) ==
    /\ node[e] = "revise"
    /\ UNCHANGED breaker
    /\ IF IsOpen THEN WriteRevision(e, 0) ELSE MoveTo(e, "reviseCall")

ReviseAnswered(e) ==
    /\ node[e] = "reviseCall" /\ RecordSuccess
    /\ \E n \in 0 .. MaxTasks : WriteRevision(e, n)

ReviseFailed(e) == node[e] = "reviseCall" /\ RecordFailure /\ WriteRevision(e, 0)

-----------------------------------------------------------------------------
(* The report, written a second time with the judge's feedback if it falls   *)
(* short: an analysis that has written one version is rewriting it.          *)

Rewriting(e) == drafts[e] = 1

(* From the end of the verification to get_last_run_diagnostics nothing is   *)
(* awaited: the reply is read from what was just assigned.                   *)
Finish(e, kept) ==
    /\ reply' = [reply EXCEPT ![e] = [kept |-> kept, quality |-> scored', verified |-> verified']]
    /\ ClearTrace(Trace(e))
    /\ Goto(e, "done")
    /\ DropState(e)
    /\ UNCHANGED <<validated, beside>>

\* Mutant of EndCritic: the verification of an earlier analysis stays.
EndCriticStale(e, kept) ==
    \/ UNCHANGED verified /\ Finish(e, kept)
    \/ /\ Goto(e, "verify")
       /\ reply' = [reply EXCEPT ![e].kept = kept]
       /\ UNCHANGED <<graph, results, verified, beside>>

(* _last_action_verification is cleared, and the version kept goes to the    *)
(* verifier if it has action items.                                          *)
EndCritic(e, kept) ==
    /\ verified' = Nobody
    /\ \/ Finish(e, kept)
       \/ /\ Goto(e, "verify")
          /\ reply' = [reply EXCEPT ![e].kept = kept]
          /\ UNCHANGED <<graph, results, beside>>

(* _report_node returns; after the first version _last_geval is cleared, and *)
(* the judge is asked if the settings say so.                                *)
Written(e) ==
    /\ drafts' = [drafts EXCEPT ![e] = @ + 1]
    /\ IF Rewriting(e) \/ Criticised
       THEN /\ Goto(e, IF Rewriting(e) THEN "rescore" ELSE "score")
            /\ turns' = [turns EXCEPT ![e] = 0]
            /\ scored' = IF Rewriting(e) THEN scored ELSE <<Nobody, 0>>
            /\ UNCHANGED <<heard, iteration, planned, revised, flat, pending, validated>>
            /\ UNCHANGED <<reply, results, verified, beside>>
       ELSE scored' = <<Nobody, 0>> /\ EndCritic(e, 1)

(* With an open breaker the report says relevance "unknown".                 *)
Report(e) ==
    /\ node[e] = "report"
    /\ UNCHANGED breaker
    /\ IF IsOpen THEN Written(e) ELSE MoveTo(e, "reportCall")

(* The region check asks for one more answer when the report omits a region. *)
CheckRegions(e) == Written(e) \/ MoveTo(e, "region")

ReportAnswered(e) ==
    /\ node[e] = "reportCall" /\ RecordSuccess
    /\ CheckRegions(e) \/ MoveTo(e, "recover")

(* The report says relevance "unknown" and that its generation failed.       *)
ReportFailed(e) == node[e] = "reportCall" /\ RecordFailure /\ Written(e)

(* A truncated report is continued: the answer is truncated again, or it is  *)
(* complete, or the call failed, which ends the recovery as well.            *)
Recover(e) ==
    /\ node[e] = "recover"
    /\ UNCHANGED breaker
    /\ \/ CheckRegions(e)
       \/ /\ turns[e] + 1 < MaxRecoveries
          /\ turns' = [turns EXCEPT ![e] = @ + 1]
          /\ UNCHANGED <<node, heard, iteration, planned, revised, flat, pending, validated>>
          /\ UNCHANGED <<reporting, results, lastRun>>

Region(e) == node[e] = "region" /\ Written(e) /\ UNCHANGED breaker

-----------------------------------------------------------------------------
(* The critic and the verification of action items.  A judge's call that     *)
(* fails counts as a middling score, so a judgement always comes.            *)

(* The first judgement: good enough, or to be rewritten.                     *)
Score(e) ==
    /\ node[e] = "score"
    /\ scored' = <<e, 1>>
    /\ \/ EndCritic(e, 1)
       \/ Goto(e, "report") /\ UNCHANGED <<graph, reply, results, verified, beside>>
    /\ UNCHANGED <<drafts, breaker>>

(* The second: the new version is kept if it scores higher.                  *)
Rescore(e) ==
    /\ node[e] = "rescore"
    /\ \/ scored' = <<e, 2>> /\ EndCritic(e, 2)
       \/ UNCHANGED scored /\ EndCritic(e, 1)
    /\ UNCHANGED <<drafts, breaker>>

(* verify returns, or raises, and the attribute keeps what it held: nothing, *)
(* or what another analysis has assigned since it was cleared.               *)
Verify(e) ==
    /\ node[e] = "verify"
    /\ verified' \in {e, verified}
    /\ UNCHANGED scored
    /\ Finish(e, reply[e].kept)
    /\ UNCHANGED <<drafts, breaker>>

-----------------------------------------------------------------------------
(* customize_for_subscriber: without the model, the result as it was.        *)

Customize(e) ==
    /\ node[e] = "customize"
    /\ UNCHANGED breaker
    /\ MoveTo(e, "done") \/ (~IsOpen /\ MoveTo(e, "customizeCall"))

CustomizeReply(e) ==
    /\ node[e] = "customizeCall"
    /\ RecordSuccess \/ RecordFailure
    /\ MoveTo(e, "done")

AnalysisStep(e) ==
    \/ PlanTurn(e) \/ PlanEnd(e) \/ PlanAnswered(e) \/ PlanBusy(e) \/ PlanFailed(e)
    \/ PlanTools(e) \/ RunTask(e) \/ ExecuteEnd(e)
    \/ Evaluate(e) \/ EvaluateAnswered(e) \/ EvaluateFailed(e)
    \/ Revise(e) \/ ReviseAnswered(e) \/ ReviseFailed(e)
    \/ Report(e) \/ ReportAnswered(e) \/ ReportFailed(e) \/ Recover(e) \/ Region(e)
    \/ Score(e) \/ Rescore(e) \/ Verify(e)
    \/ Customize(e) \/ CustomizeReply(e)
=============================================================================
