--------------------------- MODULE HostedAnalysis ---------------------------
(***************************************************************************)
(* Requests to the Hosted Agent: the client of src/agent/hosted_client.py, *)
(* which sends a request again after a transient answer or a time-out, and *)
(* the container of src/hosted_agent.py, where an attempt the client gave  *)
(* up runs on next to the one that replaced it, under the same trace.      *)
(***************************************************************************)
EXTENDS AnalyzerGraph

CONSTANTS
    MaxSent,        \* bound: requests sent, in all
    MaxRestarts     \* bound: restarts of the container

ASSUME BoundsAssumption == MaxSent \in Nat /\ MaxRestarts \in Nat

Kinds == {"analyze", "evaluate", "customize"}

VARIABLES
    kind,           \* per caller: what it asks for
    request,        \* per caller: "waiting", "backoff", "answered" or "failed"
    attempt,        \* per caller: requests sent
    restarts

client == <<kind, request, attempt>>
vars   == <<analysisVars, client, restarts>>

TypeOK ==
    /\ AnalysisTypeOK
    /\ kind \in [Callers -> Kinds]
    /\ request \in [Callers -> {"backoff", "waiting", "answered", "failed"}]
    /\ attempt \in [Callers -> 0 .. MaxAttempts]
    /\ restarts \in 0 .. MaxRestarts

Init ==
    /\ AnalysisInit
    /\ kind \in [Callers -> Kinds]
    /\ request = [c \in Callers |-> "backoff"]
    /\ attempt = [c \in Callers |-> 0]
    /\ restarts = 0

Current(c) == <<c, attempt[c]>>

(* A customization is sent once.                                            *)
Limit(c) == IF kind[c] = "customize" THEN 1 ELSE MaxAttempts

Awaited(e) == attempt[Trace(e)] = e[2] /\ request[Trace(e)] = "waiting"

Sent == Cardinality({e \in Executions : node[e] # "off"})

Send(c) ==
    /\ request[c] = "backoff" /\ Sent < MaxSent
    /\ attempt' = [attempt EXCEPT ![c] = @ + 1]
    /\ request' = [request EXCEPT ![c] = "waiting"]
    /\ Goto(<<c, attempt[c] + 1>>, "queued")
    /\ UNCHANGED <<kind, graph, reporting, breaker, results, lastRun, restarts>>

(* A transient status or a network error, whatever became of the request.   *)
Transient(c) ==
    /\ request[c] = "waiting"
    /\ request' = [request EXCEPT ![c] = IF attempt[c] < Limit(c) THEN "backoff" ELSE "failed"]
    /\ UNCHANGED <<kind, attempt, analysisVars, restarts>>

(* Another status, or an answer that is not a response of this contract.    *)
Refused(c) ==
    /\ request[c] = "waiting"
    /\ request' = [request EXCEPT ![c] = "failed"]
    /\ UNCHANGED <<kind, attempt, analysisVars, restarts>>

(* The answer of the attempt the client waits for.  Status "failed" raises  *)
(* HostedAgentError and is not tried again.                                 *)
Answer(c) ==
    /\ request[c] = "waiting" /\ node[Current(c)] \in Ended
    /\ request' = [request EXCEPT ![c] =
                     IF node[Current(c)] = "done" THEN "answered" ELSE "failed"]
    /\ UNCHANGED <<kind, attempt, analysisVars, restarts>>

(* execute_request: an analysis request passes analyze_update a scope it    *)
(* does not take, and ends with the TypeError.                              *)
Begin(e) ==
    /\ node[e] = "queued"
    /\ CASE kind[Trace(e)] = "analyze"   -> Fail(e)
         [] kind[Trace(e)] = "evaluate"  -> Enter(e)
         [] kind[Trace(e)] = "customize" -> MoveTo(e, "customize")
    /\ UNCHANGED <<breaker, client, restarts>>

(* handle_create: a request cancelled before it started is not run.         *)
Cancelled(e) ==
    /\ node[e] = "queued" /\ ~Awaited(e)
    /\ Fail(e)
    /\ UNCHANGED <<breaker, client, restarts>>

Work(e) == AnalysisStep(e) /\ UNCHANGED <<client, restarts>>

CoolBreaker == Cool /\ UNCHANGED <<client, restarts>>

(* The container is replaced: analyses in it are lost, and what they shared *)
(* starts anew.                                                             *)
Restart ==
    LET lost == {e \in Executions : node[e] \in {"queued"} \cup Running}
        At(f, v) == [e \in Executions |-> IF e \in lost THEN v ELSE f[e]]
    IN  /\ restarts < MaxRestarts /\ lost # {}
        /\ restarts' = restarts + 1
        /\ node' = At(node, "failed")
        /\ turns' = At(turns, 0) /\ heard' = At(heard, FALSE)
        /\ iteration' = At(iteration, 0) /\ planned' = At(planned, 0)
        /\ revised' = At(revised, 0) /\ flat' = At(flat, 0)
        /\ pending' = At(pending, 0) /\ validated' = At(validated, FALSE)
        /\ drafts' = At(drafts, 0)
        /\ failures' = 0 /\ cooled' = FALSE /\ store' = <<>>
        /\ scored' = <<Nobody, 0>> /\ verified' = Nobody
        /\ UNCHANGED <<puts, evicted, reply, beside, client>>

Done ==
    /\ \A c \in Callers :
         request[c] \in {"answered", "failed"} \/ (request[c] = "backoff" /\ Sent = MaxSent)
    /\ \A e \in Executions : node[e] \in {"off"} \cup Ended
    /\ UNCHANGED vars

Next ==
    \/ \E c \in Callers : Send(c) \/ Transient(c) \/ Refused(c) \/ Answer(c)
    \/ \E e \in Executions : Begin(e) \/ Cancelled(e) \/ Work(e)
    \/ CoolBreaker \/ Restart \/ Done

Spec == Init /\ [][Next]_vars

-----------------------------------------------------------------------------

(* A report is returned only if the evaluator answered on the results of    *)
(* the last execution, whatever failed, was skipped or rewritten on the     *)
(* way; and the version returned is one that was written.                   *)
ReportRestsOnEvidence ==
    \A e \in Executions : node[e] = "done" /\ kind[Trace(e)] = "evaluate" =>
        validated[e] /\ reply[e].kept \in 1 .. drafts[e]

Beside(e) == {f \in Executions : {e, f} \in beside}

(* The diagnostics returned with a report are never left over from an       *)
(* analysis that had ended before this one began: they are about this one   *)
(* or one in progress beside it, through the attributes they share.  The    *)
(* judge's summary, if it is of this analysis, is of the version returned;  *)
(* and an analysis nobody was beside returns its own judgement, or none     *)
(* where the settings ask for none.                                         *)
DiagnosticsAreNotLeftOver ==
    \A e \in Executions : node[e] = "done" /\ kind[Trace(e)] = "evaluate" =>
        /\ {reply[e].quality[1], reply[e].verified} \subseteq {e, Nobody} \cup Beside(e)
        /\ reply[e].quality[1] = e => reply[e].quality[2] = reply[e].kept
        /\ Beside(e) = {} => (reply[e].quality[1] = e <=> Criticised)

Stored == {store[i] : i \in DOMAIN store}

(* A result an analysis in progress was told is retained is there, unless   *)
(* it made room for newer ones or an attempt of the same request ended and  *)
(* swept the trace; no result outlives the analysis that returned; and what *)
(* failed analyses leave behind stays within the room there is.             *)
ResultsRetained ==
    /\ \A e \in Executions : node[e] \in Running =>
         \A n \in 1 .. puts[e] :
            \/ <<e, n>> \in Stored \cup evicted
            \/ \E f \in Executions : Twins(e, f) /\ node[f] = "done"
    /\ \A ref \in Stored : node[ref[1]] # "done"
    /\ Len(store) <= Capacity \/ Len(store) <= 1

(* How far an analysis is from leaving the node group it is in.             *)
Rank(e) ==
    LET left  == MaxPlanCalls - turns[e]
        again == MaxRecoveries + 5
        draft == IF Rewriting(e) THEN 2 ELSE again + 2
    IN  CASE node[e] = "plan"          -> 3 * left + 2
          [] node[e] = "planCall"      -> 3 * left + 1
          [] node[e] = "planTools"     -> 3 * left
          [] node[e] = "execute"       -> pending[e]
          [] node[e] = "report"        -> draft + MaxRecoveries + 4
          [] node[e] = "reportCall"    -> draft + MaxRecoveries + 3
          [] node[e] = "recover"       -> draft + MaxRecoveries - turns[e] + 2
          [] node[e] = "region"        -> draft + 1
          [] node[e] = "score"         -> again + 2
          [] node[e] \in {"evaluate", "revise", "customize", "rescore"} -> 2
          [] OTHER                     -> 1

(* Every analysis is bounded: each of its steps ends it, takes it to a next *)
(* iteration (there are at most MaxIterations + 1), or within one brings it *)
(* nearer to the next node, whatever the model answers and however often.   *)
AnalysesAreBounded ==
    [][\A e \in Executions : node[e] \in Running /\ <<node[e], turns[e], pending[e]>>' # <<node[e], turns[e], pending[e]>> =>
          \/ node'[e] \in Ended
          \/ node[e] \in Loop /\ node'[e] = "report"
          \/ iteration'[e] > iteration[e]
          \/ iteration'[e] = iteration[e] /\ Rank(e)' < Rank(e)]_vars
=============================================================================
