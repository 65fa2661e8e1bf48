------------------------- MODULE HostedAnalysisProofs -------------------------
(***************************************************************************)
(* Proofs about HostedAnalysis, for any number of requests, attempts and   *)
(* limits: an analysis is bounded, returns no report on evidence nobody    *)
(* evaluated and no diagnostics left over from an analysis before it, and  *)
(* keeps the results it put in the store until they are evicted or a twin  *)
(* has ended.                                                              *)
(***************************************************************************)
EXTENDS HostedAnalysis, FiniteSetTheorems, TLAPS

(* The types of what an analysis is about, without the bounds that follow  *)
(* from where it is; those of what is shared come with Retained and Shared *)
(* below.                                                                  *)
Typed ==
    /\ node \in [Executions -> {"off", "queued"} \cup Running \cup Ended]
    /\ turns \in [Executions -> Nat]
    /\ heard \in [Executions -> BOOLEAN]
    /\ iteration \in [Executions -> Nat]
    /\ planned \in [Executions -> Nat] /\ revised \in [Executions -> Nat]
    /\ flat \in [Executions -> Nat]
    /\ pending \in [Executions -> 0 .. MaxTasks]
    /\ validated \in [Executions -> BOOLEAN]
    /\ drafts \in [Executions -> Nat]
    /\ reply \in [Executions ->
         [kept : 0 .. 2, quality : (Executions \cup {Nobody}) \X (0 .. 2),
          verified : Executions \cup {Nobody}]]
    /\ scored \in (Executions \cup {Nobody}) \X (0 .. 2)
    /\ verified \in Executions \cup {Nobody}
    /\ beside \subseteq Pairs

ClientTyped ==
    /\ kind \in [Callers -> Kinds]
    /\ request \in [Callers -> {"backoff", "waiting", "answered", "failed"}]
    /\ attempt \in [Callers -> 0 .. MaxAttempts]
    /\ \A c \in Callers : request[c] = "backoff" => attempt[c] < MaxAttempts
    /\ \A e \in Executions : node[e] = "off" \/ e[2] <= attempt[Trace(e)]

(* How many turns and iterations an analysis may have had where it is.     *)
BoundedAt(e) ==
    /\ iteration[e] <= MaxIterations + 1
    /\ node[e] \in {"off", "queued", "plan", "planCall", "planTools", "revise", "reviseCall"}
         => iteration[e] < MaxIterations
    /\ node[e] = "execute" => iteration[e] <= MaxIterations
    /\ node[e] = "plan" => turns[e] <= MaxPlanCalls
    /\ node[e] \in {"planCall", "planTools"} => turns[e] < MaxPlanCalls
    /\ node[e] = "recover" => turns[e] < MaxRecoveries
    /\ node[e] \notin {"plan", "planCall", "planTools", "recover", "region", "verify"} => turns[e] = 0

(* Where an analysis is of a request for an evaluation, what has been      *)
(* written of its report, and whether the judge is asked.                  *)
ReviewedAt(e) ==
    /\ node[e] \in Analysing => kind[Trace(e)] = "evaluate"
    /\ node[e] \in {"customize", "customizeCall"} => kind[Trace(e)] = "customize"
    /\ node[e] \in {"off", "queued", "failed", "customize", "customizeCall"} \cup Loop
         => drafts[e] = 0
    /\ drafts[e] <= 2
    /\ node[e] \in Reporting \cup Critic => validated[e]
    /\ node[e] \in Reporting => drafts[e] = 0 \/ (drafts[e] = 1 /\ Criticised)
    /\ node[e] = "score" => drafts[e] = 1 /\ Criticised
    /\ node[e] = "rescore" => drafts[e] = 2 /\ Criticised
    /\ node[e] = "verify" => reply[e].kept \in 1 .. drafts[e]
    /\ node[e] = "done" /\ kind[Trace(e)] = "evaluate" =>
         validated[e] /\ reply[e].kept \in 1 .. drafts[e]

(* What the shared attributes hold while an analysis is between clearing   *)
(* them and returning: something of its own, of one beside it, or nothing. *)
DiagnosedAt(e) ==
    /\ node[e] \in Critic \/ (node[e] \in Reporting /\ drafts[e] = 1) =>
         scored[1] \in {e, Nobody} \cup Beside(e)
    /\ node[e] = "rescore" \/ (node[e] \in Reporting /\ drafts[e] = 1) =>
         /\ scored[1] = e => scored[2] = 1
         /\ Beside(e) = {} => scored[1] = e
    /\ node[e] = "verify" =>
         /\ verified \in {e, Nobody} \cup Beside(e)
         /\ scored[1] = e => scored[2] = reply[e].kept
         /\ Beside(e) = {} => (scored[1] = e <=> Criticised)
    /\ node[e] = "done" /\ kind[Trace(e)] = "evaluate" =>
         /\ {reply[e].quality[1], reply[e].verified} \subseteq {e, Nobody} \cup Beside(e)
         /\ reply[e].quality[1] = e => reply[e].quality[2] = reply[e].kept
         /\ Beside(e) = {} => (reply[e].quality[1] = e <=> Criticised)

Placed(e) == BoundedAt(e) /\ ReviewedAt(e) /\ DiagnosedAt(e)

(* Analyses in progress at the same time are known to have been.           *)
Together ==
    \A e, f \in Executions : e # f /\ node[e] \in Analysing /\ node[f] \in Analysing => {e, f} \in beside

(* What a step of one analysis leaves alone of the others.                 *)
Others(e) ==
    /\ \A f \in Executions \ {e} :
         /\ node'[f] = node[f] /\ turns'[f] = turns[f] /\ iteration'[f] = iteration[f]
         /\ validated'[f] = validated[f] /\ drafts'[f] = drafts[f]
         /\ reply'[f] = reply[f] /\ pending'[f] = pending[f]
    /\ beside \subseteq beside'
    /\ \/ UNCHANGED <<scored, verified>>
       \/ /\ node[e] \in Reporting \cup Critic
          /\ scored' = scored \/ scored'[1] \in {e, Nobody}
          /\ verified' \in {verified, e, Nobody}

IInv == Typed /\ ClientTyped /\ Together /\ \A e \in Executions : Placed(e)

-----------------------------------------------------------------------------

LEMMA InitIInv == Init => IInv
<1> SUFFICES ASSUME Init PROVE IInv
  OBVIOUS
<1> USE CountsAssumption, NobodyAssumption DEF Init, AnalysisInit, FreshProcess
<1>1. Typed
  <2>1. NoReply \in [kept : 0 .. 2, quality : (Executions \cup {Nobody}) \X (0 .. 2),
                     verified : Executions \cup {Nobody}]
    BY DEF NoReply
  <2> QED BY <2>1 DEF Typed
<1>2. ClientTyped
  BY DEF ClientTyped
<1>3. ASSUME NEW e \in Executions PROVE Placed(e)
  BY DEF Placed, BoundedAt, ReviewedAt, DiagnosedAt, Analysing, Loop, Reporting, Critic
<1>4. Together
  BY DEF Together, Analysing, Loop, Reporting, Critic
<1> QED BY <1>1, <1>2, <1>3, <1>4 DEF IInv

LEMMA OthersStay ==
  ASSUME IInv, NEW e \in Executions, Others(e), Typed', Placed(e)', node[e] # "off", UNCHANGED client,
         \/ node'[e] \in Analysing => node[e] \in Analysing
         \/ \A f \in Executions \ {e} : node[f] \in Analysing => {e, f} \in beside'
  PROVE  IInv'
<1>1. ClientTyped'
  <2>1. \A f \in Executions : node'[f] = "off" \/ f[2] <= attempt[Trace(f)]
    BY DEF IInv, ClientTyped, Others
  <2> QED BY <2>1 DEF IInv, ClientTyped, client, Trace
<1>2. Together'
  <2> SUFFICES ASSUME NEW f \in Executions, NEW g \in Executions, f # g,
                      node'[f] \in Analysing, node'[g] \in Analysing
               PROVE  {f, g} \in beside'
    BY DEF Together
  <2>1. CASE f # e /\ g # e
    BY <2>1 DEF Others, IInv, Together
  <2>2. ASSUME NEW h \in Executions, h # e, node'[h] \in Analysing, node'[e] \in Analysing
        PROVE  {e, h} \in beside'
    <3>1. node[h] \in Analysing
      BY <2>2 DEF Others
    <3> QED BY <2>2, <3>1 DEF Others, IInv, Together
  <2>3. {f, g} = {g, f}
    OBVIOUS
  <2> QED BY <2>1, <2>2, <2>3
<1>3. ASSUME NEW f \in Executions, f # e PROVE Placed(f)'
  <2>1. /\ Placed(f)
        /\ node'[f] = node[f] /\ turns'[f] = turns[f] /\ iteration'[f] = iteration[f]
        /\ validated'[f] = validated[f] /\ drafts'[f] = drafts[f]
        /\ reply'[f] = reply[f] /\ kind' = kind
    BY <1>3 DEF IInv, Others, client
  <2>2. BoundedAt(f)'
    BY <2>1 DEF Placed, BoundedAt
  <2>3. ReviewedAt(f)'
    BY <2>1 DEF Placed, ReviewedAt, Trace
  <2>4. Beside(f) \subseteq Beside(f)'
    BY DEF Beside, Others
  <2>5. DiagnosedAt(f)'
    <3>1. CASE UNCHANGED <<scored, verified>>
      BY <2>1, <2>4, <3>1 DEF Placed, DiagnosedAt, Trace
    <3>2. CASE node[f] \notin Reporting \cup Critic
      BY <2>1, <2>4, <3>2 DEF Placed, DiagnosedAt, Critic, Trace
    <3>3. CASE node[f] \in Reporting \cup Critic /\ ~UNCHANGED <<scored, verified>>
      <4>1. /\ node[e] \in Reporting \cup Critic
            /\ scored' = scored \/ scored'[1] \in {e, Nobody}
            /\ verified' \in {verified, e, Nobody}
        BY <3>3 DEF Others
      <4>2. e \in Beside(f)'
        <5>1. {f, e} \in beside
          BY <1>3, <3>3, <4>1 DEF IInv, Together, Analysing
        <5> QED BY <5>1 DEF Beside, Others
      <4>3. f # Nobody
        BY NobodyAssumption
      <4> QED BY <1>3, <2>1, <2>4, <3>3, <4>1, <4>2, <4>3
              DEF Placed, DiagnosedAt, Reporting, Critic
    <3> QED BY <3>1, <3>2, <3>3
  <2> QED BY <2>2, <2>3, <2>5 DEF Placed
<1> QED BY <1>1, <1>2, <1>3 DEF IInv

-----------------------------------------------------------------------------

LEMMA MoveToTyped ==
  ASSUME IInv, NEW e \in Executions, NEW n \in Running \cup Ended, MoveTo(e, n)
  PROVE  /\ Typed' /\ Others(e) /\ node'[e] = n
         /\ UNCHANGED <<graph, reporting, results, lastRun>>
<1>1. /\ node' = [node EXCEPT ![e] = n] /\ Typed
      /\ UNCHANGED <<graph, reporting, results, lastRun>>
  BY DEF IInv, MoveTo, Goto
<1>2. Typed'
  BY <1>1 DEF Typed, graph, reporting, lastRun
<1>3. Others(e)
  BY <1>1 DEF Typed, Others, graph, reporting, lastRun
<1> QED BY <1>1, <1>2, <1>3 DEF Typed

LEMMA FailKeeps ==
  ASSUME IInv, NEW e \in Executions, Fail(e)
  PROVE  Typed' /\ Others(e) /\ Placed(e)' /\ node'[e] = "failed"
<1>1. /\ node' = [node EXCEPT ![e] = "failed"] /\ Typed /\ Placed(e)
      /\ turns' = [turns EXCEPT ![e] = 0] /\ heard' = [heard EXCEPT ![e] = FALSE]
      /\ iteration' = [iteration EXCEPT ![e] = 0] /\ planned' = [planned EXCEPT ![e] = 0]
      /\ revised' = [revised EXCEPT ![e] = 0] /\ flat' = [flat EXCEPT ![e] = 0]
      /\ pending' = [pending EXCEPT ![e] = 0] /\ validated' = [validated EXCEPT ![e] = FALSE]
      /\ drafts' = [drafts EXCEPT ![e] = 0]
      /\ UNCHANGED <<reply, scored, verified, beside>>
  BY DEF IInv, Fail, Goto, DropState, lastRun
<1>2. Typed'
  BY <1>1, CountsAssumption DEF Typed, Ended
<1>3. Others(e)
  BY <1>1 DEF Typed, Others
<1>4. Placed(e)'
  <2>1. /\ node'[e] = "failed" /\ turns'[e] = 0 /\ iteration'[e] = 0
        /\ drafts'[e] = 0
    BY <1>1 DEF Typed
  <2> QED BY <2>1, CountsAssumption
          DEF Placed, BoundedAt, ReviewedAt, DiagnosedAt, Analysing, Loop, Reporting, Critic
<1> QED BY <1>1, <1>2, <1>3, <1>4 DEF Typed

LEMMA PlanTurnKeeps ==
  ASSUME IInv, NEW e \in Executions, kind' = kind, PlanTurn(e)
  PROVE  Typed' /\ Others(e) /\ Placed(e)' /\ node[e] \notin {"off", "queued", "done", "failed"}
<1>1. "planCall" \in Running \cup Ended
  BY DEF Running, Analysing, Loop
<1>2. /\ Typed' /\ Others(e) /\ node'[e] = "planCall"
      /\ UNCHANGED <<graph, reporting, results, lastRun>>
  BY <1>1, MoveToTyped DEF PlanTurn
<1>3. Placed(e)'
  BY <1>2, CountsAssumption DEF PlanTurn, IInv, Placed, BoundedAt, ReviewedAt, DiagnosedAt, Typed,
     graph, reporting, lastRun, Analysing, Loop, Reporting, Critic, Trace
<1> QED BY <1>2, <1>3 DEF PlanTurn

LEMMA WritePlanKeeps ==
  ASSUME IInv, NEW e \in Executions, kind' = kind, WritePlan(e), node[e] \in {"plan", "planCall"}
  PROVE  Typed' /\ Others(e) /\ Placed(e)'
<1>1. PICK n \in 0 .. MaxTasks : pending' = [pending EXCEPT ![e] = n]
  BY DEF WritePlan
<1>2. /\ node' = [node EXCEPT ![e] = "execute"] /\ Typed /\ Placed(e)
      /\ turns' = [turns EXCEPT ![e] = 0] /\ heard' = [heard EXCEPT ![e] = FALSE]
      /\ iteration' = [iteration EXCEPT ![e] = @ + 1] /\ planned' = [planned EXCEPT ![e] = @ + 1]
      /\ UNCHANGED <<revised, flat, validated, drafts, reply, scored, verified, beside>>
  BY DEF IInv, WritePlan, Goto, reporting, lastRun
<1>3. Typed'
  BY <1>1, <1>2 DEF Typed, Running, Analysing, Loop
<1>4. Others(e)
  BY <1>1, <1>2 DEF Typed, Others
<1>5. Placed(e)'
  <2>1. /\ node'[e] = "execute" /\ turns'[e] = 0 /\ iteration'[e] = iteration[e] + 1
        /\ iteration[e] \in Nat
    BY <1>2 DEF Typed
  <2> QED BY <1>2, <2>1, CountsAssumption DEF Placed, BoundedAt, ReviewedAt, DiagnosedAt, Analysing, Loop, Reporting, Critic, Trace
<1> QED BY <1>3, <1>4, <1>5

(* Within the loop nothing has been written yet.                           *)
LEMMA StaysInLoop ==
  ASSUME IInv, NEW e \in Executions, node[e] \in Loop, node'[e] \in Loop,
         drafts'[e] = drafts[e], kind' = kind, BoundedAt(e)'
  PROVE  Placed(e)'
<1>1. Placed(e)
  BY DEF IInv
<1> QED BY <1>1 DEF Placed, ReviewedAt, DiagnosedAt, Analysing, Loop, Reporting, Critic, Trace

LEMMA PlanEndKeeps ==
  ASSUME IInv, NEW e \in Executions, kind' = kind, PlanEnd(e)
  PROVE  Typed' /\ Others(e) /\ Placed(e)' /\ node[e] \notin {"off", "queued", "done", "failed"}
BY WritePlanKeeps, FailKeeps DEF PlanEnd

LEMMA PlanAnsweredKeeps ==
  ASSUME IInv, NEW e \in Executions, kind' = kind, PlanAnswered(e)
  PROVE  Typed' /\ Others(e) /\ Placed(e)' /\ node[e] \notin {"off", "queued", "done", "failed"}
<1>1. CASE WritePlan(e)
  BY <1>1, WritePlanKeeps DEF PlanAnswered
<1>2. CASE ~WritePlan(e)
  <2>1. /\ node[e] = "planCall" /\ node' = [node EXCEPT ![e] = "planTools"] /\ Typed /\ Placed(e)
        /\ heard' = [heard EXCEPT ![e] = TRUE]
        /\ UNCHANGED <<turns, iteration, planned, revised, flat, pending, validated>>
        /\ UNCHANGED <<drafts, reply, scored, verified, beside>>
    BY <1>2 DEF IInv, PlanAnswered, Goto, reporting, lastRun
  <2>2. Typed'
    BY <2>1 DEF Typed, Running, Analysing, Loop
  <2>3. Others(e)
    BY <2>1 DEF Typed, Others
  <2>4. node'[e] = "planTools"
    BY <2>1 DEF Typed
  <2>5. BoundedAt(e)'
    BY <2>1, <2>4 DEF Placed, BoundedAt
  <2>6. Placed(e)'
    BY <2>1, <2>4, <2>5, StaysInLoop DEF Loop
  <2> QED BY <2>1, <2>2, <2>3, <2>6
<1> QED BY <1>1, <1>2

(* A turn of the planning node is over.                                    *)
LEMMA TurnKeeps ==
  ASSUME IInv, NEW e \in Executions, kind' = kind, node[e] \in {"planCall", "planTools"},
         Goto(e, "plan"), turns' = [turns EXCEPT ![e] = @ + 1],
         UNCHANGED <<heard, iteration, planned, revised, flat, pending, validated>>,
         UNCHANGED <<reporting, lastRun>>
  PROVE  Typed' /\ Others(e) /\ Placed(e)'
<1>1. /\ node' = [node EXCEPT ![e] = "plan"] /\ Typed /\ Placed(e)
      /\ UNCHANGED <<drafts, reply, scored, verified, beside>>
  BY DEF IInv, Goto, reporting, lastRun
<1>2. Typed'
  BY <1>1 DEF Typed, Running, Analysing, Loop
<1>3. Others(e)
  BY <1>1 DEF Typed, Others
<1>4. node'[e] = "plan" /\ turns'[e] = turns[e] + 1 /\ turns[e] \in Nat
  BY <1>1 DEF Typed
<1>5. BoundedAt(e)'
  BY <1>1, <1>4, CountsAssumption DEF Placed, BoundedAt
<1> QED BY <1>1, <1>2, <1>3, <1>4, <1>5, StaysInLoop DEF Loop

LEMMA PlanBusyKeeps ==
  ASSUME IInv, NEW e \in Executions, kind' = kind, PlanBusy(e)
  PROVE  Typed' /\ Others(e) /\ Placed(e)' /\ node[e] \notin {"off", "queued", "done", "failed"}
BY TurnKeeps DEF PlanBusy

LEMMA PlanToolsKeeps ==
  ASSUME IInv, NEW e \in Executions, kind' = kind, PlanTools(e)
  PROVE  Typed' /\ Others(e) /\ Placed(e)' /\ node[e] \notin {"off", "queued", "done", "failed"}
BY TurnKeeps DEF PlanTools

LEMMA RunTaskKeeps ==
  ASSUME IInv, NEW e \in Executions, kind' = kind, RunTask(e)
  PROVE  Typed' /\ Others(e) /\ Placed(e)' /\ node[e] \notin {"off", "queued", "done", "failed"}
<1>1. /\ node[e] = "execute" /\ pending[e] > 0 /\ Typed /\ Placed(e)
      /\ pending' = [pending EXCEPT ![e] = @ - 1]
      /\ UNCHANGED <<node, turns, heard, iteration, planned, revised, flat, validated>>
      /\ UNCHANGED <<drafts, reply, scored, verified, beside>>
  BY DEF IInv, RunTask, reporting, lastRun
<1>2. Typed'
  BY <1>1, CountsAssumption DEF Typed
<1>3. Others(e)
  BY <1>1 DEF Typed, Others
<1>4. Placed(e)'
  BY <1>1 DEF Placed, BoundedAt, ReviewedAt, DiagnosedAt, Analysing, Loop, Reporting, Critic, Trace
<1> QED BY <1>1, <1>2, <1>3, <1>4

LEMMA ExecuteEndKeeps ==
  ASSUME IInv, NEW e \in Executions, kind' = kind, ExecuteEnd(e)
  PROVE  Typed' /\ Others(e) /\ Placed(e)' /\ node[e] \notin {"off", "queued", "done", "failed"}
<1>1. /\ node[e] = "execute" /\ node' = [node EXCEPT ![e] = "evaluate"] /\ Typed /\ Placed(e)
      /\ iteration' = [iteration EXCEPT ![e] = @ + 1]
      /\ validated' = [validated EXCEPT ![e] = FALSE]
      /\ UNCHANGED <<turns, heard, planned, revised, flat, pending>>
      /\ UNCHANGED <<drafts, reply, scored, verified, beside>>
  BY DEF IInv, ExecuteEnd, Goto, reporting, lastRun
<1>2. Typed'
  BY <1>1 DEF Typed, Running, Analysing, Loop
<1>3. Others(e)
  BY <1>1 DEF Typed, Others
<1>4. node'[e] = "evaluate" /\ iteration'[e] = iteration[e] + 1 /\ iteration[e] \in Nat
  BY <1>1 DEF Typed
<1>5. BoundedAt(e)'
  BY <1>1, <1>4, CountsAssumption DEF Placed, BoundedAt
<1> QED BY <1>1, <1>2, <1>3, <1>4, <1>5, StaysInLoop DEF Loop

LEMMA EvaluateKeeps ==
  ASSUME IInv, NEW e \in Executions, kind' = kind, Evaluate(e)
  PROVE  Typed' /\ Others(e) /\ Placed(e)' /\ node[e] \notin {"off", "queued", "done", "failed"}
<1>1. CASE Fail(e)
  BY <1>1, FailKeeps DEF Evaluate
<1>2. CASE ~Fail(e)
  <2>1. MoveTo(e, "evaluateCall") /\ node[e] = "evaluate"
    BY <1>2 DEF Evaluate
  <2>2. "evaluateCall" \in Running \cup Ended
    BY DEF Running, Analysing, Loop
  <2>3. /\ Typed' /\ Others(e) /\ node'[e] = "evaluateCall"
        /\ UNCHANGED <<turns, iteration, drafts>>
    BY <2>1, <2>2, MoveToTyped DEF graph, reporting
  <2>4. BoundedAt(e)'
    BY <2>1, <2>3 DEF IInv, Placed, BoundedAt
  <2> QED BY <2>1, <2>3, <2>4, StaysInLoop DEF Loop
<1> QED BY <1>1, <1>2

(* The three ways Route leads.                                             *)
LEMMA RouteLeads ==
  ASSUME IInv, NEW e \in Executions, NEW verdict \in Verdicts, NEW small, verdict # "model_error"
  PROVE  /\ Route(e, verdict, iteration[e] + 1, small) \in {"report", "revise", "plan"}
         /\ Route(e, verdict, iteration[e] + 1, small) # "report" => iteration[e] + 1 < MaxIterations
BY CountsAssumption DEF IInv, Typed, Route, Verdicts

LEMMA EvaluateAnsweredKeeps ==
  ASSUME IInv, NEW e \in Executions, kind' = kind, EvaluateAnswered(e)
  PROVE  Typed' /\ Others(e) /\ Placed(e)' /\ node[e] \notin {"off", "queued", "done", "failed"}
<1>0. node[e] = "evaluateCall" /\ Typed /\ Placed(e)
  BY DEF EvaluateAnswered, IInv
<1>1. CASE Fail(e)
  BY <1>0, <1>1, FailKeeps
<1>2. CASE ~Fail(e)
  <2>1. PICK verdict \in Verdicts, small \in {0, flat[e] + 1} :
          LET next == Route(e, verdict, iteration[e] + 1, small)
          IN  /\ verdict # "model_error"
              /\ Goto(e, next)
              /\ validated' = [validated EXCEPT ![e] = TRUE]
              /\ IF next = "report"
                 THEN DropState(e)
                 ELSE /\ iteration' = [iteration EXCEPT ![e] = @ + 1]
                      /\ flat' = [flat EXCEPT ![e] = small]
                      /\ UNCHANGED <<turns, heard, planned, revised, pending>>
              /\ UNCHANGED <<reporting, results, lastRun>>
    BY <1>2 DEF EvaluateAnswered
  <2> DEFINE next == Route(e, verdict, iteration[e] + 1, small)
  <2>2. next \in {"report", "revise", "plan"} /\ (next # "report" => iteration[e] + 1 < MaxIterations)
    BY <2>1, RouteLeads
  <2> HIDE DEF next
  <2>3. /\ node' = [node EXCEPT ![e] = next] /\ validated' = [validated EXCEPT ![e] = TRUE]
        /\ UNCHANGED <<drafts, reply, scored, verified, beside>>
    BY <2>1 DEF next, Goto, reporting, lastRun
  <2>4. small \in Nat
    BY <1>0 DEF Typed
  <2>5. CASE next = "report"
    <3>1. /\ turns' = [turns EXCEPT ![e] = 0] /\ heard' = [heard EXCEPT ![e] = FALSE]
          /\ iteration' = [iteration EXCEPT ![e] = 0] /\ planned' = [planned EXCEPT ![e] = 0]
          /\ revised' = [revised EXCEPT ![e] = 0] /\ flat' = [flat EXCEPT ![e] = 0]
          /\ pending' = [pending EXCEPT ![e] = 0]
      BY <2>1, <2>5 DEF next, DropState
    <3>2. Typed'
      BY <1>0, <2>3, <2>5, <3>1, CountsAssumption DEF Typed, Running, Analysing, Reporting
    <3>3. Others(e)
      BY <1>0, <2>3, <3>1 DEF Typed, Others
    <3>4. node'[e] = "report" /\ turns'[e] = 0 /\ iteration'[e] = 0 /\ validated'[e]
      BY <1>0, <2>3, <2>5, <3>1 DEF Typed
    <3>5. Placed(e)'
      BY <1>0, <2>3, <3>4, CountsAssumption
         DEF Placed, BoundedAt, ReviewedAt, DiagnosedAt, Analysing, Loop, Reporting, Critic, Trace
    <3> QED BY <1>0, <3>2, <3>3, <3>5
  <2>6. CASE next # "report"
    <3>1. /\ iteration' = [iteration EXCEPT ![e] = @ + 1] /\ flat' = [flat EXCEPT ![e] = small]
          /\ UNCHANGED <<turns, heard, planned, revised, pending>>
      BY <2>1, <2>6 DEF next
    <3>2. Typed'
      BY <1>0, <2>2, <2>3, <2>4, <2>6, <3>1 DEF Typed, Running, Analysing, Loop
    <3>3. Others(e)
      BY <1>0, <2>3, <3>1 DEF Typed, Others
    <3>4. node'[e] \in {"revise", "plan"} /\ turns'[e] = turns[e] /\ iteration'[e] = iteration[e] + 1
      BY <1>0, <2>2, <2>3, <2>6, <3>1 DEF Typed
    <3>5. BoundedAt(e)'
      BY <1>0, <2>2, <2>6, <3>4, CountsAssumption DEF Typed, Placed, BoundedAt
    <3> QED BY <1>0, <2>3, <3>2, <3>3, <3>4, <3>5, StaysInLoop DEF Loop
  <2> QED BY <2>5, <2>6
<1> QED BY <1>1, <1>2

LEMMA WriteRevisionKeeps ==
  ASSUME IInv, NEW e \in Executions, kind' = kind, NEW n \in 0 .. MaxTasks,
         node[e] \in {"revise", "reviseCall"}, WriteRevision(e, n)
  PROVE  Typed' /\ Others(e) /\ Placed(e)'
<1>1. /\ node' = [node EXCEPT ![e] = "execute"] /\ Typed /\ Placed(e)
      /\ pending' = [pending EXCEPT ![e] = n]
      /\ revised' = [revised EXCEPT ![e] = @ + 1] /\ iteration' = [iteration EXCEPT ![e] = @ + 1]
      /\ UNCHANGED <<turns, heard, planned, flat, validated>>
      /\ UNCHANGED <<drafts, reply, scored, verified, beside>>
  BY DEF IInv, WriteRevision, Goto, reporting, lastRun
<1>2. Typed'
  BY <1>1 DEF Typed, Running, Analysing, Loop
<1>3. Others(e)
  BY <1>1 DEF Typed, Others
<1>4. node'[e] = "execute" /\ iteration'[e] = iteration[e] + 1 /\ iteration[e] \in Nat
  BY <1>1 DEF Typed
<1>5. BoundedAt(e)'
  BY <1>1, <1>4, CountsAssumption DEF Placed, BoundedAt
<1> QED BY <1>1, <1>2, <1>3, <1>4, <1>5, StaysInLoop DEF Loop

LEMMA ReviseKeeps ==
  ASSUME IInv, NEW e \in Executions, kind' = kind,
         Revise(e) \/ ReviseAnswered(e) \/ ReviseFailed(e)
  PROVE  Typed' /\ Others(e) /\ Placed(e)' /\ node[e] \notin {"off", "queued", "done", "failed"}
<1>1. 0 \in 0 .. MaxTasks
  BY CountsAssumption
<1>2. CASE \E n \in 0 .. MaxTasks : WriteRevision(e, n)
  BY <1>2, WriteRevisionKeeps DEF Revise, ReviseAnswered, ReviseFailed
<1>3. CASE ~\E n \in 0 .. MaxTasks : WriteRevision(e, n)
  <2>1. MoveTo(e, "reviseCall") /\ node[e] = "revise"
    BY <1>1, <1>3 DEF Revise, ReviseAnswered, ReviseFailed
  <2>2. "reviseCall" \in Running \cup Ended
    BY DEF Running, Analysing, Loop
  <2>3. /\ Typed' /\ Others(e) /\ node'[e] = "reviseCall"
        /\ UNCHANGED <<turns, iteration, drafts>>
    BY <2>1, <2>2, MoveToTyped DEF graph, reporting
  <2>4. BoundedAt(e)'
    BY <2>1, <2>3 DEF IInv, Placed, BoundedAt
  <2> QED BY <2>1, <2>3, <2>4, StaysInLoop DEF Loop
<1> QED BY <1>2, <1>3

(* A report in the making that moves on to another place of _report_node.  *)
LEMMA StaysReporting ==
  ASSUME IInv, NEW e \in Executions, kind' = kind, NEW n \in {"reportCall", "region", "recover"},
         node[e] \in Reporting, MoveTo(e, n), n = "reportCall" => node[e] = "report",
         n = "recover" => node[e] = "reportCall"
  PROVE  Typed' /\ Others(e) /\ Placed(e)'
<1>1. n \in Running \cup Ended
  BY DEF Running, Analysing, Reporting
<1>2. /\ Typed' /\ Others(e) /\ node'[e] = n /\ Placed(e)
      /\ UNCHANGED <<turns, iteration, validated, drafts, scored, beside>>
  BY <1>1, MoveToTyped DEF IInv, graph, reporting, lastRun
<1>3. BoundedAt(e)'
  BY <1>2, CountsAssumption DEF Placed, BoundedAt, Reporting
<1>4. ReviewedAt(e)'
  BY <1>2 DEF Placed, ReviewedAt, Analysing, Loop, Reporting, Critic, Trace
<1>5. DiagnosedAt(e)'
  BY <1>2 DEF Placed, DiagnosedAt, Reporting, Critic, Beside
<1> QED BY <1>2, <1>3, <1>4, <1>5 DEF Placed

(* The critic has settled on a version, or was not asked for one.          *)
Settled(e, kept) ==
    /\ node[e] \in Reporting \cup Critic
    /\ drafts' \in [Executions -> Nat]
    /\ \A f \in Executions \ {e} : drafts'[f] = drafts[f]
    /\ drafts'[e] <= 2 /\ kept \in 1 .. drafts'[e]
    /\ scored' \in (Executions \cup {Nobody}) \X (0 .. 2)
    /\ scored' = scored \/ scored'[1] \in {e, Nobody}
    /\ scored'[1] \in {e, Nobody} \cup Beside(e)
    /\ scored'[1] = e => scored'[2] = kept
    /\ Beside(e) = {} => (scored'[1] = e <=> Criticised)

LEMMA FinishKeeps ==
  ASSUME IInv, NEW e \in Executions, kind' = kind, NEW kept, Settled(e, kept), Finish(e, kept),
         verified' \in {verified, e, Nobody}, verified' \in {e, Nobody} \cup Beside(e)
  PROVE  Typed' /\ Others(e) /\ Placed(e)'
<1> DEFINE answer == [kept |-> kept, quality |-> scored', verified |-> verified']
<1>1. /\ node' = [node EXCEPT ![e] = "done"] /\ Typed /\ Placed(e)
      /\ turns' = [turns EXCEPT ![e] = 0] /\ heard' = [heard EXCEPT ![e] = FALSE]
      /\ iteration' = [iteration EXCEPT ![e] = 0] /\ planned' = [planned EXCEPT ![e] = 0]
      /\ revised' = [revised EXCEPT ![e] = 0] /\ flat' = [flat EXCEPT ![e] = 0]
      /\ pending' = [pending EXCEPT ![e] = 0] /\ UNCHANGED <<validated, beside>>
      /\ reply' = [reply EXCEPT ![e] = answer]
  BY DEF IInv, Finish, Goto, DropState
<1>2. /\ kept \in 0 .. 2 /\ verified' \in Executions \cup {Nobody}
      /\ drafts' \in [Executions -> Nat] /\ scored' \in (Executions \cup {Nobody}) \X (0 .. 2)
  BY <1>1 DEF Settled, Typed
<1>3. answer \in [kept : 0 .. 2, quality : (Executions \cup {Nobody}) \X (0 .. 2),
                  verified : Executions \cup {Nobody}]
  BY <1>2
<1>4. reply'[e] = answer
  BY <1>1 DEF Typed
<1> HIDE DEF answer
<1>5. Typed'
  <2>1. reply' \in [Executions ->
          [kept : 0 .. 2, quality : (Executions \cup {Nobody}) \X (0 .. 2),
           verified : Executions \cup {Nobody}]]
    BY <1>1, <1>3 DEF Typed
  <2>2. /\ node' \in [Executions -> {"off", "queued"} \cup Running \cup Ended]
        /\ pending' \in [Executions -> 0 .. MaxTasks]
    BY <1>1, CountsAssumption DEF Typed, Ended
  <2> QED BY <1>1, <1>2, <2>1, <2>2 DEF Typed
<1>6. Others(e)
  BY <1>1 DEF Typed, Settled, Others
<1>7. node'[e] = "done" /\ turns'[e] = 0 /\ iteration'[e] = 0 /\ validated'[e]
  BY <1>1 DEF Typed, Settled, Placed, ReviewedAt
<1>8. reply'[e].kept = kept /\ reply'[e].quality = scored' /\ reply'[e].verified = verified'
  BY <1>4 DEF answer
<1>9. BoundedAt(e)'
  BY <1>7, CountsAssumption DEF BoundedAt
<1>10. ReviewedAt(e)'
  BY <1>7, <1>8 DEF Settled, ReviewedAt, Analysing, Loop, Reporting, Critic
<1>11. DiagnosedAt(e)'
  BY <1>1, <1>7, <1>8 DEF Settled, DiagnosedAt, Reporting, Critic, Beside
<1> QED BY <1>5, <1>6, <1>9, <1>10, <1>11 DEF Placed

(* A reply in which the version kept is filled in.                         *)
LEMMA KeptInReply ==
  ASSUME NEW e \in Executions, NEW kept \in 0 .. 2, NEW Q, NEW V,
         NEW R \in [Executions -> [kept : 0 .. 2, quality : Q, verified : V]]
  PROVE  LET S == [R EXCEPT ![e].kept = kept]
         IN  /\ S \in [Executions -> [kept : 0 .. 2, quality : Q, verified : V]]
             /\ S[e].kept = kept
             /\ \A f \in Executions \ {e} : S[f] = R[f]
OBVIOUS

LEMMA EndCriticKeeps ==
  ASSUME IInv, NEW e \in Executions, kind' = kind, NEW kept, Settled(e, kept), EndCritic(e, kept)
  PROVE  Typed' /\ Others(e) /\ Placed(e)'
<1>0. verified' = Nobody
  BY DEF EndCritic
<1>1. CASE Finish(e, kept)
  BY <1>0, <1>1, FinishKeeps
<1>2. CASE /\ Goto(e, "verify")
           /\ reply' = [reply EXCEPT ![e].kept = kept]
           /\ UNCHANGED <<graph, results, beside>>
  <2>1. /\ node' = [node EXCEPT ![e] = "verify"] /\ Typed /\ Placed(e)
        /\ UNCHANGED <<turns, heard, iteration, planned, revised, flat, pending, validated, beside>>
    BY <1>2 DEF IInv, Goto, graph
  <2>2. /\ reply' \in [Executions -> [kept : 0 .. 2, quality : (Executions \cup {Nobody}) \X (0 .. 2),
                          verified : Executions \cup {Nobody}]]
        /\ reply'[e].kept = kept
        /\ \A f \in Executions \ {e} : reply'[f] = reply[f]
    <3>1. kept \in 0 .. 2
      BY DEF Settled
    <3>2. reply \in [Executions -> [kept : 0 .. 2, quality : (Executions \cup {Nobody}) \X (0 .. 2),
                          verified : Executions \cup {Nobody}]]
      BY <2>1 DEF Typed
    <3> QED BY <1>2, <3>1, <3>2, KeptInReply
  <2>3. Typed'
    BY <1>0, <2>1, <2>2 DEF Typed, Settled, Running, Analysing, Critic
  <2>4. Others(e)
    BY <1>0, <2>1, <2>2 DEF Typed, Settled, Others
  <2>5. node'[e] = "verify" /\ validated[e] /\ kind[Trace(e)] = "evaluate"
    BY <2>1 DEF Typed, Settled, Placed, ReviewedAt, Analysing
  <2>6. BoundedAt(e)'
    BY <2>1, <2>5 DEF Placed, BoundedAt
  <2>7. ReviewedAt(e)'
    BY <2>1, <2>2, <2>5 DEF Settled, ReviewedAt, Loop, Reporting, Trace
  <2>8. DiagnosedAt(e)'
    BY <1>0, <2>1, <2>2, <2>5 DEF Settled, DiagnosedAt, Reporting, Beside
  <2> QED BY <2>3, <2>4, <2>6, <2>7, <2>8 DEF Placed
<1> QED BY <1>1, <1>2 DEF EndCritic

LEMMA WrittenKeeps ==
  ASSUME IInv, NEW e \in Executions, kind' = kind, node[e] \in Reporting, Written(e)
  PROVE  Typed' /\ Others(e) /\ Placed(e)'
<1>0. /\ Typed /\ Placed(e) /\ drafts' = [drafts EXCEPT ![e] = @ + 1]
      /\ drafts'[e] = drafts[e] + 1 /\ drafts[e] \in 0 .. 1 /\ (Rewriting(e) => Criticised)
  BY DEF IInv, Written, Typed, Placed, ReviewedAt, Rewriting
<1>1. CASE Rewriting(e) \/ Criticised
  <2> DEFINE n == IF Rewriting(e) THEN "rescore" ELSE "score"
  <2>1. /\ node' = [node EXCEPT ![e] = n] /\ turns' = [turns EXCEPT ![e] = 0]
        /\ scored' = IF Rewriting(e) THEN scored ELSE <<Nobody, 0>>
        /\ UNCHANGED <<heard, iteration, planned, revised, flat, pending, validated>>
        /\ UNCHANGED <<reply, verified, beside>>
    BY <1>1 DEF Written, Goto
  <2>2. Typed'
    <3>1. scored' \in (Executions \cup {Nobody}) \X (0 .. 2)
      BY <1>0, <2>1 DEF Typed
    <3> QED BY <1>0, <2>1, <3>1 DEF Typed, Running, Analysing, Critic
  <2>3. Others(e)
    BY <1>0, <2>1 DEF Typed, Others
  <2>4. node'[e] = n /\ turns'[e] = 0 /\ validated[e] /\ kind[Trace(e)] = "evaluate"
    BY <1>0, <2>1 DEF Typed, Placed, ReviewedAt, Analysing
  <2>5. BoundedAt(e)'
    BY <1>0, <2>1, <2>4 DEF Placed, BoundedAt
  <2>6. ReviewedAt(e)'
    BY <1>0, <1>1, <2>1, <2>4 DEF ReviewedAt, Rewriting, Loop, Reporting, Trace
  <2>7. DiagnosedAt(e)'
    <3>1. Beside(e)' = Beside(e)
      BY <2>1 DEF Beside
    <3>2. e # Nobody
      BY NobodyAssumption
    <3> QED BY <1>0, <2>1, <2>4, <3>1, <3>2 DEF Placed, DiagnosedAt, Rewriting, Reporting, Critic
  <2> QED BY <2>2, <2>3, <2>5, <2>6, <2>7 DEF Placed
<1>2. CASE ~(Rewriting(e) \/ Criticised)
  <2>1. scored' = <<Nobody, 0>> /\ EndCritic(e, 1)
    BY <1>2 DEF Written
  <2>2. e # Nobody
    BY NobodyAssumption
  <2>3. Settled(e, 1)
    BY <1>0, <1>2, <2>1, <2>2 DEF Settled, Typed, Rewriting
  <2> QED BY <2>1, <2>3, EndCriticKeeps
<1> QED BY <1>1, <1>2

LEMMA ReportKeeps ==
  ASSUME IInv, NEW e \in Executions, kind' = kind,
         Report(e) \/ ReportAnswered(e) \/ ReportFailed(e) \/ Recover(e) \/ Region(e)
  PROVE  Typed' /\ Others(e) /\ Placed(e)' /\ node[e] \notin {"off", "queued", "done", "failed"}
<1>1. node[e] \in Reporting
  BY DEF Report, ReportAnswered, ReportFailed, Recover, Region, Reporting
<1>2. CASE Written(e)
  BY <1>1, <1>2, WrittenKeeps DEF Reporting
<1>3. CASE \E n \in {"reportCall", "region", "recover"} :
             /\ MoveTo(e, n) /\ (n = "reportCall" => node[e] = "report")
             /\ n = "recover" => node[e] = "reportCall"
  BY <1>1, <1>3, StaysReporting DEF Reporting
<1>4. CASE /\ node[e] = "recover" /\ turns[e] + 1 < MaxRecoveries
           /\ turns' = [turns EXCEPT ![e] = @ + 1]
           /\ UNCHANGED <<node, heard, iteration, planned, revised, flat, pending, validated>>
           /\ UNCHANGED <<reporting, results, lastRun>>
  <2>1. /\ Typed /\ Placed(e) /\ turns'[e] = turns[e] + 1
        /\ UNCHANGED <<drafts, reply, scored, verified, beside>>
    BY <1>4 DEF IInv, Typed, reporting, lastRun
  <2>2. Typed'
    BY <1>4, <2>1 DEF Typed
  <2>3. Others(e)
    BY <1>4, <2>1 DEF Typed, Others
  <2>4. BoundedAt(e)'
    BY <1>4, <2>1 DEF Placed, BoundedAt
  <2>5. ReviewedAt(e)' /\ DiagnosedAt(e)'
    BY <1>4, <2>1 DEF Placed, ReviewedAt, DiagnosedAt, Beside, Trace
  <2> QED BY <1>4, <2>2, <2>3, <2>4, <2>5 DEF Placed
<1> QED BY <1>2, <1>3, <1>4 DEF Report, ReportAnswered, ReportFailed, Recover, Region, CheckRegions

LEMMA ScoreKeeps ==
  ASSUME IInv, NEW e \in Executions, kind' = kind, Score(e)
  PROVE  Typed' /\ Others(e) /\ Placed(e)' /\ node[e] = "score"
<1>1. /\ node[e] = "score" /\ Typed /\ Placed(e) /\ scored' = <<e, 1>> /\ drafts' = drafts
  BY DEF IInv, Score
<1>2. drafts[e] = 1 /\ validated[e] /\ Criticised /\ kind[Trace(e)] = "evaluate"
  BY <1>1 DEF Placed, ReviewedAt, Analysing, Critic
<1>3. scored' \in (Executions \cup {Nobody}) \X (0 .. 2)
  BY <1>1
<1>4. CASE EndCritic(e, 1)
  <2>1. Settled(e, 1)
    BY <1>1, <1>2, <1>3 DEF Typed, Settled, Critic
  <2> QED BY <1>1, <1>4, <2>1, EndCriticKeeps
<1>5. CASE Goto(e, "report") /\ UNCHANGED <<graph, reply, results, verified, beside>>
  <2>1. /\ node' = [node EXCEPT ![e] = "report"]
        /\ UNCHANGED <<turns, heard, iteration, planned, revised, flat, pending, validated>>
        /\ UNCHANGED <<reply, verified, beside>>
    BY <1>5 DEF Goto, graph
  <2>2. Typed'
    BY <1>1, <1>3, <2>1 DEF Typed, Running, Analysing, Reporting
  <2>3. Others(e)
    BY <1>1, <2>1 DEF Typed, Others, Critic
  <2>4. node'[e] = "report"
    BY <1>1, <2>1 DEF Typed
  <2>5. BoundedAt(e)'
    BY <1>1, <2>1, <2>4 DEF Placed, BoundedAt
  <2>6. ReviewedAt(e)'
    BY <1>1, <1>2, <2>1, <2>4 DEF ReviewedAt, Loop, Critic, Trace
  <2>7. DiagnosedAt(e)'
    BY <1>1, <2>4 DEF DiagnosedAt, Critic
  <2> QED BY <1>1, <2>2, <2>3, <2>5, <2>6, <2>7 DEF Placed
<1> QED BY <1>1, <1>4, <1>5 DEF Score

LEMMA RescoreKeeps ==
  ASSUME IInv, NEW e \in Executions, kind' = kind, Rescore(e)
  PROVE  Typed' /\ Others(e) /\ Placed(e)' /\ node[e] = "rescore"
<1>1. node[e] = "rescore" /\ Typed /\ Placed(e) /\ drafts' = drafts
  BY DEF IInv, Rescore
<1>2. /\ drafts[e] = 2 /\ Criticised
      /\ scored[1] \in {e, Nobody} \cup Beside(e)
      /\ scored[1] = e => scored[2] = 1
      /\ Beside(e) = {} => scored[1] = e
  BY <1>1 DEF Placed, ReviewedAt, DiagnosedAt, Critic
<1>3. CASE scored' = <<e, 2>> /\ EndCritic(e, 2)
  <2>1. Settled(e, 2)
    BY <1>1, <1>2, <1>3 DEF Typed, Settled, Critic
  <2> QED BY <1>1, <1>3, <2>1, EndCriticKeeps
<1>4. CASE UNCHANGED scored /\ EndCritic(e, 1)
  <2>1. Settled(e, 1)
    BY <1>1, <1>2, <1>4 DEF Typed, Settled, Critic
  <2> QED BY <1>1, <1>4, <2>1, EndCriticKeeps
<1> QED BY <1>3, <1>4 DEF Rescore

LEMMA VerifyKeeps ==
  ASSUME IInv, NEW e \in Executions, kind' = kind, Verify(e)
  PROVE  Typed' /\ Others(e) /\ Placed(e)' /\ node[e] = "verify"
<1>1. /\ node[e] = "verify" /\ Typed /\ Placed(e) /\ verified' \in {e, verified}
      /\ UNCHANGED <<scored, drafts>> /\ Finish(e, reply[e].kept)
  BY DEF IInv, Verify
<1>2. verified \in {e, Nobody} \cup Beside(e)
  BY <1>1 DEF Placed, DiagnosedAt
<1>3. Settled(e, reply[e].kept)
  BY <1>1 DEF Typed, Settled, Placed, ReviewedAt, DiagnosedAt, Critic
<1> QED BY <1>1, <1>2, <1>3, FinishKeeps

LEMMA CustomizeKeeps ==
  ASSUME IInv, NEW e \in Executions, kind' = kind, Customize(e) \/ CustomizeReply(e)
  PROVE  Typed' /\ Others(e) /\ Placed(e)' /\ node[e] \notin {"off", "queued", "done", "failed"}
<1>1. PICK n \in {"done", "customizeCall"} : MoveTo(e, n)
  BY DEF Customize, CustomizeReply
<1>2. node[e] \in {"customize", "customizeCall"} /\ Placed(e)
  BY DEF IInv, Customize, CustomizeReply
<1>3. n \in Running \cup Ended
  BY DEF Running, Ended
<1>4. /\ Typed' /\ Others(e) /\ node'[e] = n
      /\ UNCHANGED <<turns, iteration, validated, drafts, scored, beside>>
  BY <1>1, <1>3, MoveToTyped DEF graph, reporting, lastRun
<1>5. Placed(e)'
  BY <1>2, <1>4, CountsAssumption
     DEF Placed, BoundedAt, ReviewedAt, DiagnosedAt, Analysing, Loop, Reporting, Critic, Trace
<1> QED BY <1>2, <1>4, <1>5

-----------------------------------------------------------------------------
(* The steps of the container and of the client.                           *)

LEMMA AnalysisStepKeeps ==
  ASSUME IInv, NEW e \in Executions, kind' = kind, AnalysisStep(e)
  PROVE  Typed' /\ Others(e) /\ Placed(e)' /\ node[e] \notin {"off", "queued", "done", "failed"}
<1>1. CASE PlanTurn(e) \/ PlanEnd(e) \/ PlanAnswered(e) \/ PlanBusy(e) \/ PlanTools(e)
  BY <1>1, PlanTurnKeeps, PlanEndKeeps, PlanAnsweredKeeps, PlanBusyKeeps, PlanToolsKeeps
<1>2. CASE PlanFailed(e) \/ EvaluateFailed(e)
  BY <1>2, FailKeeps DEF PlanFailed, EvaluateFailed
<1>3. CASE RunTask(e) \/ ExecuteEnd(e) \/ Evaluate(e) \/ EvaluateAnswered(e)
  BY <1>3, RunTaskKeeps, ExecuteEndKeeps, EvaluateKeeps, EvaluateAnsweredKeeps
<1>4. CASE Revise(e) \/ ReviseAnswered(e) \/ ReviseFailed(e)
  BY <1>4, ReviseKeeps
<1>5. CASE Report(e) \/ ReportAnswered(e) \/ ReportFailed(e) \/ Recover(e) \/ Region(e)
  BY <1>5, ReportKeeps
<1>6. CASE Score(e) \/ Rescore(e) \/ Verify(e) \/ Customize(e) \/ CustomizeReply(e)
  BY <1>6, ScoreKeeps, RescoreKeeps, VerifyKeeps, CustomizeKeeps
<1> QED BY <1>1, <1>2, <1>3, <1>4, <1>5, <1>6 DEF AnalysisStep

LEMMA BeginKeeps ==
  ASSUME IInv, NEW e \in Executions, Begin(e) \/ Cancelled(e)
  PROVE  IInv'
<1>1. node[e] = "queued" /\ UNCHANGED client /\ kind' = kind /\ Placed(e)
  BY DEF IInv, Begin, Cancelled, client
<1>2. CASE Fail(e)
  <2>1. Typed' /\ Others(e) /\ Placed(e)' /\ node'[e] = "failed"
    BY <1>2, FailKeeps
  <2>2. node'[e] \notin Analysing
    BY <2>1 DEF Analysing, Loop, Reporting, Critic
  <2> QED BY <1>1, <2>1, <2>2, OthersStay
<1>3. CASE Enter(e) /\ kind[Trace(e)] = "evaluate"
  <2>1. /\ node' = [node EXCEPT ![e] = "plan"] /\ Typed
        /\ beside' = beside \cup {{e, f} : f \in {g \in Executions : node[g] \in Analysing}}
        /\ UNCHANGED <<turns, heard, iteration, planned, revised, flat, pending, validated>>
        /\ UNCHANGED <<drafts, reply, scored, verified>>
    BY <1>3 DEF IInv, Enter, Goto, graph, reporting
  <2>2. Typed'
    <3>1. beside' \subseteq Pairs
      BY <2>1 DEF Typed, Pairs
    <3> QED BY <2>1, <3>1 DEF Typed, Running, Analysing, Loop
  <2>3. Others(e) /\ node'[e] = "plan"
    BY <2>1 DEF Typed, Others
  <2>4. \A f \in Executions \ {e} : node[f] \in Analysing => {e, f} \in beside'
    BY <2>1
  <2>5. Placed(e)'
    BY <1>1, <1>3, <2>1, <2>3, CountsAssumption
       DEF Placed, BoundedAt, ReviewedAt, DiagnosedAt, Loop, Reporting, Critic, Trace
  <2> QED BY <1>1, <2>2, <2>3, <2>4, <2>5, OthersStay
<1>4. CASE MoveTo(e, "customize") /\ kind[Trace(e)] = "customize"
  <2>1. "customize" \in Running \cup Ended
    BY DEF Running
  <2>2. /\ Typed' /\ Others(e) /\ node'[e] = "customize"
        /\ UNCHANGED <<turns, iteration, validated, drafts, scored, beside>>
    BY <1>4, <2>1, MoveToTyped DEF graph, reporting, lastRun
  <2>3. "customize" \notin Analysing
    BY DEF Analysing, Loop, Reporting, Critic
  <2>4. Placed(e)'
    BY <1>1, <1>4, <2>2, CountsAssumption
       DEF Placed, BoundedAt, ReviewedAt, DiagnosedAt, Analysing, Loop, Reporting, Critic, Trace
  <2> QED BY <1>1, <2>2, <2>3, <2>4, OthersStay
<1>5. kind[Trace(e)] \in Kinds
  BY DEF IInv, ClientTyped, Executions, Trace
<1> QED BY <1>2, <1>3, <1>4, <1>5 DEF Begin, Cancelled, Kinds

(* A step that changes none of what the invariant says of analyses.        *)
LEMMA AnalysesStay ==
  ASSUME IInv, ClientTyped', kind' = kind,
         UNCHANGED <<node, graph, reporting, lastRun>>
  PROVE  IInv'
<1>1. UNCHANGED <<node, turns, heard, iteration, planned, revised, flat, pending, validated,
                  drafts, reply, scored, verified, beside>>
  BY DEF graph, reporting, lastRun
<1>2. Typed'
  BY <1>1 DEF IInv, Typed
<1>3. ASSUME NEW e \in Executions PROVE Placed(e)'
  <2>1. Placed(e) /\ Beside(e)' = Beside(e)
    BY <1>1 DEF IInv, Beside
  <2>2. BoundedAt(e)' /\ ReviewedAt(e)'
    BY <1>1, <2>1 DEF Placed, BoundedAt, ReviewedAt
  <2>3. DiagnosedAt(e)'
    BY <1>1, <2>1 DEF Placed, DiagnosedAt
  <2> QED BY <2>2, <2>3 DEF Placed
<1>4. Together'
  BY <1>1 DEF IInv, Together
<1> QED BY <1>2, <1>3, <1>4 DEF IInv

LEMMA ClientKeeps ==
  ASSUME IInv, NEW c \in Callers, Transient(c) \/ Refused(c) \/ Answer(c)
  PROVE  IInv'
<1>1. PICK r \in {"backoff", "answered", "failed"} :
        request' = [request EXCEPT ![c] = r] /\ (r = "backoff" => attempt[c] < Limit(c))
  BY DEF Transient, Refused, Answer
<1>2. /\ kind' = kind /\ attempt' = attempt
      /\ UNCHANGED <<node, graph, reporting, lastRun>>
  BY DEF Transient, Refused, Answer, analysisVars
<1>3. Limit(c) <= MaxAttempts
  BY CountsAssumption DEF Limit
<1>4. ClientTyped'
  <2>1. ClientTyped /\ attempt[c] \in Nat /\ Limit(c) \in Nat
    BY CountsAssumption DEF IInv, ClientTyped, Limit
  <2>2. request' \in [Callers -> {"backoff", "waiting", "answered", "failed"}]
    BY <1>1, <2>1 DEF ClientTyped
  <2>3. \A d \in Callers : request'[d] = "backoff" => attempt[d] < MaxAttempts
    BY <1>1, <1>3, <2>1, CountsAssumption DEF ClientTyped
  <2> QED BY <1>2, <2>1, <2>2, <2>3 DEF ClientTyped, Trace
<1> QED BY <1>2, <1>4, AnalysesStay

LEMMA SendKeeps ==
  ASSUME IInv, NEW c \in Callers, Send(c)
  PROVE  IInv'
<1> DEFINE e == <<c, attempt[c] + 1>>
<1>1. /\ request[c] = "backoff" /\ attempt[c] \in 0 .. MaxAttempts /\ attempt[c] < MaxAttempts
      /\ attempt' = [attempt EXCEPT ![c] = @ + 1]
      /\ request' = [request EXCEPT ![c] = "waiting"] /\ kind' = kind
      /\ node' = [node EXCEPT ![e] = "queued"]
      /\ UNCHANGED <<turns, heard, iteration, planned, revised, flat, pending, validated,
                     drafts, reply, scored, verified, beside>>
  BY DEF IInv, ClientTyped, Send, Goto, graph, reporting, lastRun
<1>2. attempt[c] + 1 \in 1 .. MaxAttempts
  BY <1>1, CountsAssumption
<1>3. e \in Executions /\ Trace(e) = c /\ e[2] = attempt[c] + 1
  BY <1>2 DEF Executions, Trace
<1>4. node[e] = "off"
  BY <1>1, <1>3 DEF IInv, ClientTyped
<1> HIDE DEF e
<1>5. Typed'
  BY <1>1 DEF IInv, Typed
<1>6. ClientTyped'
  <2>1. ASSUME NEW f \in Executions PROVE node'[f] = "off" \/ f[2] <= attempt'[Trace(f)]
    <3>1. Trace(f) \in Callers /\ f[2] \in 1 .. MaxAttempts
      BY DEF Executions, Trace
    <3>2. attempt'[Trace(f)] >= attempt[Trace(f)]
      BY <1>1, <3>1, CountsAssumption DEF IInv, ClientTyped
    <3>3. CASE f = e
      BY <1>1, <1>3, <3>3, CountsAssumption DEF IInv, ClientTyped
    <3>4. CASE f # e
      <4>1. node[f] = "off" \/ f[2] <= attempt[Trace(f)]
        BY DEF IInv, ClientTyped
      <4>2. node'[f] = node[f]
        BY <1>1, <3>4 DEF IInv, Typed
      <4>3. attempt[Trace(f)] \in Nat /\ attempt'[Trace(f)] \in Nat
        BY <1>1, <3>1, CountsAssumption DEF IInv, ClientTyped
      <4> QED BY <3>1, <3>2, <4>1, <4>2, <4>3, CountsAssumption
    <3> QED BY <3>3, <3>4
  <2>2. /\ kind' \in [Callers -> Kinds] /\ attempt' \in [Callers -> 0 .. MaxAttempts]
        /\ request' \in [Callers -> {"backoff", "waiting", "answered", "failed"}]
    BY <1>1, <1>2 DEF IInv, ClientTyped
  <2>3. \A d \in Callers : request'[d] = "backoff" => attempt'[d] < MaxAttempts
    BY <1>1 DEF IInv, ClientTyped
  <2> QED BY <2>1, <2>2, <2>3 DEF ClientTyped, Trace
<1>7. ASSUME NEW f \in Executions PROVE Placed(f)'
  <2>1. Placed(f) /\ (f = e => node[f] = "off" /\ node'[f] = "queued") /\ (f # e => node'[f] = node[f])
    BY <1>1, <1>4 DEF IInv, Typed
  <2>2. BoundedAt(f)'
    BY <1>1, <2>1 DEF Placed, BoundedAt
  <2>3. ReviewedAt(f)'
    BY <1>1, <2>1 DEF Placed, ReviewedAt, Analysing, Loop, Reporting, Critic, Trace
  <2>4. DiagnosedAt(f)'
    BY <1>1, <2>1 DEF Placed, DiagnosedAt, Reporting, Critic, Beside, Trace
  <2> QED BY <2>2, <2>3, <2>4 DEF Placed
<1>8. Together'
  <2>1. \A f \in Executions : node'[f] \in Analysing => node[f] \in Analysing
    BY <1>1 DEF IInv, Typed, Analysing, Loop, Reporting, Critic
  <2> QED BY <1>1, <2>1 DEF IInv, Together
<1> QED BY <1>5, <1>6, <1>7, <1>8 DEF IInv

LEMMA RestartKeeps ==
  ASSUME IInv, Restart
  PROVE  IInv'
<1> DEFINE lost == {e \in Executions : node[e] \in {"queued"} \cup Running}
           At(f, v) == [e \in Executions |-> IF e \in lost THEN v ELSE f[e]]
<1>1. /\ node' = At(node, "failed")
      /\ turns' = At(turns, 0) /\ heard' = At(heard, FALSE)
      /\ iteration' = At(iteration, 0) /\ planned' = At(planned, 0)
      /\ revised' = At(revised, 0) /\ flat' = At(flat, 0)
      /\ pending' = At(pending, 0) /\ validated' = At(validated, FALSE)
      /\ drafts' = At(drafts, 0)
      /\ scored' = <<Nobody, 0>> /\ verified' = Nobody
      /\ UNCHANGED <<reply, beside, kind, request, attempt>>
  BY DEF Restart, client
<1>2. Typed'
  <2>1. node' \in [Executions -> {"off", "queued"} \cup Running \cup Ended]
    BY <1>1 DEF IInv, Typed, Ended
  <2>2. /\ turns' \in [Executions -> Nat] /\ iteration' \in [Executions -> Nat]
        /\ planned' \in [Executions -> Nat] /\ revised' \in [Executions -> Nat]
        /\ flat' \in [Executions -> Nat] /\ drafts' \in [Executions -> Nat]
    BY <1>1 DEF IInv, Typed
  <2>3. heard' \in [Executions -> BOOLEAN]
    BY <1>1 DEF IInv, Typed
  <2>4. validated' \in [Executions -> BOOLEAN]
    BY <1>1 DEF IInv, Typed
  <2>5. pending' \in [Executions -> 0 .. MaxTasks]
    BY <1>1, CountsAssumption DEF IInv, Typed
  <2>6. scored' \in (Executions \cup {Nobody}) \X (0 .. 2)
    BY <1>1
  <2>7. verified' \in Executions \cup {Nobody} /\ UNCHANGED <<reply, beside>>
    BY <1>1
  <2> QED BY <2>1, <2>2, <2>3, <2>4, <2>5, <2>6, <2>7 DEF IInv, Typed
<1>3. ASSUME NEW e \in Executions
      PROVE  Placed(e)' /\ (node[e] = "off" <=> node'[e] = "off")
  <2>1. CASE e \in lost
    <3>1. node'[e] = "failed" /\ turns'[e] = 0 /\ iteration'[e] = 0 /\ drafts'[e] = 0
      BY <1>1, <2>1
    <3>2. node[e] # "off"
      BY <2>1 DEF Running, Analysing, Loop, Reporting, Critic
    <3> QED BY <3>1, <3>2, CountsAssumption
            DEF Placed, BoundedAt, ReviewedAt, DiagnosedAt, Analysing, Loop, Reporting, Critic
  <2>2. CASE e \notin lost
    <3>1. /\ node'[e] = node[e] /\ turns'[e] = turns[e] /\ iteration'[e] = iteration[e]
          /\ validated'[e] = validated[e] /\ drafts'[e] = drafts[e]
      BY <1>1, <2>2
    <3>2. node[e] \notin {"queued"} \cup Running /\ Placed(e)
      BY <2>2 DEF IInv
    <3>3. BoundedAt(e)' /\ ReviewedAt(e)'
      BY <1>1, <3>1, <3>2 DEF Placed, BoundedAt, ReviewedAt, Trace
    <3>4. DiagnosedAt(e)'
      BY <1>1, <3>1, <3>2 DEF Placed, DiagnosedAt, Running, Analysing, Critic, Beside, Trace
    <3> QED BY <3>1, <3>3, <3>4 DEF Placed
  <2> QED BY <2>1, <2>2
<1>4. ClientTyped'
  BY <1>1, <1>3 DEF IInv, ClientTyped, Trace
<1>5. \A e \in Executions : node'[e] \notin Analysing
  BY <1>1 DEF Running, Analysing, Loop, Reporting, Critic
<1> QED BY <1>2, <1>3, <1>4, <1>5 DEF IInv, Together

LEMMA NextIInv == IInv /\ [Next]_vars => IInv'
<1> SUFFICES ASSUME IInv, [Next]_vars PROVE IInv'
  OBVIOUS
<1>1. ASSUME NEW c \in Callers, Send(c) \/ Transient(c) \/ Refused(c) \/ Answer(c) PROVE IInv'
  BY <1>1, SendKeeps, ClientKeeps
<1>2. ASSUME NEW e \in Executions, Begin(e) \/ Cancelled(e) PROVE IInv'
  BY <1>2, BeginKeeps
<1>3. ASSUME NEW e \in Executions, Work(e) PROVE IInv'
  <2>1. UNCHANGED client /\ kind' = kind /\ AnalysisStep(e)
    BY <1>3 DEF Work, client
  <2>2. /\ Typed' /\ Others(e) /\ Placed(e)' /\ Placed(e)
        /\ node[e] \notin {"off", "queued", "done", "failed"}
    BY <2>1, AnalysisStepKeeps DEF IInv
  <2>3. node'[e] \in Analysing => node[e] \in Analysing
    <3>1. node[e] \in Running
      BY <2>2 DEF IInv, Typed, Ended
    <3> QED BY <2>1, <2>2, <3>1 DEF Placed, ReviewedAt, Running, Trace
  <2> QED BY <2>1, <2>2, <2>3, OthersStay
<1>4. CASE CoolBreaker \/ UNCHANGED vars
  <2>1. UNCHANGED <<node, graph, reporting, lastRun, kind, request, attempt>>
    BY <1>4 DEF CoolBreaker, Cool, vars, analysisVars, client
  <2>2. ClientTyped'
    BY <2>1 DEF IInv, ClientTyped, Trace
  <2> QED BY <2>1, <2>2, AnalysesStay
<1>5. CASE Restart
  BY <1>5, RestartKeeps
<1> QED BY <1>1, <1>2, <1>3, <1>4, <1>5 DEF Next, Done

(* The inductive invariant.                                                *)
THEOREM Invariance == Spec => []IInv
BY InitIInv, NextIInv, PTL DEF Spec

(* ReportRestsOnEvidence for any number of requests, retries and limits:   *)
(* whatever is busy, cut off or skipped, a report returned is one that was *)
(* written, and rests on evidence the evaluator was asked about.           *)
THEOREM ReportsRestOnEvidence == Spec => []ReportRestsOnEvidence
<1>1. IInv => ReportRestsOnEvidence
  BY DEF IInv, Placed, ReviewedAt, ReportRestsOnEvidence
<1> QED BY <1>1, Invariance, PTL

(* DiagnosticsAreNotLeftOver: however analyses overlap, what               *)
(* get_last_run_diagnostics reads from the shared attributes is of this    *)
(* analysis or of one that was in progress beside it, and with none beside *)
(* it is its own.                                                          *)
THEOREM DiagnosticsAreCurrent == Spec => []DiagnosticsAreNotLeftOver
<1>1. IInv => DiagnosticsAreNotLeftOver
  BY DEF IInv, Placed, DiagnosedAt, DiagnosticsAreNotLeftOver
<1> QED BY <1>1, Invariance, PTL

-----------------------------------------------------------------------------
(* Progress: AnalysesAreBounded, action by action.                         *)

Nearer(e) ==
    \/ node'[e] \in Ended
    \/ node[e] \in Loop /\ node'[e] = "report"
    \/ iteration'[e] > iteration[e]
    \/ iteration'[e] = iteration[e] /\ Rank(e)' < Rank(e)

LEMMA TypesAt ==
  ASSUME IInv, NEW e \in Executions
  PROVE  /\ turns[e] \in Nat /\ iteration[e] \in Nat /\ pending[e] \in Nat
         /\ node \in [Executions -> {"off", "queued"} \cup Running \cup Ended]
         /\ turns \in [Executions -> Nat] /\ iteration \in [Executions -> Nat]
         /\ pending \in [Executions -> 0 .. MaxTasks] /\ drafts \in [Executions -> Nat]
         /\ MaxRecoveries \in Nat /\ MaxPlanCalls \in Nat /\ Placed(e)
BY CountsAssumption DEF IInv, Typed

LEMMA FailEnds ==
  ASSUME IInv, NEW e \in Executions, Fail(e)
  PROVE  Nearer(e)
BY FailKeeps DEF Nearer, Ended

LEMMA PlanNearer ==
  ASSUME IInv, NEW e \in Executions,
         \/ PlanTurn(e) \/ PlanEnd(e) \/ PlanAnswered(e) \/ PlanBusy(e) \/ PlanFailed(e) \/ PlanTools(e)
  PROVE  Nearer(e)
<1>1. CASE WritePlan(e)
  BY <1>1, TypesAt DEF WritePlan, Nearer
<1>2. CASE Fail(e)
  BY <1>2, FailEnds
<1>3. CASE PlanTurn(e)
  <2>1. node[e] = "plan" /\ node'[e] = "planCall" /\ turns'[e] = turns[e] /\ iteration'[e] = iteration[e]
    BY <1>3, TypesAt DEF PlanTurn, MoveTo, Goto, graph
  <2> QED BY <2>1, TypesAt DEF Nearer, Rank
<1>4. CASE PlanAnswered(e) /\ ~WritePlan(e)
  <2>1. /\ node[e] = "planCall" /\ node'[e] = "planTools"
        /\ turns'[e] = turns[e] /\ iteration'[e] = iteration[e]
    BY <1>4, TypesAt DEF PlanAnswered, Goto
  <2> QED BY <2>1, TypesAt DEF Nearer, Rank
<1>5. CASE PlanBusy(e) \/ PlanTools(e)
  <2>1. /\ node[e] \in {"planCall", "planTools"} /\ node'[e] = "plan"
        /\ turns'[e] = turns[e] + 1 /\ iteration'[e] = iteration[e]
    BY <1>5, TypesAt DEF PlanBusy, PlanTools, Goto
  <2> QED BY <2>1, TypesAt DEF Nearer, Rank
<1> QED BY <1>1, <1>2, <1>3, <1>4, <1>5 DEF PlanEnd, PlanFailed

LEMMA ExecuteNearer ==
  ASSUME IInv, NEW e \in Executions, RunTask(e) \/ ExecuteEnd(e)
  PROVE  Nearer(e)
<1>1. CASE RunTask(e)
  <2>1. /\ node[e] = "execute" /\ node'[e] = "execute"
        /\ pending'[e] = pending[e] - 1 /\ iteration'[e] = iteration[e]
    BY <1>1, TypesAt DEF RunTask
  <2> QED BY <2>1, TypesAt DEF Nearer, Rank
<1>2. CASE ExecuteEnd(e)
  BY <1>2, TypesAt DEF ExecuteEnd, Nearer
<1> QED BY <1>1, <1>2

(* The look at the breaker, where a call follows.                          *)
LEMMA CallNearer ==
  ASSUME IInv, NEW e \in Executions, node[e] \in {"evaluate", "revise", "customize"},
         NEW n \in {"evaluateCall", "reviseCall", "customizeCall"}, MoveTo(e, n)
  PROVE  Nearer(e)
<1>1. node'[e] = n /\ iteration'[e] = iteration[e]
  BY TypesAt DEF MoveTo, Goto, graph
<1> QED BY <1>1, TypesAt DEF Nearer, Rank

LEMMA EvaluateNearer ==
  ASSUME IInv, NEW e \in Executions, Evaluate(e) \/ EvaluateAnswered(e) \/ EvaluateFailed(e)
  PROVE  Nearer(e)
<1>1. CASE Fail(e)
  BY <1>1, FailEnds
<1>2. CASE Evaluate(e) /\ ~Fail(e)
  BY <1>2, CallNearer DEF Evaluate
<1>3. CASE EvaluateAnswered(e) /\ ~Fail(e)
  <2>1. PICK verdict \in Verdicts, small \in {0, flat[e] + 1} :
          LET next == Route(e, verdict, iteration[e] + 1, small)
          IN  /\ node[e] = "evaluateCall" /\ Goto(e, next)
              /\ next # "report" => iteration' = [iteration EXCEPT ![e] = @ + 1]
    BY <1>3 DEF EvaluateAnswered
  <2> DEFINE next == Route(e, verdict, iteration[e] + 1, small)
  <2>2. node'[e] = next /\ (next # "report" => iteration'[e] = iteration[e] + 1)
    BY <2>1, TypesAt DEF Goto
  <2> HIDE DEF next
  <2> QED BY <2>1, <2>2, TypesAt DEF Nearer, Loop
<1> QED BY <1>1, <1>2, <1>3 DEF EvaluateFailed

LEMMA ReviseNearer ==
  ASSUME IInv, NEW e \in Executions, Revise(e) \/ ReviseAnswered(e) \/ ReviseFailed(e)
  PROVE  Nearer(e)
<1>1. ASSUME NEW n, WriteRevision(e, n) PROVE Nearer(e)
  BY <1>1, TypesAt DEF WriteRevision, Nearer
<1>2. CASE node[e] = "revise" /\ MoveTo(e, "reviseCall")
  BY <1>2, CallNearer
<1> QED BY <1>1, <1>2 DEF Revise, ReviseAnswered, ReviseFailed

LEMMA FinishEnds ==
  ASSUME IInv, NEW e \in Executions, NEW kept, Finish(e, kept)
  PROVE  Nearer(e)
<1>1. node'[e] = "done"
  BY TypesAt DEF Finish, Goto
<1> QED BY <1>1 DEF Nearer, Ended

(* The version kept is verified, or returned.                              *)
LEMMA CriticEnds ==
  ASSUME IInv, NEW e \in Executions, NEW kept, EndCritic(e, kept),
         node[e] \in {"report", "reportCall", "recover", "region", "score", "rescore"}
  PROVE  Nearer(e)
<1>1. CASE Finish(e, kept)
  BY <1>1, FinishEnds
<1>2. CASE Goto(e, "verify") /\ UNCHANGED graph
  <2>1. node'[e] = "verify" /\ iteration'[e] = iteration[e]
    BY <1>2, TypesAt DEF Goto, graph
  <2>2. node[e] = "recover" => turns[e] < MaxRecoveries
    BY TypesAt DEF Placed, BoundedAt
  <2> QED BY <2>1, <2>2, TypesAt DEF Nearer, Rank
<1> QED BY <1>1, <1>2 DEF EndCritic

LEMMA ReportNearer ==
  ASSUME IInv, NEW e \in Executions,
         Report(e) \/ ReportAnswered(e) \/ ReportFailed(e) \/ Recover(e) \/ Region(e)
  PROVE  Nearer(e)
<1>1. node[e] \in Reporting /\ (node[e] = "recover" => turns[e] < MaxRecoveries)
  BY TypesAt DEF Report, ReportAnswered, ReportFailed, Recover, Region, Reporting, Placed, BoundedAt
<1>2. CASE Written(e)
  <2>1. CASE EndCritic(e, 1)
    BY <1>1, <2>1, CriticEnds DEF Reporting
  <2>2. CASE Goto(e, IF Rewriting(e) THEN "rescore" ELSE "score") /\ UNCHANGED iteration
    <3>1. /\ node'[e] = (IF Rewriting(e) THEN "rescore" ELSE "score")
          /\ iteration'[e] = iteration[e]
      BY <2>2, TypesAt DEF Goto
    <3> QED BY <1>1, <3>1, TypesAt DEF Nearer, Rank, Reporting
  <2> QED BY <1>2, <2>1, <2>2 DEF Written
<1>3. ASSUME MoveTo(e, "reportCall"), node[e] = "report" PROVE Nearer(e)
  <2>1. node'[e] = "reportCall" /\ iteration'[e] = iteration[e] /\ Rewriting(e)' = Rewriting(e)
    BY <1>3, TypesAt DEF MoveTo, Goto, graph, reporting, Rewriting
  <2> QED BY <1>3, <2>1, TypesAt DEF Nearer, Rank
<1>4. ASSUME NEW n \in {"region", "recover"}, MoveTo(e, n), node[e] \in {"reportCall", "recover"},
             n = "recover" => node[e] = "reportCall"
      PROVE  Nearer(e)
  <2>1. /\ node'[e] = n /\ iteration'[e] = iteration[e] /\ turns'[e] = turns[e]
        /\ Rewriting(e)' = Rewriting(e)
    BY <1>4, TypesAt DEF MoveTo, Goto, graph, reporting, Rewriting
  <2> QED BY <1>1, <1>4, <2>1, TypesAt DEF Nearer, Rank
<1>5. CASE /\ node[e] = "recover" /\ turns' = [turns EXCEPT ![e] = @ + 1]
           /\ UNCHANGED <<node, iteration, drafts>>
  <2>1. /\ node'[e] = "recover" /\ iteration'[e] = iteration[e] /\ turns'[e] = turns[e] + 1
        /\ Rewriting(e)' = Rewriting(e)
    BY <1>5, TypesAt DEF Rewriting
  <2> QED BY <1>5, <2>1, TypesAt DEF Nearer, Rank
<1> QED BY <1>2, <1>3, <1>4, <1>5
        DEF Report, ReportAnswered, ReportFailed, Recover, Region, CheckRegions, reporting

LEMMA CriticNearer ==
  ASSUME IInv, NEW e \in Executions, Score(e) \/ Rescore(e) \/ Verify(e)
  PROVE  Nearer(e)
<1>1. CASE Verify(e)
  BY <1>1, FinishEnds DEF Verify
<1>2. ASSUME NEW kept, EndCritic(e, kept), Score(e) \/ Rescore(e) PROVE Nearer(e)
  BY <1>2, CriticEnds DEF Score, Rescore
<1>3. CASE Score(e) /\ Goto(e, "report") /\ UNCHANGED <<graph, drafts>>
  <2>1. node[e] = "score" /\ drafts[e] = 1
    BY <1>3, TypesAt DEF Score, Placed, ReviewedAt
  <2>2. node'[e] = "report" /\ iteration'[e] = iteration[e] /\ Rewriting(e)'
    BY <1>3, <2>1, TypesAt DEF Goto, graph, Rewriting
  <2> QED BY <2>1, <2>2, TypesAt DEF Nearer, Rank
<1> QED BY <1>1, <1>2, <1>3 DEF Score, Rescore

LEMMA CustomizeNearer ==
  ASSUME IInv, NEW e \in Executions, Customize(e) \/ CustomizeReply(e)
  PROVE  Nearer(e)
<1>1. CASE MoveTo(e, "done")
  <2>1. node'[e] = "done"
    BY <1>1, TypesAt DEF MoveTo, Goto
  <2> QED BY <2>1 DEF Nearer, Ended
<1>2. CASE node[e] = "customize" /\ MoveTo(e, "customizeCall")
  BY <1>2, CallNearer
<1> QED BY <1>1, <1>2 DEF Customize, CustomizeReply

(* The measure of AnalysesAreBounded cannot go on falling.                 *)
LEMMA RanksAreNatural ==
  ASSUME IInv, NEW e \in Executions, node[e] \in Running
  PROVE  Rank(e) \in Nat /\ iteration[e] <= MaxIterations + 1
<1>1. BoundedAt(e) /\ MaxRecoveries \in Nat
  BY TypesAt DEF Placed
<1> QED BY <1>1, TypesAt DEF BoundedAt, Rank

LEMMA StepNearer ==
  ASSUME IInv, NEW e \in Executions, AnalysisStep(e)
  PROVE  Nearer(e)
BY PlanNearer, ExecuteNearer, EvaluateNearer, ReviseNearer, ReportNearer, CriticNearer,
   CustomizeNearer DEF AnalysisStep

LEMMA NextNearer ==
  ASSUME IInv, [Next]_vars, NEW e \in Executions, node[e] \in Running,
         <<node[e], turns[e], pending[e]>>' # <<node[e], turns[e], pending[e]>>
  PROVE  Nearer(e)
<1>1. ASSUME NEW f \in Executions, Work(f) PROVE Nearer(e)
  <2>1. AnalysisStep(f) /\ kind' = kind
    BY <1>1 DEF Work, client
  <2>2. CASE f = e
    BY <2>1, <2>2, StepNearer
  <2>3. CASE f # e
    BY <2>1, <2>3, AnalysisStepKeeps DEF Others
  <2> QED BY <2>2, <2>3
<1>2. ASSUME NEW f \in Executions, Begin(f) \/ Cancelled(f) PROVE Nearer(e)
  <2>1. node[f] = "queued" /\ f # e
    BY <1>2 DEF Begin, Cancelled, Running, Analysing, Loop, Reporting, Critic
  <2>2. CASE Fail(f)
    <3>1. node'[e] = node[e] /\ turns'[e] = turns[e] /\ pending'[e] = pending[e]
      BY <2>1, <2>2, TypesAt DEF Fail, DropState, Goto
    <3> QED BY <3>1
  <2>3. ASSUME NEW n, MoveTo(f, n) \/ Enter(f) PROVE Nearer(e)
    <3>1. node'[e] = node[e] /\ turns'[e] = turns[e] /\ pending'[e] = pending[e]
      BY <2>1, <2>3, TypesAt DEF MoveTo, Enter, Goto, graph
    <3> QED BY <3>1
  <2>4. kind[Trace(f)] \in Kinds
    BY DEF IInv, ClientTyped, Executions, Trace
  <2> QED BY <1>2, <2>2, <2>3, <2>4 DEF Begin, Cancelled, Kinds
<1>3. ASSUME NEW c \in Callers, Send(c) PROVE Nearer(e)
  <2>1. node[<<c, attempt[c] + 1>>] = "off" /\ <<c, attempt[c] + 1>> \in Executions
    <3>1. attempt[c] \in 0 .. MaxAttempts /\ attempt[c] < MaxAttempts
      BY <1>3 DEF IInv, ClientTyped, Send
    <3>2. attempt[c] + 1 \in 1 .. MaxAttempts
      BY <3>1, CountsAssumption
    <3>3. <<c, attempt[c] + 1>> \in Executions
      BY <3>2 DEF Executions
    <3> QED BY <3>1, <3>3 DEF IInv, ClientTyped, Trace
  <2>2. e # <<c, attempt[c] + 1>>
    BY <2>1 DEF Running, Analysing, Loop, Reporting, Critic
  <2> QED BY <1>3, <2>2, TypesAt DEF Send, Goto, graph
<1>4. ASSUME NEW c \in Callers, Transient(c) \/ Refused(c) \/ Answer(c) PROVE Nearer(e)
  BY <1>4 DEF Transient, Refused, Answer, analysisVars, graph
<1>5. CASE CoolBreaker \/ UNCHANGED vars
  BY <1>5 DEF CoolBreaker, Cool, vars, analysisVars, graph
<1>6. CASE Restart
  <2>1. node'[e] = "failed"
    BY <1>6 DEF Restart
  <2> QED BY <2>1 DEF Nearer, Ended
<1> QED BY <1>1, <1>2, <1>3, <1>4, <1>5, <1>6 DEF Next, Done

(* AnalysesAreBounded: whatever the model answers and however often calls  *)
(* are busy, cut off or turned away by the breaker, a step of an analysis  *)
(* ends it, begins the next iteration, or lowers a rank that is a natural  *)
(* number (RanksAreNatural).                                               *)
THEOREM AnalysesEnd == Spec => AnalysesAreBounded
<1>1. IInv /\ [Next]_vars =>
        [\A e \in Executions :
           node[e] \in Running /\ <<node[e], turns[e], pending[e]>>' # <<node[e], turns[e], pending[e]>> =>
              \/ node'[e] \in Ended
              \/ node[e] \in Loop /\ node'[e] = "report"
              \/ iteration'[e] > iteration[e]
              \/ iteration'[e] = iteration[e] /\ Rank(e)' < Rank(e)]_vars
  BY NextNearer DEF Nearer
<1> QED BY <1>1, Invariance, PTL DEF Spec, AnalysesAreBounded

-----------------------------------------------------------------------------
(* The store of tool results: ResultsRetained, and the rest of the types.  *)

(* The kept positions of a sequence, counted from the front: each place is *)
(* taken by one of them.                                                   *)
LEMMA PlacesTaken ==
  ASSUME NEW K, NEW N \in Nat, K \subseteq 1 .. N
  PROVE  /\ Cardinality(K) \in Nat /\ Cardinality(K) <= N
         /\ \A n \in 1 .. Cardinality(K) : \E i \in K : PlaceAmong(K, i) = n
         /\ \A i \in K : PlaceAmong(K, i) \in 1 .. Cardinality(K)
         /\ \A i, k \in K : PlaceAmong(K, i) = PlaceAmong(K, k) => i = k
<1> DEFINE upTo(i) == {j \in K : j <= i}
           place == [i \in K |-> Cardinality(upTo(i))]
<1>0. \A i \in K : place[i] = PlaceAmong(K, i)
  BY DEF PlaceAmong
<1>1. IsFiniteSet(K) /\ Cardinality(K) \in Nat /\ Cardinality(K) <= N
  <2>1. IsFiniteSet(1 .. N) /\ Cardinality(1 .. N) = N
    BY FS_Interval
  <2> QED BY <2>1, FS_Subset, FS_CardinalityType
<1>2. ASSUME NEW i \in K
      PROVE  /\ IsFiniteSet(upTo(i)) /\ Cardinality(upTo(i)) \in 1 .. Cardinality(K)
  <2>1. upTo(i) \subseteq K /\ i \in upTo(i)
    OBVIOUS
  <2>2. /\ IsFiniteSet(upTo(i)) /\ Cardinality(upTo(i)) \in Nat
        /\ Cardinality(upTo(i)) <= Cardinality(K)
    BY <1>1, <2>1, FS_Subset, FS_CardinalityType
  <2>3. Cardinality(upTo(i)) # 0
    BY <2>1, <2>2, FS_EmptySet
  <2> QED BY <1>1, <2>2, <2>3
<1>3. place \in [K -> 1 .. Cardinality(K)]
  BY <1>2
<1>4. ASSUME NEW i \in K, NEW k \in K, i < k PROVE place[i] < place[k]
  <2>1. upTo(i) \subseteq upTo(k) /\ k \in upTo(k) /\ k \notin upTo(i)
    <3>1. \A j \in K : j \in Nat /\ (j <= i => j <= k) /\ ~(k <= i)
      BY <1>4
    <3>2. \A j : (j \in upTo(i) <=> j \in K /\ j <= i) /\ (j \in upTo(k) <=> j \in K /\ j <= k)
      OBVIOUS
    <3> HIDE DEF upTo
    <3>3. k \in K /\ k <= k
      BY <3>1
    <3> QED BY <3>1, <3>2, <3>3
  <2>2. upTo(i) # upTo(k)
    BY <2>1
  <2>3. Cardinality(upTo(i)) < Cardinality(upTo(k))
    BY <1>2, <2>1, <2>2, FS_Subset, FS_CardinalityType
  <2> QED BY <2>3
<1>5. \A i, k \in K : place[i] = place[k] => i = k
  <2> SUFFICES ASSUME NEW i \in K, NEW k \in K, place[i] = place[k], i # k PROVE FALSE
    OBVIOUS
  <2>1. place[i] \in Nat /\ place[k] \in Nat /\ i \in Nat /\ k \in Nat
    BY <1>1, <1>2
  <2>2. i < k \/ k < i
    BY <2>1
  <2>3. place[i] < place[k] \/ place[k] < place[i]
    BY <1>4, <2>2
  <2> QED BY <2>1, <2>3
<1>6. place \in Surjection(K, 1 .. Cardinality(K))
  <2>1. IsFiniteSet(1 .. Cardinality(K)) /\ Cardinality(1 .. Cardinality(K)) = Cardinality(K)
    BY <1>1, FS_Interval
  <2> HIDE DEF place
  <2>2. place \in Injection(K, 1 .. Cardinality(K))
    BY <1>3, <1>5 DEF Injection, IsInjective
  <2> QED BY <2>1, <2>2, FS_Injection
<1>7. \A n \in 1 .. Cardinality(K) : \E i \in K : place[i] = n
  <2> HIDE DEF place
  <2> QED BY <1>6 DEF Surjection
<1> HIDE DEF place
<1> QED BY <1>0, <1>1, <1>3, <1>5, <1>7

Refs == Executions \X (1 .. MaxPuts)

(* clear_trace drops the entries of the trace and no other.                *)
LEMMA ClearTraceClears ==
  ASSUME NEW t, ClearTrace(t), store \in Seq(Refs)
  PROVE  /\ store' \in Seq(Refs)
         /\ Stored' = {ref \in Stored : Trace(ref[1]) # t}
         /\ Len(store') <= Len(store)
         /\ UNCHANGED <<puts, evicted>>
<1> DEFINE kept  == {i \in DOMAIN store : Trace(store[i][1]) # t}
           At(n) == CHOOSE i \in kept : PlaceAmong(kept, i) = n
<1>1. /\ store' = [n \in 1 .. Cardinality(kept) |-> store[At(n)]]
      /\ UNCHANGED <<puts, evicted>>
  BY DEF ClearTrace
<1>2. Len(store) \in Nat /\ DOMAIN store = 1 .. Len(store) /\ kept \subseteq 1 .. Len(store)
  OBVIOUS
<1> HIDE DEF kept
<1>3. /\ Cardinality(kept) \in Nat /\ Cardinality(kept) <= Len(store)
      /\ \A n \in 1 .. Cardinality(kept) : \E i \in kept : PlaceAmong(kept, i) = n
      /\ \A i \in kept : PlaceAmong(kept, i) \in 1 .. Cardinality(kept)
      /\ \A i, k \in kept : PlaceAmong(kept, i) = PlaceAmong(kept, k) => i = k
  <2>1. Len(store) \in Nat /\ kept \subseteq 1 .. Len(store)
    BY <1>2
  <2> QED BY <2>1, PlacesTaken
<1>4. ASSUME NEW n \in 1 .. Cardinality(kept) PROVE At(n) \in kept
  <2>1. \E i \in kept : PlaceAmong(kept, i) = n
    BY <1>3
  <2> QED BY <2>1
<1>5. ASSUME NEW i \in kept
      PROVE  \E n \in 1 .. Cardinality(kept) : At(n) = i
  <2> DEFINE n == PlaceAmong(kept, i)
  <2>1. n \in 1 .. Cardinality(kept)
    BY <1>3
  <2>2. \A k \in kept : PlaceAmong(kept, k) = n => k = i
    BY <1>3
  <2>3. At(n) = i
    BY <2>2
  <2> QED BY <2>1, <2>3
<1> HIDE DEF At
<1>6. \A n \in 1 .. Cardinality(kept) : store[At(n)] \in Refs /\ Trace(store[At(n)][1]) # t
  BY <1>2, <1>4 DEF kept
<1>7. /\ store' \in Seq(Refs) /\ DOMAIN store' = 1 .. Cardinality(kept)
      /\ Len(store') = Cardinality(kept)
  BY <1>1, <1>3, <1>6
<1>8. ASSUME NEW ref PROVE ref \in Stored' <=> ref \in Stored /\ Trace(ref[1]) # t
  <2>1. ASSUME ref \in Stored' PROVE ref \in Stored /\ Trace(ref[1]) # t
    <3>1. PICK n \in 1 .. Cardinality(kept) : ref = store[At(n)]
      BY <1>1, <1>7, <2>1 DEF Stored
    <3> QED BY <1>4, <1>6, <3>1 DEF Stored, kept
  <2>2. ASSUME ref \in Stored, Trace(ref[1]) # t PROVE ref \in Stored'
    <3>1. PICK i \in kept : ref = store[i]
      BY <1>2, <2>2 DEF Stored, kept
    <3>2. PICK n \in 1 .. Cardinality(kept) : At(n) = i
      BY <1>5
    <3> QED BY <1>1, <1>7, <3>1, <3>2 DEF Stored
  <2> QED BY <2>1, <2>2
<1> QED BY <1>1, <1>3, <1>7, <1>8

(* A put is retained or evicted, like what was there before it.            *)
LEMMA PutKeepsRefs ==
  ASSUME NEW e \in Executions, Put(e), store \in Seq(Refs), evicted \subseteq Refs,
         puts \in [Executions -> 0 .. MaxPuts]
  PROVE  /\ puts' = [puts EXCEPT ![e] = @ + 1] /\ puts[e] < MaxPuts
         /\ store' \in Seq(Refs) /\ evicted' \subseteq Refs
         /\ Stored' \cup evicted' = Stored \cup evicted \cup {<<e, puts[e] + 1>>}
         /\ Stored' \subseteq Stored \cup {<<e, puts[e] + 1>>}
         /\ Len(store') <= Capacity \/ Len(store') <= 1
<1> DEFINE ref   == <<e, puts[e] + 1>>
           full  == Append(store, ref)
           extra == IF Len(full) > Capacity THEN Len(full) - Capacity ELSE 0
           drop  == IF extra = Len(full) THEN extra - 1 ELSE extra
<1>1. /\ puts[e] < MaxPuts /\ puts' = [puts EXCEPT ![e] = @ + 1]
      /\ store' = SubSeq(full, drop + 1, Len(full))
      /\ evicted' = evicted \cup {full[i] : i \in 1 .. drop}
  BY DEF Put
<1>2. ref \in Refs
  BY <1>1, CountsAssumption DEF Refs
<1>3. /\ full \in Seq(Refs) /\ Len(full) = Len(store) + 1 /\ full[Len(full)] = ref
      /\ \A i \in 1 .. Len(store) : full[i] = store[i]
      /\ Len(store) \in Nat /\ DOMAIN store = 1 .. Len(store)
  <2> HIDE DEF ref
  <2> QED BY <1>2
<1>4. /\ drop \in Nat /\ drop < Len(full)
      /\ Len(full) - drop <= Capacity \/ Len(full) - drop <= 1
  <2> HIDE DEF full
  <2> QED BY <1>3, CountsAssumption
<1> HIDE DEF ref, full, drop
<1>5. /\ store' \in Seq(Refs) /\ Len(store') = Len(full) - drop /\ DOMAIN store' = 1 .. (Len(full) - drop)
      /\ \A i \in 1 .. (Len(full) - drop) : store'[i] = full[drop + i]
  <2> DEFINE m == Len(full) - drop
  <2>1. full \in Seq(Refs) /\ drop + 1 \in 1 .. Len(full) /\ Len(full) \in 1 .. Len(full)
    BY <1>3, <1>4
  <2>2. m \in Nat /\ Len(full) - (drop + 1) + 1 = m /\ Len(full) \in Nat
    BY <1>3, <1>4
  <2>3. SubSeq(full, drop + 1, Len(full)) \in Seq(Refs)
    BY <2>1
  <2>4. Len(SubSeq(full, drop + 1, Len(full))) = m
    BY <2>1, <2>2
  <2>5. ASSUME NEW i \in 1 .. m PROVE SubSeq(full, drop + 1, Len(full))[i] = full[drop + i]
    BY <2>1, <2>2, <1>4
  <2>6. DOMAIN store' = 1 .. m
    BY <1>1, <2>2, <2>3, <2>4
  <2> QED BY <1>1, <2>3, <2>4, <2>5, <2>6
<1>6. \A i \in 1 .. drop : full[i] \in Refs
  BY <1>3, <1>4
<1>7. ASSUME NEW r PROVE r \in Stored' <=> \E i \in (drop + 1) .. Len(full) : full[i] = r
  <2>1. ASSUME r \in Stored' PROVE \E i \in (drop + 1) .. Len(full) : full[i] = r
    <3>1. PICK i \in 1 .. (Len(full) - drop) : r = full[drop + i]
      BY <1>5, <2>1 DEF Stored
    <3>2. drop + i \in (drop + 1) .. Len(full)
      BY <1>3, <1>4
    <3> QED BY <3>1, <3>2
  <2>2. ASSUME NEW i \in (drop + 1) .. Len(full), full[i] = r PROVE r \in Stored'
    <3>1. i - drop \in 1 .. (Len(full) - drop) /\ drop + (i - drop) = i
      BY <1>3, <1>4
    <3> QED BY <1>5, <2>2, <3>1 DEF Stored
  <2> QED BY <2>1, <2>2
<1>8. ASSUME NEW r PROVE r \in Stored \cup {ref} <=> \E i \in 1 .. Len(full) : full[i] = r
  BY <1>3 DEF Stored
<1>9. Stored' \subseteq Stored \cup {ref}
  BY <1>4, <1>7, <1>8
<1>10. Stored \cup {ref} = Stored' \cup {full[i] : i \in 1 .. drop}
  <2>1. ASSUME NEW r PROVE (\E i \in 1 .. Len(full) : full[i] = r)
                             <=> \/ \E i \in (drop + 1) .. Len(full) : full[i] = r
                                 \/ \E i \in 1 .. drop : full[i] = r
    <3>1. \A i : i \in 1 .. Len(full) <=> i \in 1 .. drop \/ i \in (drop + 1) .. Len(full)
      BY <1>3, <1>4
    <3> QED BY <3>1
  <2>2. ASSUME NEW r PROVE r \in Stored \cup {ref} <=> r \in Stored' \cup {full[i] : i \in 1 .. drop}
    <3>1. r \in {full[i] : i \in 1 .. drop} <=> \E i \in 1 .. drop : full[i] = r
      OBVIOUS
    <3>2. r \in Stored' \/ r \in {full[i] : i \in 1 .. drop} <=> \E i \in 1 .. Len(full) : full[i] = r
      BY <1>7, <2>1, <3>1
    <3> QED BY <1>8, <3>2
  <2> QED BY <2>2
<1> QED BY <1>1, <1>4, <1>5, <1>6, <1>9, <1>10 DEF ref

(* What the store holds: only results analyses have put, none of one that  *)
(* has returned, and all those of an analysis in progress but the evicted  *)
(* and the ones a twin has swept.                                          *)
Retained ==
    /\ puts \in [Executions -> 0 .. MaxPuts]
    /\ store \in Seq(Refs) /\ evicted \subseteq Refs
    /\ \A e \in Executions :
         node[e] \in {"off", "queued", "customize", "customizeCall"} => puts[e] = 0
    /\ \A ref \in Stored : ref[2] <= puts[ref[1]]
    /\ ResultsRetained

(* What is left of the types.                                              *)
Shared ==
    /\ failures \in 0 .. Threshold /\ cooled \in BOOLEAN
    /\ restarts \in 0 .. MaxRestarts

(* What a step of an analysis does to the store of results.                *)
ResultsStep(e) ==
    /\ node[e] \in Running /\ node'[e] \notin {"off", "queued"}
    /\ node'[e] \in {"customize", "customizeCall"} => node[e] \in {"customize", "customizeCall"}
    /\ \A f \in Executions \ {e} : node'[f] = node[f]
    /\ \/ UNCHANGED results /\ (node'[e] = "done" => node[e] \in {"customize", "customizeCall"})
       \/ Put(e) /\ node[e] \in Loop /\ node'[e] \in Loop
       \/ ClearTrace(Trace(e)) /\ node'[e] = "done"

LEMMA GotoResults ==
  ASSUME IInv, NEW e \in Executions, node[e] \in Running, NEW n, Goto(e, n), UNCHANGED results,
         n \notin {"off", "queued", "customize"},
         n \in {"done", "customizeCall"} => node[e] \in {"customize", "customizeCall"}
  PROVE  ResultsStep(e)
BY TypesAt DEF Goto, ResultsStep

LEMMA PutResults ==
  ASSUME IInv, NEW e \in Executions, node[e] \in Loop, NEW n \in Loop, Goto(e, n), MayPut(e)
  PROVE  ResultsStep(e)
<1>1. node[e] \in Running /\ n \in Running /\ n \notin {"off", "queued", "customize", "customizeCall", "done"}
  BY DEF Running, Analysing, Loop
<1>2. CASE UNCHANGED results
  BY <1>1, <1>2, GotoResults
<1>3. CASE Put(e)
  BY <1>1, <1>3, TypesAt DEF Goto, ResultsStep
<1> QED BY <1>2, <1>3 DEF MayPut

LEMMA FailResults ==
  ASSUME IInv, NEW e \in Executions, node[e] \in Running, Fail(e)
  PROVE  ResultsStep(e)
BY GotoResults DEF Fail

LEMMA FinishResults ==
  ASSUME IInv, NEW e \in Executions, node[e] \in Running, NEW kept, Finish(e, kept)
  PROVE  ResultsStep(e)
BY TypesAt DEF Finish, Goto, ResultsStep

LEMMA StepResults ==
  ASSUME IInv, NEW e \in Executions, AnalysisStep(e)
  PROVE  ResultsStep(e)
<1> USE DEF MoveTo
<1>1. node[e] \in Running
  BY DEF AnalysisStep, Running, Analysing, Loop, Reporting, Critic, PlanTurn, PlanEnd, PlanAnswered, PlanBusy, PlanFailed,
     PlanTools, RunTask, ExecuteEnd, Evaluate, EvaluateAnswered, EvaluateFailed, Revise, ReviseAnswered,
     ReviseFailed, Report, ReportAnswered, ReportFailed, Recover, Region, Score, Rescore,
     Verify, Customize, CustomizeReply
<1>2. CASE Fail(e)
  BY <1>1, <1>2, FailResults
<1>3. CASE PlanTurn(e) \/ PlanAnswered(e) \/ PlanBusy(e) \/ WritePlan(e)
  BY <1>1, <1>3, GotoResults DEF PlanTurn, PlanAnswered, PlanBusy, WritePlan
<1>4. CASE PlanTools(e)
  BY <1>4, PutResults DEF PlanTools, Loop
<1>5. CASE RunTask(e)
  <2>1. node' = [node EXCEPT ![e] = "execute"]
    BY <1>5, TypesAt DEF RunTask
  <2> QED BY <1>5, <2>1, PutResults DEF RunTask, Loop, Goto
<1>6. CASE ExecuteEnd(e) \/ Evaluate(e) \/ Revise(e) \/ ReviseAnswered(e) \/ ReviseFailed(e)
  BY <1>1, <1>2, <1>6, GotoResults
     DEF ExecuteEnd, Evaluate, Revise, ReviseAnswered, ReviseFailed, WriteRevision
<1>7. CASE EvaluateAnswered(e) /\ ~Fail(e)
  <2>1. PICK verdict \in Verdicts, small \in {0, flat[e] + 1} :
          /\ verdict # "model_error" /\ Goto(e, Route(e, verdict, iteration[e] + 1, small))
          /\ UNCHANGED results
    BY <1>7 DEF EvaluateAnswered
  <2>2. Route(e, verdict, iteration[e] + 1, small) \in {"report", "revise", "plan"}
    BY <2>1, RouteLeads
  <2> QED BY <1>1, <2>1, <2>2, GotoResults
<1>11. ASSUME NEW kept, EndCritic(e, kept) PROVE ResultsStep(e)
  BY <1>1, <1>11, FinishResults, GotoResults DEF EndCritic
<1>8. CASE Written(e)
  BY <1>1, <1>8, <1>11, GotoResults DEF Written
<1>9. CASE Report(e) \/ ReportAnswered(e) \/ ReportFailed(e) \/ Region(e)
  BY <1>1, <1>8, <1>9, GotoResults DEF Report, ReportAnswered, ReportFailed, Region, CheckRegions
<1>10. CASE Recover(e)
  <2>1. CASE UNCHANGED <<node, results>>
    <3>1. Goto(e, "recover")
      BY <1>10, <2>1, TypesAt DEF Goto, Recover
    <3> QED BY <1>1, <2>1, <3>1, GotoResults
  <2> QED BY <1>1, <1>8, <1>10, <2>1, GotoResults DEF Recover, CheckRegions
<1>12. CASE Score(e) \/ Rescore(e)
  BY <1>1, <1>11, <1>12, GotoResults DEF Score, Rescore
<1>13. CASE Verify(e)
  BY <1>1, <1>13, FinishResults DEF Verify
<1>14. CASE Customize(e) \/ CustomizeReply(e)
  BY <1>1, <1>14, GotoResults DEF Customize, CustomizeReply
<1> QED BY <1>2, <1>3, <1>4, <1>5, <1>6, <1>7, <1>8, <1>9, <1>10, <1>12, <1>13, <1>14
        DEF AnalysisStep, PlanEnd, PlanFailed, EvaluateFailed

LEMMA StoredRefs ==
  ASSUME Retained, NEW r \in Stored
  PROVE  /\ r[1] \in Executions /\ r[2] \in 1 .. MaxPuts
         /\ r[2] <= puts[r[1]] /\ node[r[1]] # "done"
<1>1. r \in Refs
  BY DEF Retained, Stored
<1> QED BY <1>1 DEF Retained, ResultsRetained, Refs

(* Steps that leave the results alone, and end no analysis that put any.   *)
LEMMA ResultsStay ==
  ASSUME Retained, UNCHANGED results,
         \A e \in Executions :
            \/ node'[e] = node[e]
            \/ /\ node'[e] \in {"off", "queued", "customize", "customizeCall", "done"} => puts[e] = 0
               /\ node'[e] \in Running => node[e] \in Running \/ puts[e] = 0
               /\ node[e] # "done"
  PROVE  Retained'
<1>1. puts' = puts /\ store' = store /\ evicted' = evicted /\ Stored' = Stored
  BY DEF results, Stored
<1>2. ASSUME NEW e \in Executions, node'[e] \in {"off", "queued", "customize", "customizeCall"}
      PROVE  puts'[e] = 0
  BY <1>1, <1>2 DEF Retained
<1>3. ASSUME NEW e \in Executions, node'[e] \in Running, NEW n \in 1 .. puts'[e]
      PROVE  \/ <<e, n>> \in Stored' \cup evicted'
             \/ \E f \in Executions : Twins(e, f) /\ node'[f] = "done"
  <2>1. puts[e] \in Nat /\ puts[e] # 0
    BY <1>1, <1>3, CountsAssumption DEF Retained
  <2>2. node[e] \in Running
    BY <1>3, <2>1
  <2> QED BY <1>1, <1>3, <2>2 DEF Retained, ResultsRetained
<1>4. ASSUME NEW ref \in Stored' PROVE node'[ref[1]] # "done"
  <2>1. /\ ref[1] \in Executions /\ ref[2] \in 1 .. MaxPuts
        /\ ref[2] <= puts[ref[1]] /\ node[ref[1]] # "done"
    BY <1>1, <1>4, StoredRefs
  <2>2. puts[ref[1]] # 0
    BY <2>1
  <2> QED BY <2>1, <2>2
<1> QED BY <1>1, <1>2, <1>3, <1>4 DEF Retained, ResultsRetained

LEMMA ResultsStepKeeps ==
  ASSUME IInv, Retained, NEW e \in Executions, ResultsStep(e)
  PROVE  Retained'
<1>1. CASE UNCHANGED results /\ (node'[e] = "done" => node[e] \in {"customize", "customizeCall"})
  <2>1. node[e] # "done" /\ (node[e] \in {"customize", "customizeCall"} => puts[e] = 0)
    BY DEF ResultsStep, Retained, Running, Analysing, Loop, Reporting, Critic
  <2>2. /\ node'[e] \in {"off", "queued", "customize", "customizeCall", "done"} => puts[e] = 0
        /\ node[e] \in Running
    BY <1>1, <2>1 DEF ResultsStep
  <2> QED BY <1>1, <2>1, <2>2, ResultsStay DEF ResultsStep
<1>2. CASE Put(e) /\ node[e] \in Loop /\ node'[e] \in Loop
  <2> DEFINE ref == <<e, puts[e] + 1>>
  <2>1. /\ puts' = [puts EXCEPT ![e] = @ + 1] /\ puts[e] < MaxPuts
        /\ store' \in Seq(Refs) /\ evicted' \subseteq Refs
        /\ Stored' \cup evicted' = Stored \cup evicted \cup {ref}
        /\ Stored' \subseteq Stored \cup {ref}
        /\ Len(store') <= Capacity \/ Len(store') <= 1
    BY <1>2, PutKeepsRefs DEF Retained
  <2>2. puts' \in [Executions -> 0 .. MaxPuts] /\ puts'[e] = puts[e] + 1 /\ puts[e] \in Nat
    BY <2>1, CountsAssumption DEF Retained
  <2>3. \A f \in Executions \ {e} : puts'[f] = puts[f] /\ node'[f] = node[f]
    BY <2>1 DEF Retained, ResultsStep
  <2>4. /\ node[e] \notin {"off", "queued", "customize", "customizeCall", "done"}
        /\ node'[e] \notin {"off", "queued", "customize", "customizeCall", "done"}
        /\ node[e] \in Running
    BY <1>2 DEF Running, Analysing, Loop
  <2>5. ASSUME NEW f \in Executions, node'[f] \in {"off", "queued", "customize", "customizeCall"}
        PROVE  puts'[f] = 0
    BY <2>3, <2>4, <2>5 DEF Retained
  <2>6. ASSUME NEW r \in Stored' PROVE r[2] <= puts'[r[1]] /\ node'[r[1]] # "done"
    <3>1. CASE r = ref
      BY <2>2, <2>4, <3>1
    <3>2. CASE r \in Stored
      <4>1. /\ r[1] \in Executions /\ r[2] \in 1 .. MaxPuts
            /\ r[2] <= puts[r[1]] /\ node[r[1]] # "done"
        BY <3>2, StoredRefs
      <4>2. CASE r[1] = e
        BY <2>2, <2>4, <4>1, <4>2
      <4>3. CASE r[1] # e
        BY <2>3, <4>1, <4>3
      <4> QED BY <4>2, <4>3
    <3> QED BY <2>1, <3>1, <3>2
  <2>7. ASSUME NEW f \in Executions, node'[f] \in Running, NEW n \in 1 .. puts'[f]
        PROVE  \/ <<f, n>> \in Stored' \cup evicted'
               \/ \E g \in Executions : Twins(f, g) /\ node'[g] = "done"
    <3>1. CASE <<f, n>> = ref
      BY <2>1, <3>1
    <3>2. CASE <<f, n>> # ref
      <4>1. node[f] \in Running /\ n \in 1 .. puts[f]
        BY <2>2, <2>3, <2>4, <2>7, <3>2
      <4>2. \/ <<f, n>> \in Stored \cup evicted
            \/ \E g \in Executions : Twins(f, g) /\ node[g] = "done"
        BY <4>1 DEF Retained, ResultsRetained
      <4>3. \A g \in Executions : node[g] = "done" => node'[g] = "done"
        BY <2>3, <2>4
      <4> QED BY <2>1, <4>2, <4>3
    <3> QED BY <3>1, <3>2
  <2> QED BY <2>1, <2>2, <2>5, <2>6, <2>7 DEF Retained, ResultsRetained
<1>3. CASE ClearTrace(Trace(e)) /\ node'[e] = "done"
  <2>1. /\ store' \in Seq(Refs) /\ UNCHANGED <<puts, evicted>>
        /\ Stored' = {ref \in Stored : Trace(ref[1]) # Trace(e)}
    BY <1>3, ClearTraceClears DEF Retained
  <2>0. Len(store') <= Capacity \/ Len(store') <= 1
    <3>1. Len(store') <= Len(store) /\ Len(store') \in Nat /\ Len(store) \in Nat
      BY <1>3, <2>1, ClearTraceClears DEF Retained
    <3> QED BY <3>1, CountsAssumption DEF Retained, ResultsRetained
  <2>2. /\ \A f \in Executions \ {e} : node'[f] = node[f]
        /\ node'[e] \notin {"off", "queued", "customize", "customizeCall"} \cup Running
    BY <1>3 DEF ResultsStep, Running, Analysing, Loop, Reporting, Critic
  <2>3. ASSUME NEW f \in Executions, node'[f] \in {"off", "queued", "customize", "customizeCall"}
        PROVE  puts'[f] = 0
    BY <2>1, <2>2, <2>3 DEF Retained
  <2>4. ASSUME NEW r \in Stored' PROVE r[2] <= puts'[r[1]] /\ node'[r[1]] # "done"
    <3>1. r \in Stored /\ r[1] # e
      BY <2>1
    <3>2. r[1] \in Executions /\ r[2] <= puts[r[1]] /\ node[r[1]] # "done"
      BY <3>1, StoredRefs
    <3> QED BY <2>1, <2>2, <3>1, <3>2
  <2>5. ASSUME NEW f \in Executions, node'[f] \in Running, NEW n \in 1 .. puts'[f]
        PROVE  \/ <<f, n>> \in Stored' \cup evicted'
               \/ \E g \in Executions : Twins(f, g) /\ node'[g] = "done"
    <3>1. f # e /\ node[f] \in Running /\ n \in 1 .. puts[f]
      BY <2>1, <2>2, <2>5
    <3>2. CASE Trace(f) = Trace(e)
      BY <1>3, <3>1, <3>2 DEF Twins
    <3>3. CASE Trace(f) # Trace(e)
      <4>1. \/ <<f, n>> \in Stored \cup evicted
            \/ \E g \in Executions : Twins(f, g) /\ node[g] = "done"
        BY <3>1 DEF Retained, ResultsRetained
      <4>2. CASE <<f, n>> \in Stored \cup evicted
        BY <2>1, <3>3, <4>2
      <4>3. CASE \E g \in Executions : Twins(f, g) /\ node[g] = "done"
        <5>1. PICK g \in Executions : Twins(f, g) /\ node[g] = "done"
          BY <4>3
        <5>2. g # e
          BY <3>3, <5>1 DEF Twins
        <5> QED BY <2>2, <5>1, <5>2
      <4> QED BY <4>1, <4>2, <4>3
    <3> QED BY <3>2, <3>3
  <2> QED BY <2>0, <2>1, <2>3, <2>4, <2>5 DEF Retained, ResultsRetained
<1> QED BY <1>1, <1>2, <1>3 DEF ResultsStep

LEMMA InitRetained == Init => Retained /\ Shared
<1> SUFFICES ASSUME Init PROVE Retained /\ Shared
  OBVIOUS
<1>1. store = <<>> /\ Stored = {}
  BY DEF Init, AnalysisInit, FreshProcess, Stored
<1>2. store \in Seq(Refs)
  BY <1>1
<1>3. Retained
  <2>1. /\ node = [e \in Executions |-> "off"] /\ puts = [e \in Executions |-> 0] /\ evicted = {}
    BY DEF Init, AnalysisInit
  <2>2. \A e \in Executions : node[e] \notin Running
    BY <2>1 DEF Running, Analysing, Loop, Reporting, Critic
  <2> QED BY <1>1, <1>2, <2>1, <2>2, CountsAssumption DEF Retained, ResultsRetained
<1>4. Shared
  <2>1. failures \in 0 .. Threshold /\ restarts \in 0 .. MaxRestarts
    BY CountsAssumption, BoundsAssumption DEF Init, AnalysisInit, FreshProcess
  <2>2. cooled \in BOOLEAN
    BY DEF Init, AnalysisInit, FreshProcess
  <2> QED BY <2>1, <2>2 DEF Shared
<1> QED BY <1>3, <1>4

LEMMA NextRetained ==
  ASSUME IInv, Retained, [Next]_vars
  PROVE  Retained'
<1>1. ASSUME NEW e \in Executions, Work(e) PROVE Retained'
  BY <1>1, StepResults, ResultsStepKeeps DEF Work
<1>2. ASSUME NEW e \in Executions, Begin(e) \/ Cancelled(e) PROVE Retained'
  <2>1. PICK n \in {"failed", "plan", "customize"} : node' = [node EXCEPT ![e] = n] /\ UNCHANGED results
    <3>1. kind[Trace(e)] \in Kinds
      BY DEF IInv, ClientTyped, Executions, Trace
    <3> QED BY <1>2, <3>1 DEF Begin, Cancelled, Kinds, Fail, Enter, MoveTo, Goto
  <2>2. node[e] = "queued" /\ puts[e] = 0
    BY <1>2 DEF Begin, Cancelled, Retained
  <2>3. node'[e] = n /\ \A f \in Executions \ {e} : node'[f] = node[f]
    BY <2>1, TypesAt
  <2> QED BY <2>1, <2>2, <2>3, ResultsStay DEF Running, Analysing, Loop, Reporting, Critic
<1>3. ASSUME NEW c \in Callers, Send(c) PROVE Retained'
  <2> DEFINE e == <<c, attempt[c] + 1>>
  <2>1. attempt[c] + 1 \in 1 .. MaxAttempts
    BY <1>3, CountsAssumption DEF IInv, ClientTyped, Send
  <2>2. e \in Executions /\ node[e] = "off"
    BY <1>3, <2>1 DEF IInv, ClientTyped, Executions, Trace, Send
  <2>3. node' = [node EXCEPT ![e] = "queued"] /\ UNCHANGED results
    BY <1>3 DEF Send, Goto
  <2> HIDE DEF e
  <2>4. node'[e] = "queued" /\ puts[e] = 0 /\ \A f \in Executions \ {e} : node'[f] = node[f]
    BY <2>2, <2>3, TypesAt DEF Retained
  <2> QED BY <2>2, <2>3, <2>4, ResultsStay DEF Running, Analysing, Loop, Reporting, Critic
<1>4. CASE UNCHANGED <<node, results>>
  BY <1>4, ResultsStay
<1>5. CASE Restart
  <2>1. /\ store' = <<>> /\ UNCHANGED <<puts, evicted>>
        /\ node' = [e \in Executions |-> IF node[e] \in {"queued"} \cup Running THEN "failed" ELSE node[e]]
    BY <1>5 DEF Restart
  <2>2. store' \in Seq(Refs) /\ Stored' = {} /\ Len(store') <= 1
    BY <2>1 DEF Stored
  <2>3. ASSUME NEW e \in Executions
        PROVE  (node'[e] = node[e] /\ node[e] \notin Running) \/ node'[e] = "failed"
    BY <2>1
  <2>4. \A e \in Executions : node'[e] \notin Running
    BY <2>3 DEF Running, Analysing, Loop, Reporting, Critic
  <2>5. \A e \in Executions :
          node'[e] \in {"off", "queued", "customize", "customizeCall"} => puts'[e] = 0
    BY <2>1, <2>3 DEF Retained
  <2> QED BY <2>1, <2>2, <2>4, <2>5 DEF Retained, ResultsRetained
<1> QED BY <1>1, <1>2, <1>3, <1>4, <1>5
        DEF Next, Done, Transient, Refused, Answer, CoolBreaker, Cool, vars, analysisVars

LEMMA NextShared ==
  ASSUME IInv, Shared, [Next]_vars
  PROVE  Shared'
<1> USE CountsAssumption, BoundsAssumption
<1>1. ASSUME NEW e \in Executions, Work(e) PROVE Shared'
  <2>1. UNCHANGED breaker \/ RecordSuccess \/ RecordFailure
    BY <1>1 DEF Work, AnalysisStep, PlanTurn, PlanEnd, PlanAnswered, PlanBusy, PlanFailed, PlanTools,
       RunTask, ExecuteEnd, Evaluate, EvaluateAnswered, EvaluateFailed, Revise, ReviseAnswered,
       ReviseFailed, Report, ReportAnswered, ReportFailed, Recover, Region, Score, Rescore,
       Verify, Customize, CustomizeReply
  <2>2. failures' \in 0 .. Threshold
    BY <2>1 DEF Shared, breaker, RecordSuccess, RecordFailure
  <2>3. cooled' \in BOOLEAN
    BY <2>1 DEF Shared, breaker, RecordSuccess, RecordFailure
  <2> QED BY <1>1, <2>2, <2>3 DEF Work, Shared
<1>2. ASSUME UNCHANGED <<breaker, restarts>> PROVE Shared'
  BY <1>2 DEF Shared, breaker
<1>3. ASSUME NEW c \in Callers, Send(c) \/ Transient(c) \/ Refused(c) \/ Answer(c) PROVE Shared'
  BY <1>2, <1>3 DEF Send, Transient, Refused, Answer, analysisVars
<1>4. CASE CoolBreaker
  BY <1>4 DEF CoolBreaker, Cool, Shared
<1>5. CASE Restart
  <2>1. failures' \in 0 .. Threshold /\ restarts' \in 0 .. MaxRestarts
    BY <1>5 DEF Restart, Shared
  <2>2. cooled' \in BOOLEAN
    BY <1>5 DEF Restart
  <2> QED BY <2>1, <2>2 DEF Shared
<1>6. CASE UNCHANGED vars
  BY <1>2, <1>6 DEF vars, analysisVars
<1> QED BY <1>1, <1>2, <1>3, <1>4, <1>5, <1>6 DEF Next, Done, Begin, Cancelled

THEOREM ResultsInvariance == Spec => [](IInv /\ Retained /\ Shared)
<1>1. IInv /\ Retained /\ Shared /\ [Next]_vars => (Retained /\ Shared)'
  BY NextRetained, NextShared
<1> QED BY <1>1, InitIInv, InitRetained, NextIInv, PTL DEF Spec

(* The types, and with them the bounds of iterations and report versions.  *)
THEOREM TypesHold == Spec => []TypeOK
<1>1. IInv /\ Retained /\ Shared => TypeOK
  <2> SUFFICES ASSUME IInv, Retained, Shared PROVE TypeOK
    OBVIOUS
  <2>1. iteration \in [Executions -> 0 .. MaxIterations + 1]
    BY CountsAssumption DEF IInv, Typed, Placed, BoundedAt
  <2>2. drafts \in [Executions -> 0 .. 2]
    <3>1. drafts \in [Executions -> Nat] /\ \A e \in Executions : drafts[e] <= 2
      BY DEF IInv, Typed, Placed, ReviewedAt
    <3> QED BY <3>1
  <2>3. Typed /\ Retained /\ Shared
    BY DEF IInv
  <2>4. AnalysisTypeOK
    BY <2>1, <2>2, <2>3 DEF Typed, Retained, Shared, Refs, AnalysisTypeOK
  <2> QED BY <2>4 DEF IInv, ClientTyped, Shared, TypeOK
<1> QED BY <1>1, ResultsInvariance, PTL

(* ResultsRetained for any number of requests, retries and restarts, and a *)
(* store of any capacity.                                                  *)
THEOREM ResultsAreRetained == Spec => []ResultsRetained
<1>1. Retained => ResultsRetained
  BY DEF Retained
<1> QED BY <1>1, ResultsInvariance, PTL
=============================================================================
