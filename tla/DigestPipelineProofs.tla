------------------------ MODULE DigestPipelineProofs ------------------------
(***************************************************************************)
(* The joint between the two models of a run: what a run of DigestRun does *)
(* after it has selected, with its tasks, limits, archive and mail, is     *)
(* what DigestService takes a run to do, the condition included under      *)
(* which it reports.  So what is proved of DigestService, with any number  *)
(* of overlapping runs, is proved of runs as execute_run executes them.    *)
(***************************************************************************)
EXTENDS DigestRunProofs

CONSTANT Now    \* the clock, which the steps of a run that selected do not read

(* The runs DigestService is about move the window; all they select has a   *)
(* date.  Its updates are the positions of the target list, which is in the *)
(* order Before.                                                            *)
MovesWindow == commits /\ ~dryRun

Dated == {i \in Positions : Date[i] # 0}

OneRun == {"run"}

ServiceStage ==
    CASE stage = "select" -> "fetching"
      [] stage \in {"analyze", "digest"} -> "working"
      [] stage = "commit" -> "reported"
      [] OTHER -> "idle"

(* What a run keeps until it is over.                                       *)
Kept(S) == [r \in OneRun |-> IF stage = "done" THEN {} ELSE S]

(* The digest stage is past, and its items with it.                         *)
Given == stage = "commit" \/ status \in {"completed", "partial"}

Fate ==
    [i \in Dated |->
        IF outcome[i] = "failed" \/ (Given /\ i \in digestItems) THEN "settled"
        ELSE IF committed /\ i \in Targets \ finished /\ Date[i] = watermark THEN "tied"
        ELSE "open"]

Service == INSTANCE DigestService WITH
    Updates <- Dated, Date <- [i \in Dated |-> Date[i]],
    Jobs <- OneRun, ApiRuns <- {},
    Lookback <- 0, MaxTime <- Now, MaxReadFaults <- 0, MaxFaults <- 1, MaxResets <- 0,
    now <- Now, feed <- Targets, checkpoint <- stored, resets <- 0,
    stage <- [r \in OneRun |-> ServiceStage],
    since <- [r \in OneRun |-> 0],
    targets <- Kept(Targets), finished <- Kept(finished), items <- Kept(digestItems),
    fate <- Fate,
    readFaults <- 0, faults <- IF stage = "done" /\ ~committed THEN 1 ELSE 0

(* Once it has selected, a run that moves the window does what a run of     *)
(* DigestService does, or nothing DigestService sees.                       *)
RunIsServiceRun ==
    [][MovesWindow /\ stage # "select" =>
          \/ Service!Finish("run") \/ Service!Report("run")
          \/ Service!Commit("run") \/ Service!Abort("run")
          \/ UNCHANGED Service!vars]_vars

-----------------------------------------------------------------------------
(* What the mapping makes of a run *)

(* Chronological targets come in the order of their positions.              *)
LEMMA PositionsAreOrdered ==
    ASSUME NEW i \in Dated, NEW j \in Dated
    PROVE  /\ i \in Nat /\ j \in Nat /\ Date[i] \in Nat /\ Date[j] \in Nat
           /\ Service!Before(i, j) <=> i < j
  <1>1. i \in Positions /\ j \in Positions /\ i \in Nat /\ j \in Nat
    BY DEF Dated, Positions
  <1>2. Date[i] \in Nat /\ Date[j] \in Nat
    BY <1>1, DateAssumption
  <1>3. (i < j => Date[i] <= Date[j]) /\ (j < i => Date[j] <= Date[i])
    BY <1>1, DateAssumption DEF Dated
  <1>4. Service!Before(i, j) <=> Date[i] < Date[j] \/ (Date[i] = Date[j] /\ i < j)
    BY DEF Service!Before
  <1> QED
    BY <1>1, <1>2, <1>3, <1>4

(* The targets of a run that moves the window have dates, and until it ends *)
(* it has committed nothing.                                                *)
CommitsLast == committed => stage = "done"

LEMMA TargetsAreDated ==
    ASSUME IInv, MovesWindow
    PROVE  Targets \subseteq Dated /\ finished \subseteq Targets /\ digestItems \subseteq finished
  BY TargetSets
     DEF IInv, StagesFit, CursorFits, FinishedIsAccountedFor, MovesWindow, Dated

LEMMA InitCommitsLast == Init => CommitsLast
  BY DEF Init, CommitsLast

LEMMA NextCommitsLast == CommitsLast /\ [Next]_vars => CommitsLast'
  BY DEF CommitsLast, Next, Select, BudgetRunsOut, Gathered, SendDigest, Commit, End, Analyze,
         Enter, Recheck, AnalysisFails, AnalysisSucceeds, Leave, ArchiveStores, ArchiveFails,
         result, vars

(* The unbroken prefix of DigestService is that of RunWindow.               *)
LEMMA PrefixesAgree ==
    ASSUME IInv, MovesWindow, stage # "done"
    PROVE  Service!Prefix("run") = Window!Prefix(finished)
  <1>1. /\ Targets \subseteq Dated /\ finished \subseteq Targets
        /\ Targets = 1..total /\ Positions = 1..MaxTargets /\ Targets \subseteq Positions
        /\ total \in Nat /\ MaxTargets \in Nat
    BY TargetsAreDated, TargetSets, TargetsAssumption DEF IInv, Targets, Positions
  <1>2. Service!Prefix("run") =
          {t \in finished : \A s \in Targets : Service!Before(s, t) => s \in finished}
    BY DEF Service!Prefix, Kept, OneRun, Service!Before
  <1>3. \A t \in finished, s \in Targets : Service!Before(s, t) <=> s < t
    BY <1>1, PositionsAreOrdered
  <1>4. \A t \in finished, s \in Positions : s < t => s \in Targets
    BY <1>1
  <1>5. Window!Prefix(finished) = {t \in finished : \A s \in Positions : s < t => s \in finished}
    BY DEF Window!Prefix
  <1>6. \A t \in finished :
          (\A s \in Targets : Service!Before(s, t) => s \in finished)
            <=> (\A s \in Positions : s < t => s \in finished)
    BY <1>1, <1>3, <1>4
  <1> QED
    BY <1>2, <1>5, <1>6

-----------------------------------------------------------------------------
(* The steps *)


(* Nothing DigestService sees changes.                                      *)
LEMMA StutterMaps ==
    ASSUME ServiceStage' = ServiceStage, Given' = Given, stage # "done", stage' # "done",
           UNCHANGED <<total, finished, digestItems, stored, committed, watermark>>,
           \A i \in Dated : outcome'[i] = "failed" <=> outcome[i] = "failed"
    PROVE  UNCHANGED Service!vars
  <1>1. Fate' = Fate
    BY DEF Fate, Targets
  <1>2. Kept(Targets)' = Kept(Targets) /\ Kept(finished)' = Kept(finished)
        /\ Kept(digestItems)' = Kept(digestItems)
    BY DEF Kept, Targets
  <1> QED
    BY <1>1, <1>2 DEF Service!vars, Service!external, Service!register, Service!runs,
                      Service!counts, Targets

(* A task that ends with a result, or with its failure isolated, is one     *)
(* target finished.                                                         *)
LEMMA FinishMaps ==
    ASSUME IInv, MovesWindow, stage = "analyze", NEW i \in Targets, i \notin finished,
           status = "running", ~committed,
           UNCHANGED <<stage, status, total, stored, committed>>,
           finished' = finished \cup {i},
           \/ digestItems' = digestItems \cup {i} /\ outcome' = outcome
           \/ digestItems' = digestItems /\ outcome' = [outcome EXCEPT ![i] = "failed"]
    PROVE  Service!Finish("run")
  <1>1. i \in Dated /\ outcome \in [Positions -> TaskOutcomes] /\ Dated \subseteq Positions
    BY TargetsAreDated DEF IInv, TypeOK, Dated
  <1>2. Kept(finished)' = [Kept(finished) EXCEPT !["run"] = @ \cup {i}]
    BY DEF Kept, OneRun
  <1>3. CASE digestItems' = digestItems \cup {i} /\ outcome' = outcome
    <2>1. Kept(digestItems)' = [Kept(digestItems) EXCEPT !["run"] = @ \cup {i}]
      BY <1>3 DEF Kept, OneRun
    <2>2. Fate' = Fate
      BY <1>3 DEF Fate, Given
    <2> QED
      BY <1>1, <1>2, <2>1, <2>2
         DEF Service!Finish, Service!external, Service!register, Service!counts, Kept, OneRun,
             ServiceStage, Targets
  <1>4. CASE digestItems' = digestItems /\ outcome' = [outcome EXCEPT ![i] = "failed"]
    <2>1. Kept(digestItems)' = Kept(digestItems)
      BY <1>4 DEF Kept
    <2>2. Service!Settle({i})
      <3>1. \A j \in Dated : outcome'[j] = IF j = i THEN "failed" ELSE outcome[j]
        BY <1>1, <1>4
      <3> QED
        BY <1>1, <1>4, <3>1 DEF Service!Settle, Fate, Given
    <2> QED
      BY <1>1, <1>2, <2>1, <2>2
         DEF Service!Finish, Service!external, Service!register, Service!counts, Kept, OneRun,
             ServiceStage, Targets
  <1> QED
    BY <1>3, <1>4

LEMMA TaskMaps ==
    ASSUME IInv, CommitsLast, MovesWindow, NEW i \in Targets, Analyze(i)
    PROVE  Service!Finish("run") \/ UNCHANGED Service!vars
  <1>1. /\ stage = "analyze" /\ status = "running" /\ ~committed
        /\ UNCHANGED <<stage, status, total, stored, committed>>
        /\ i \in Positions /\ outcome \in [Positions -> TaskOutcomes]
    BY TargetSets
       DEF IInv, TypeOK, StagesFit, CommitsLast, Analyze, Enter, Recheck, AnalysisFails, AnalysisSucceeds,
           Leave, ArchiveStores, ArchiveFails, result
  <1>2. CASE AnalysisFails(i) \/ ArchiveStores(i)
    <2>1. i \notin finished
      BY <1>1, <1>2 DEF IInv, TasksFit, FinishedIsAccountedFor, AnalysisFails, ArchiveStores
    <2> QED
      BY <1>1, <1>2, <2>1, FinishMaps
         DEF AnalysisFails, ArchiveStores, CursorFinish
  <1>3. CASE Enter(i) \/ Recheck(i) \/ AnalysisSucceeds(i) \/ Leave(i) \/ ArchiveFails(i)
    <2>1. UNCHANGED <<finished, digestItems, watermark>>
      BY <1>3 DEF Enter, Recheck, AnalysisSucceeds, Leave, ArchiveFails, progress
    <2>2. /\ outcome[i] # "failed" \/ outcome' = outcome
          /\ \/ outcome' = outcome
             \/ \E how \in {"ok", "halted", "deferred", "archiveFailed"} :
                   outcome' = [outcome EXCEPT ![i] = how]
      BY <1>1, <1>3 DEF IInv, TasksFit, Enter, Recheck, Gate, AnalysisSucceeds, Leave,
                        ArchiveFails, EndTask
    <2>3. \A j \in Dated : outcome'[j] = "failed" <=> outcome[j] = "failed"
      BY <1>1, <2>2 DEF Dated
    <2> QED
      BY <1>1, <2>1, <2>3, StutterMaps DEF ServiceStage, Given
  <1> QED
    BY <1>2, <1>3 DEF Analyze

(* A run that is given up ends as a fault of DigestService.                 *)
LEMMA AbortMaps ==
    ASSUME IInv, stage \in {"analyze", "digest", "commit"}, stage' = "done",
           ~committed, ~committed',
           UNCHANGED <<total, stored>>, Fate' = Fate
    PROVE  Service!Abort("run")
  <1>1. /\ Kept(Targets)' = [Kept(Targets) EXCEPT !["run"] = {}]
        /\ Kept(finished)' = [Kept(finished) EXCEPT !["run"] = {}]
        /\ Kept(digestItems)' = [Kept(digestItems) EXCEPT !["run"] = {}]
    BY DEF Kept, OneRun
  <1>2. Service!Forget("run")
    BY <1>1 DEF Service!Forget, OneRun, ServiceStage
  <1> QED
    BY <1>2 DEF Service!Abort, Service!external, Service!register, OneRun, ServiceStage, Targets

(* A run that goes on to its commit has finished its oldest target: the     *)
(* guard of DigestService!Report.                                           *)
LEMMA ReportMaps ==
    ASSUME IInv, CommitsLast, MovesWindow, stage \in {"analyze", "digest"}, stage' = "commit",
           status' = "running", status = "running", 1 \in finished,
           UNCHANGED <<total, outcome, finished, digestItems, stored, committed>>
    PROVE  Service!Report("run")
  <1>1. 1 \in Targets /\ Targets \subseteq Dated /\ ~committed
    BY TargetsAreDated DEF CommitsLast
  <1>2. 1 \in Service!Prefix("run")
    <2>1. \A s \in Targets : ~Service!Before(s, 1)
      BY <1>1, PositionsAreOrdered DEF Targets
    <2> QED
      BY <1>1, <2>1 DEF Service!Prefix, Kept, OneRun, Service!Before
  <1>3. Service!Settle(Kept(digestItems)["run"])
    BY <1>1 DEF Service!Settle, Kept, OneRun, Fate, Given
  <1>4. UNCHANGED <<Kept(Targets), Kept(finished), Kept(digestItems)>>
    BY DEF Kept, Targets
  <1> QED
    BY <1>2, <1>3, <1>4
       DEF Service!Report, Service!Move, Service!external, Service!register, Service!counts,
           OneRun, ServiceStage, Targets

LEMMA StageMaps ==
    ASSUME IInv, IInv', CommitsLast, MovesWindow, Gathered \/ SendDigest
    PROVE  \/ Service!Report("run") \/ Service!Abort("run")
           \/ UNCHANGED Service!vars
  <1>1. /\ stage \in {"analyze", "digest"} /\ status = "running" /\ ~committed
        /\ UNCHANGED <<total, outcome, finished, digestItems, watermark, stored, committed, commits, dryRun>>
    BY DEF IInv, StagesFit, CommitsLast, Gathered, SendDigest, tasks, progress, result, options
  <1>2. CASE stage' = "done"
    <2>1. status' = "failed"
      BY <1>1, <1>2 DEF Gathered, SendDigest, End
    <2>2. Fate' = Fate
      BY <1>1, <1>2, <2>1 DEF Fate, Given
    <2> QED
      BY <1>1, <1>2, <2>2, AbortMaps
  <1>3. CASE stage' = "commit"
    <2>1. status' = "running"
      BY <1>1, <1>3 DEF Gathered, SendDigest, End
    <2>2. 1 \in finished
      <3>1. IInv' => OldestIsSettled'
        BY SettledOldest, PTL
      <3> QED
        BY <1>1, <1>3, <3>1 DEF OldestIsSettled, MovesWindow
    <2> QED
      BY <1>1, <1>3, <2>1, <2>2, ReportMaps
  <1>4. CASE stage' = "digest"
    <2>1. stage = "analyze" /\ status' = status
      BY <1>4 DEF Gathered, SendDigest, End
    <2> QED
      BY <1>1, <1>4, <2>1, StutterMaps DEF ServiceStage, Given
  <1> QED
    BY <1>2, <1>3, <1>4 DEF Gathered, SendDigest, End

LEMMA CommitMaps ==
    ASSUME IInv, CommitsLast, MovesWindow, Commit
    PROVE  Service!Commit("run") \/ Service!Abort("run")
  <1>1. /\ stage = "commit" /\ stage' = "done" /\ ~committed
        /\ status' \in {"completed", "partial"}
        /\ UNCHANGED <<total, outcome, finished, digestItems, watermark>>
        /\ watermark \in Nat /\ stored \in Nat
    BY DEF IInv, TypeOK, CommitsLast, Commit, End, tasks, progress
  <1>2. CASE UNCHANGED <<stored, committed>>
    <2>1. Fate' = Fate
      BY <1>1, <1>2 DEF Fate, Given
    <2> QED
      BY <1>1, <1>2, <2>1, AbortMaps
  <1>3. CASE watermark > stored /\ stored' = watermark /\ committed' = TRUE
    <2>1. Targets \subseteq Dated /\ finished \subseteq Targets /\ digestItems \subseteq finished
          /\ Targets' = Targets
      BY <1>1, TargetsAreDated DEF Targets
    <2>2. /\ watermark \in {Date[i] : i \in Window!Prefix(finished)}
          /\ Window!Newest(Window!Prefix(finished), watermark)
      BY <1>1, <1>3, WatermarkIsNewest DEF MovesWindow
    <2>3. PICK t \in Service!Prefix("run") : Date[t] = watermark
      BY <1>1, <2>2, PrefixesAgree
    <2>4. \A s \in Service!Prefix("run") : Date[s] <= watermark
      BY <1>1, <2>2, PrefixesAgree DEF Window!Newest
    <2>5. Service!Prefix("run") \subseteq finished
      BY <1>1 DEF Service!Prefix, Kept, OneRun
    <2>6. Service!Excuse({u \in Targets \ finished : Date[u] = watermark}, "tied")
      <3>1. \A u \in Targets \ finished : outcome[u] # "failed" /\ u \notin digestItems
        BY <2>1 DEF IInv, FinishedIsAccountedFor
      <3> QED
        BY <1>1, <1>3, <2>1, <3>1 DEF Service!Excuse, Fate, Given
    <2>7. Service!Forget("run")
      <3>1. /\ Kept(Targets)' = [Kept(Targets) EXCEPT !["run"] = {}]
            /\ Kept(finished)' = [Kept(finished) EXCEPT !["run"] = {}]
            /\ Kept(digestItems)' = [Kept(digestItems) EXCEPT !["run"] = {}]
        BY <1>1 DEF Kept, OneRun
      <3> QED
        BY <1>1, <3>1 DEF Service!Forget, OneRun, ServiceStage
    <2>8. Service!Register!Raise
      BY <1>1, <1>3 DEF Service!Register!Raise
    <2> QED
      BY <1>1, <1>3, <2>1, <2>3, <2>4, <2>5, <2>6, <2>7, <2>8
         DEF Service!Commit, Service!external, Service!counts, OneRun, ServiceStage, Kept, Targets
  <1> QED
    BY <1>2, <1>3 DEF Commit

(* A run of DigestRun, for any number of targets, slots and failures, is a  *)
(* run of DigestService: execute_run finishes targets of the window one by  *)
(* one, reports only with its oldest finished, and commits no more than the *)
(* date of its unbroken prefix.                                             *)
THEOREM RunsAreServiceRuns == Spec => RunIsServiceRun
  <1> DEFINE Mapped ==
               \/ Service!Finish("run") \/ Service!Report("run")
               \/ Service!Commit("run") \/ Service!Abort("run")
               \/ UNCHANGED Service!vars
  <1>1. ASSUME IInv, IInv', CommitsLast, MovesWindow, stage # "select", Next PROVE Mapped
    <2>1. CASE BudgetRunsOut
      <3>1. UNCHANGED <<stage, status, total, outcome, finished, digestItems, stored, committed, watermark>>
            /\ stage = "analyze"
        BY <2>1 DEF BudgetRunsOut, tasks, progress, result
      <3> QED
        BY <3>1, StutterMaps DEF ServiceStage, Given
    <2>2. ~Select
      BY <1>1 DEF Select
    <2> QED
      BY <1>1, <2>1, <2>2, TaskMaps, StageMaps, CommitMaps DEF Next
  <1>2. IInv /\ IInv' /\ CommitsLast /\ [Next]_vars
          => [MovesWindow /\ stage # "select" => Mapped]_vars
    BY <1>1
  <1>3. Spec => []CommitsLast
    BY InitCommitsLast, NextCommitsLast, PTL DEF Spec
  <1> QED
    BY <1>2, <1>3, Invariance, PTL DEF Spec, RunIsServiceRun
=============================================================================
