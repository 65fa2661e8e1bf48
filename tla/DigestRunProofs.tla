--------------------------- MODULE DigestRunProofs ---------------------------
(***************************************************************************)
(* Proofs about DigestRun, for any number of targets, slots and failures   *)
(* in a row, and any dates: the watermark covers only processed targets,   *)
(* the cutoff is bounded and final, the run implements RunWindow, its      *)
(* tasks neither wait on one another for ever nor go on without end, and   *)
(* what it commits is accounted for.                                       *)
(***************************************************************************)
EXTENDS DigestRun, FiniteSetTheorems, TLAPS

Running == {i \in Targets : task[i] \in {"analyzing", "leaving"}}
Analyzing == {i \in Targets : task[i] = "analyzing"}

(* The counters count what they are for.                                    *)
CountersFit ==
    /\ active = Cardinality(Running)
    /\ Cardinality(Holding) <= MaxConcurrentAnalyses
    /\ consecutive <= Cardinality(Ended("failed"))

(* How far a task is tells how it ended, and whether it has a result.       *)
TasksFit ==
    \A i \in Positions :
        /\ task[i] \in {"queued", "waiting", "woken", "analyzing"} => outcome[i] = "none"
        /\ task[i] = "leaving" => outcome[i] \in {"ok", "failed"}
        /\ task[i] = "archiving" => outcome[i] = "ok"
        /\ task[i] # "done" => i \notin digestItems
        /\ i \in digestItems => outcome[i] = "ok"
        /\ task[i] = "done" => outcome[i] # "none"
        /\ task[i] = "done" /\ outcome[i] = "ok" => i \in digestItems

(* Tasks move only while the run analyzes.                                  *)
StagesFit ==
    /\ stage = "select" =>
            /\ status = "queued" /\ total = 0 /\ active = 0 /\ consecutive = 0
            /\ ~halted /\ inBudget
            /\ finished = {} /\ digestItems = {} /\ cursor = 0 /\ watermark = 0
            /\ \A i \in Positions : task[i] = "queued" /\ outcome[i] = "none"
    /\ stage \in {"analyze", "digest", "commit"} => status = "running"
    /\ stage \in {"analyze", "digest", "commit"} => total > 0
    /\ stage \in {"analyze", "digest"} => ~dryRun
    /\ stage = "done" => status \in {"completed", "partial", "failed"}
    /\ stage # "analyze" => \A i \in Targets : task[i] \in {"queued", "done"}
    /\ stage \in {"digest", "commit"} /\ ~dryRun =>
            \A i \in Targets : task[i] = "done" /\ outcome[i] # "archiveFailed"
    /\ commits => \A i \in Targets : Date[i] # 0

(* The cursor is the end of the unbroken prefix, the watermark its newest   *)
(* date.                                                                    *)
CursorFits ==
    /\ finished \subseteq Targets /\ digestItems \subseteq Targets
    /\ \A i \in Targets : i <= cursor => i \in finished
    /\ cursor = total \/ cursor + 1 \notin finished
    /\ watermark = 0 \/ \E i \in Targets : i <= cursor /\ Date[i] = watermark
    /\ commits => \A i \in Targets : i <= cursor => Date[i] <= watermark

(* The oldest target is the first to pass the gate, and never turned away.  *)
OldestFits ==
    1 \in Targets =>
        /\ task[1] = "queued" =>
                /\ inBudget /\ consecutive = 0 /\ ~halted
                /\ \A i \in Targets : task[i] = "queued"
        /\ task[1] \notin {"waiting", "woken"}
        /\ outcome[1] \notin {"halted", "deferred"}

IInv == /\ TypeOK
        /\ CountersFit
        /\ TasksFit
        /\ StagesFit
        /\ CursorFits
        /\ OldestFits
        /\ FinishedIsAccountedFor
        /\ HaltIsFinal
        /\ OvershootBound

-----------------------------------------------------------------------------
(* Facts about one state *)

(* A set of targets has at most total members.                              *)
LEMMA TargetSets ==
    ASSUME TypeOK, NEW S, S \subseteq Targets
    PROVE  /\ IsFiniteSet(S) /\ Cardinality(S) \in Nat
           /\ Cardinality(S) <= total
           /\ total \in Nat /\ total <= MaxTargets /\ Targets \subseteq Positions
  <1>1. total \in Nat /\ MaxTargets \in Nat /\ total <= MaxTargets
    BY TargetsAssumption DEF TypeOK
  <1>2. IsFiniteSet(Targets) /\ Cardinality(Targets) = total
    BY <1>1, FS_Interval DEF Targets
  <1>3. Targets \subseteq Positions
    BY <1>1 DEF Targets, Positions
  <1> QED
    BY <1>1, <1>2, <1>3, FS_Subset, FS_CardinalityType

(* The counters are numbers within their bounds.                            *)
LEMMA CounterBounds ==
    ASSUME TypeOK, CountersFit
    PROVE  /\ Cardinality(Running) \in Nat /\ Cardinality(Holding) \in Nat
           /\ Cardinality(Analyzing) \in Nat /\ Cardinality(Ended("failed")) \in Nat
           /\ Cardinality(Running) <= Cardinality(Holding)
           /\ Cardinality(Analyzing) <= Cardinality(Running)
           /\ active \in Nat /\ consecutive \in Nat
           /\ IsFiniteSet(Running) /\ IsFiniteSet(Holding)
           /\ IsFiniteSet(Analyzing) /\ IsFiniteSet(Ended("failed"))
  <1>1. /\ Analyzing \subseteq Running /\ Running \subseteq Holding
        /\ Holding \subseteq Targets /\ Ended("failed") \subseteq Targets
    BY DEF Analyzing, Running, Holding, Ended
  <1>2. /\ IsFiniteSet(Holding) /\ IsFiniteSet(Running)
        /\ IsFiniteSet(Analyzing) /\ IsFiniteSet(Ended("failed"))
    BY <1>1, TargetSets
  <1>3. Cardinality(Running) <= Cardinality(Holding)
    BY <1>1, <1>2, FS_Subset
  <1>4. Cardinality(Analyzing) <= Cardinality(Running)
    BY <1>1, <1>2, FS_Subset
  <1> QED
    BY <1>2, <1>3, <1>4, FS_CardinalityType DEF TypeOK

(* A running analysis is counted, and one member fewer is one less.         *)
LEMMA RunningIsCounted ==
    ASSUME TypeOK, CountersFit, NEW i \in Running
    PROVE  active > 0 /\ Cardinality(Running \ {i}) = active - 1
  <1>1. Cardinality(Running \ {i}) = Cardinality(Running) - 1
        /\ Cardinality(Running \ {i}) \in Nat
    BY CounterBounds, FS_RemoveElement, FS_CardinalityType
  <1> QED
    BY <1>1, CounterBounds DEF CountersFit

(* The cursor loop keeps the prefix unbroken and its newest date: dates do  *)
(* not fall along the list, so the newest is the last one.                  *)
LEMMA CursorStep ==
    ASSUME TypeOK, CursorFits, StagesFit, NEW i \in Targets, CursorFinish(i),
           total' = total, commits' = commits, digestItems' \subseteq Targets
    PROVE  /\ CursorFits'
           /\ finished' \subseteq Positions /\ cursor' \in 0..total /\ watermark' \in Nat
  <1>1. /\ total \in Nat /\ cursor \in Nat /\ cursor <= total /\ Targets \subseteq Positions
        /\ Targets' = Targets /\ watermark \in Nat
        /\ Targets = 1..total
    BY TargetSets, FS_EmptySet DEF TypeOK, Targets
  <1>2. cursor' \in Nat /\ cursor <= cursor' /\ cursor' <= total
    BY <1>1 DEF CursorFinish
  <1>3. finished' = finished \cup {i} /\ finished' \subseteq Targets'
    BY <1>1 DEF CursorFinish, CursorFits
  <1>4. ASSUME NEW j \in Targets, j <= cursor' PROVE j \in finished'
    <2>1. CASE j <= cursor
      BY <2>1, <1>3 DEF CursorFits
    <2>2. CASE ~(j <= cursor)
      BY <2>2, <1>1, <1>2, <1>4 DEF CursorFinish
    <2> QED
      BY <2>1, <2>2
  <1>5. cursor' = total' \/ cursor' + 1 \notin finished'
    BY DEF CursorFinish
  <1>6. \A j \in Targets : Date[j] \in Nat
    BY <1>1, DateAssumption
  <1>7. cursor' # cursor => cursor' \in Targets
    BY <1>1, <1>2
  <1>8. watermark' \in Nat
    BY <1>1, <1>6, <1>7 DEF CursorFinish
  <1>9. watermark' = 0 \/ \E j \in Targets : j <= cursor' /\ Date[j] = watermark'
    <2>1. CASE cursor' # cursor /\ Date[cursor'] > watermark
      BY <2>1, <1>2, <1>7 DEF CursorFinish
    <2>2. CASE ~(cursor' # cursor /\ Date[cursor'] > watermark)
      <3>1. watermark' = watermark
        BY <2>2 DEF CursorFinish
      <3>2. \A j \in Targets : j \in Nat /\ (j <= cursor => j <= cursor')
        BY <1>1, <1>2
      <3> QED
        BY <3>1, <3>2 DEF CursorFits
    <2> QED
      BY <2>1, <2>2
  <1>10. ASSUME commits, NEW j \in Targets, j <= cursor' PROVE Date[j] <= watermark'
    <2>1. CASE cursor' = cursor
      BY <2>1, <1>10 DEF CursorFinish, CursorFits
    <2>2. CASE cursor' # cursor
      <3>1. Date[cursor'] # 0 /\ cursor' \in Targets
        BY <1>7, <1>10, <2>2 DEF StagesFit
      <3>2. Date[j] <= Date[cursor']
        <4>1. CASE j = cursor'
          <5>1. Date[j] = Date[cursor'] /\ Date[j] \in Nat
            BY <4>1, <1>6
          <5> QED
            BY <5>1
        <4>2. CASE j < cursor'
          <5>1. j \in Positions /\ cursor' \in Positions
            BY <1>1, <3>1
          <5> QED
            BY <3>1, <4>2, <5>1, DateAssumption
        <4> QED
          BY <1>1, <1>2, <1>10, <4>1, <4>2
      <3>3. Date[cursor'] <= watermark'
        BY <2>2, <1>1, <1>6, <3>1 DEF CursorFinish
      <3> QED
        BY <3>1, <3>2, <3>3, <1>6, <1>8
    <2> QED
      BY <2>1, <2>2
  <1>11. cursor' \in 0..total
    BY <1>1, <1>2
  <1>12. finished' \subseteq Positions
    BY <1>1, <1>3
  <1>13. CursorFits'
    BY <1>1, <1>3, <1>4, <1>5, <1>9, <1>10 DEF CursorFits
  <1> QED
    BY <1>8, <1>11, <1>12, <1>13

(* The invariant holds when the run starts.                                 *)
LEMMA InitIInv == Init => IInv
  <1> SUFFICES ASSUME Init PROVE IInv
    OBVIOUS
  <1>1. /\ Targets = {} /\ Running = {} /\ Holding = {} /\ Analyzing = {}
        /\ Ended("failed") = {}
    BY DEF Init, Targets, Running, Holding, Analyzing, Ended
  <1>2. Cardinality({}) = 0
    BY FS_EmptySet
  <1>3. TypeOK
    <2>1. MaxTargets \in Nat /\ 0 \in 0..MaxTargets /\ 0 \in 0..MaxConcurrentAnalyses /\ 0 \in 0..0
      BY TargetsAssumption, ConcurrencyAssumption
    <2> QED
      BY <2>1 DEF Init, TypeOK, TaskStates, TaskOutcomes
  <1>4. CountersFit
    BY <1>1, <1>2, ConcurrencyAssumption DEF Init, CountersFit
  <1>5. TasksFit /\ StagesFit
    BY <1>1 DEF Init, TasksFit, StagesFit
  <1>6. CursorFits /\ OldestFits /\ FinishedIsAccountedFor
    BY <1>1 DEF Init, CursorFits, OldestFits, FinishedIsAccountedFor
  <1>7. HaltIsFinal
    BY DEF Init, HaltIsFinal
  <1>8. OvershootBound
    <2>1. {j \in Targets : task[j] = "analyzing"} = {}
      BY <1>1
    <2> QED
      BY <2>1, <1>2, ConcurrencyAssumption, FailuresAssumption DEF Init, OvershootBound
  <1> QED
    BY <1>3, <1>4, <1>5, <1>6, <1>7, <1>8 DEF IInv

-----------------------------------------------------------------------------
(* One step of a task *)

(* A task at the gate waits, is turned away or is admitted; it takes a slot *)
(* only below the limit.                                                    *)
LEMMA GateStep ==
    ASSUME IInv, NEW i \in Targets, Gate(i),
           stage = "analyze", task[i] \in {"queued", "woken"},
           task[i] = "queued" => /\ \A j \in Targets : j < i => task[j] # "queued"
                                 /\ Cardinality(Holding) < MaxConcurrentAnalyses,
           UNCHANGED <<options, status, stage, total, consecutive, inBudget, progress, result>>
    PROVE  IInv'
  <1> DEFINE to == task'[i]
  <1>0. /\ TypeOK /\ CountersFit /\ TasksFit /\ StagesFit /\ CursorFits
        /\ Targets' = Targets /\ Targets \subseteq Positions
        /\ Targets = 1..total /\ total \in Nat /\ i \in Nat
        /\ MaxConcurrentAnalyses \in Nat \ {0} /\ MaxConsecutiveFailures \in Nat \ {0}
    BY TargetSets, FS_EmptySet, ConcurrencyAssumption, FailuresAssumption DEF IInv, Targets
  <1>1. /\ task' = [task EXCEPT ![i] = to] /\ task \in [Positions -> TaskStates]
        /\ to \in {"waiting", "done", "analyzing"}
        /\ outcome' = [outcome EXCEPT ![i] = outcome'[i]]
        /\ outcome \in [Positions -> TaskOutcomes]
        /\ outcome[i] = "none" /\ outcome'[i] \in {"none", "halted", "deferred"}
        /\ to = "done" <=> outcome'[i] # "none"
    BY <1>0 DEF Gate, Move, EndTask, TypeOK, TasksFit
  <1> HIDE DEF to
  <1>2. /\ \A j \in Positions \ {i} : task'[j] = task[j] /\ outcome'[j] = outcome[j]
        /\ task'[i] = to /\ i \in Positions
    BY <1>0, <1>1
  <1>3. CountersFit'
    <2>1. Cardinality(Holding') <= MaxConcurrentAnalyses
      <3>1. CASE to = "done"
        <4>1. Holding' \subseteq Holding
          BY <3>1, <1>0, <1>2 DEF Holding
        <4>2. Cardinality(Holding') <= Cardinality(Holding) /\ Cardinality(Holding') \in Nat
          BY <4>1, <1>0, CounterBounds, FS_Subset, FS_CardinalityType
        <4> QED
          BY <4>2, <1>0, CounterBounds DEF CountersFit
      <3>2. CASE to # "done"
        <4>1. Holding' = Holding \cup {i}
          BY <3>2, <1>0, <1>1, <1>2 DEF Holding
        <4>2. Cardinality(Holding') = IF i \in Holding THEN Cardinality(Holding)
                                      ELSE Cardinality(Holding) + 1
          BY <4>1, <1>0, CounterBounds, FS_AddElement
        <4>3. i \in Holding \/ Cardinality(Holding) < MaxConcurrentAnalyses
          BY DEF Holding
        <4> QED
          BY <4>2, <4>3, <1>0, CounterBounds DEF CountersFit
      <3> QED
        BY <3>1, <3>2
    <2>2. active' = Cardinality(Running')
      <3>1. i \notin Running
        BY DEF Running
      <3>2. CASE to = "analyzing"
        <4>1. Running' = Running \cup {i} /\ active' = active + 1
          BY <3>2, <1>0, <1>1, <1>2 DEF Running, Gate, Move, EndTask
        <4> QED
          BY <4>1, <3>1, <1>0, CounterBounds, FS_AddElement DEF CountersFit
      <3>3. CASE to # "analyzing"
        <4>1. Running' = Running /\ active' = active
          BY <3>1, <3>3, <1>0, <1>1, <1>2 DEF Running, Gate, Move, EndTask
        <4> QED
          BY <4>1, <1>0 DEF CountersFit
      <3> QED
        BY <3>2, <3>3
    <2>3. Ended("failed")' = Ended("failed")
      BY <1>0, <1>1, <1>2 DEF Ended
    <2> QED
      BY <2>1, <2>2, <2>3, <1>0 DEF CountersFit
  <1>4. TypeOK'
    <2>1. Running' \subseteq Holding' /\ Holding' \subseteq Targets
      BY <1>0 DEF Running, Holding
    <2>2. IsFiniteSet(Holding') /\ Cardinality(Holding') \in Nat
      BY <2>1, <1>0, TargetSets
    <2>3. Cardinality(Running') <= Cardinality(Holding') /\ Cardinality(Running') \in Nat
      BY <2>1, <2>2, FS_Subset, FS_CardinalityType
    <2>4. active' \in 0..MaxConcurrentAnalyses
      BY <2>2, <2>3, <1>0, <1>3 DEF CountersFit
    <2>5. task' \in [Positions -> TaskStates] /\ outcome' \in [Positions -> TaskOutcomes]
      BY <1>1 DEF TaskStates, TaskOutcomes
    <2>6. halted' \in BOOLEAN
      BY <1>0 DEF Gate, TypeOK
    <2> QED
      BY <2>4, <2>5, <2>6, <1>0 DEF TypeOK, options, progress, result
  <1>5. TasksFit'
    BY <1>0, <1>1, <1>2 DEF TasksFit, progress
  <1>6. StagesFit'
    BY <1>0 DEF StagesFit, options
  <1>7. CursorFits'
    BY <1>0 DEF CursorFits, progress, options
  <1>8. OldestFits'
    <2> SUFFICES ASSUME 1 \in Targets
                 PROVE /\ task'[1] # "queued" /\ task'[1] \notin {"waiting", "woken"}
                       /\ outcome'[1] \notin {"halted", "deferred"}
      BY <1>0 DEF OldestFits
    <2>1. CASE i = 1
      <3>1. task[i] = "queued" /\ inBudget /\ consecutive = 0
        BY <2>1 DEF IInv, OldestFits
      <3>2. ~CutOff
        BY <3>1, <1>0 DEF CutOff
      <3>3. to = "analyzing" /\ outcome'[i] = "none"
        BY <3>1, <3>2, <1>0, <1>1, <1>2 DEF Gate, Move
      <3> QED
        BY <2>1, <3>3, <1>2
    <2>2. CASE i # 1
      <3>1. task'[1] = task[1] /\ outcome'[1] = outcome[1]
        BY <2>2, <1>0, <1>2
      <3>2. task[1] # "queued"
        <4>1. 1 < i
          BY <2>2, <1>0
        <4>2. task[1] = "queued" => task[i] = "queued"
          BY DEF IInv, OldestFits
        <4> QED
          BY <4>1, <4>2
      <3> QED
        BY <3>1, <3>2 DEF IInv, OldestFits
    <2> QED
      BY <2>1, <2>2
  <1>9. FinishedIsAccountedFor'
    BY <1>0, <1>1, <1>2 DEF IInv, FinishedIsAccountedFor, progress
  <1>10. HaltIsFinal'
    BY <1>0 DEF IInv, HaltIsFinal, Gate, CutOff
  <1>11. OvershootBound'
    <2>1. Analyzing' = {j \in Targets : task[j] = "analyzing"}' /\ Analyzing' \subseteq Targets
      BY <1>0 DEF Analyzing
    <2>2. Cardinality(Analyzing') \in Nat /\ Cardinality(Analyzing) \in Nat /\ consecutive \in Nat
      BY <2>1, <1>0, TargetSets, CounterBounds
    <2>3. CASE to = "analyzing"
      <3>1. consecutive < MaxConsecutiveFailures
        BY <2>3, <2>2, <1>0, <1>1 DEF Gate, CutOff, Move, EndTask
      <3>2. Analyzing' \subseteq Holding' /\ Holding' \subseteq Targets
        BY <1>0 DEF Analyzing, Holding
      <3>3. IsFiniteSet(Holding') /\ Cardinality(Holding') \in Nat
        BY <3>2, <1>0, TargetSets
      <3>4. Cardinality(Analyzing') <= Cardinality(Holding')
        BY <3>2, <3>3, FS_Subset
      <3>5. Cardinality(Analyzing') <= MaxConcurrentAnalyses
        BY <3>3, <3>4, <2>2, <1>0, <1>3 DEF CountersFit
      <3> QED
        BY <3>1, <3>5, <2>1, <2>2, <1>0 DEF OvershootBound
    <2>4. CASE to # "analyzing"
      <3>1. Analyzing' = Analyzing
        BY <2>4, <1>0, <1>1, <1>2 DEF Analyzing
      <3> QED
        BY <3>1, <2>1 DEF IInv, OvershootBound, Analyzing
    <2> QED
      BY <2>3, <2>4
  <1> QED
    BY <1>3, <1>4, <1>5, <1>6, <1>7, <1>8, <1>9, <1>10, <1>11 DEF IInv

(* A task that is past the gate runs while the run analyzes, and then the   *)
(* oldest target is past the gate as well.                                  *)
LEMMA TaskRuns ==
    ASSUME IInv, NEW i \in Targets, task[i] \notin {"queued", "done"}
    PROVE  /\ stage = "analyze" /\ status = "running" /\ ~dryRun
           /\ 1 \in Targets /\ task[1] # "queued"
           /\ i \in Positions /\ Targets \subseteq Positions
           /\ Targets = 1..total /\ total \in Nat /\ i \in Nat
           /\ TypeOK /\ CountersFit /\ TasksFit /\ StagesFit /\ CursorFits
           /\ MaxConcurrentAnalyses \in Nat \ {0} /\ MaxConsecutiveFailures \in Nat \ {0}
           /\ active \in Nat /\ consecutive \in Nat
  <1>1. TypeOK /\ CountersFit /\ TasksFit /\ StagesFit /\ CursorFits
    BY DEF IInv
  <1>2. stage = "analyze"
    BY <1>1 DEF StagesFit
  <1>3. /\ i \in Positions /\ Targets \subseteq Positions
        /\ Targets = 1..total /\ total \in Nat /\ i \in Nat
    BY <1>1, TargetSets, FS_EmptySet DEF Targets
  <1>4. 1 \in Targets
    BY <1>3
  <1>5. task[1] # "queued"
    BY <1>4 DEF IInv, OldestFits
  <1> QED
    BY <1>1, <1>2, <1>3, <1>4, <1>5, ConcurrencyAssumption, FailuresAssumption, CounterBounds
    DEF StagesFit

(* A failure adds one to the failures in a row and ends a running analysis. *)
LEMMA FailStep ==
    ASSUME IInv, NEW i \in Targets, AnalysisFails(i)
    PROVE  IInv'
  <1>0. /\ stage = "analyze" /\ status = "running" /\ ~dryRun
        /\ 1 \in Targets /\ task[1] # "queued"
        /\ i \in Positions /\ Targets \subseteq Positions
        /\ total \in Nat /\ total <= MaxTargets /\ MaxTargets \in Nat
        /\ TypeOK /\ CountersFit /\ TasksFit /\ StagesFit /\ CursorFits
        /\ MaxConcurrentAnalyses \in Nat \ {0} /\ MaxConsecutiveFailures \in Nat \ {0}
        /\ active \in Nat /\ consecutive \in Nat
        /\ Targets' = Targets
    BY TaskRuns, TargetSets, FS_EmptySet, TargetsAssumption DEF AnalysisFails, Targets
  <1>1. /\ UNCHANGED <<options, status, stage, total, active, halted, inBudget, digestItems, result>>
        /\ consecutive' = consecutive + 1 /\ finished' = finished \cup {i}
        /\ task[i] = "analyzing" /\ outcome[i] = "none"
    BY <1>0 DEF AnalysisFails, CursorFinish, TasksFit
  <1>2. /\ \A j \in Positions \ {i} : task'[j] = task[j] /\ outcome'[j] = outcome[j]
        /\ task'[i] = "leaving" /\ outcome'[i] = "failed"
        /\ task' \in [Positions -> TaskStates] /\ outcome' \in [Positions -> TaskOutcomes]
    BY <1>0 DEF AnalysisFails, Move, TypeOK, TaskStates, TaskOutcomes
  <1>3. /\ CursorFits'
        /\ finished' \subseteq Positions /\ cursor' \in 0..total /\ watermark' \in Nat
    <2>1. digestItems' \subseteq Targets /\ commits' = commits /\ total' = total
      BY <1>0, <1>1 DEF CursorFits, options
    <2> QED
      BY <2>1, <1>0, CursorStep DEF AnalysisFails
  <1>4. CountersFit'
    <2>1. Holding' = Holding /\ Running' = Running
      BY <1>0, <1>1, <1>2 DEF Holding, Running
    <2>2. Ended("failed")' = Ended("failed") \cup {i} /\ i \notin Ended("failed")
      BY <1>0, <1>1, <1>2 DEF Ended
    <2>3. Cardinality(Ended("failed")') = Cardinality(Ended("failed")) + 1
      BY <2>2, <1>0, CounterBounds, FS_AddElement
    <2> QED
      BY <2>1, <2>3, <1>0, <1>1, CounterBounds DEF CountersFit
  <1>5. TypeOK'
    <2>1. Ended("failed")' \subseteq Targets
      BY <1>0 DEF Ended
    <2>2. Cardinality(Ended("failed")') \in Nat /\ Cardinality(Ended("failed")') <= total
      BY <2>1, <1>0, TargetSets
    <2>3. consecutive' \in 0..MaxTargets
      BY <2>2, <1>0, <1>1, <1>4 DEF CountersFit
    <2> QED
      BY <2>3, <1>0, <1>1, <1>2, <1>3 DEF TypeOK, options, result
  <1>6. TasksFit' /\ StagesFit'
    BY <1>0, <1>1, <1>2 DEF TasksFit, StagesFit, options
  <1>7. OldestFits'
    BY <1>0, <1>1, <1>2 DEF IInv, OldestFits
  <1>8. FinishedIsAccountedFor'
    BY <1>0, <1>1, <1>2 DEF IInv, FinishedIsAccountedFor
  <1>9. active > 0
    BY <1>0, <1>1, RunningIsCounted DEF Running
  <1>10. HaltIsFinal'
    BY <1>0, <1>1, <1>9 DEF IInv, HaltIsFinal
  <1>11. OvershootBound'
    <2>1. Analyzing' = Analyzing \ {i} /\ i \in Analyzing
      BY <1>0, <1>1, <1>2 DEF Analyzing
    <2>2. Cardinality(Analyzing') = Cardinality(Analyzing) - 1
          /\ Cardinality(Analyzing) \in Nat
      BY <2>1, <1>0, CounterBounds, FS_RemoveElement
    <2>3. consecutive + Cardinality(Analyzing) < MaxConsecutiveFailures + MaxConcurrentAnalyses
      BY DEF IInv, OvershootBound, Analyzing
    <2>4. consecutive' + Cardinality(Analyzing') < MaxConsecutiveFailures + MaxConcurrentAnalyses
      BY <2>2, <2>3, <1>0, <1>1
    <2> QED
      BY <2>4 DEF OvershootBound, Analyzing
  <1> QED
    BY <1>3, <1>4, <1>5, <1>6, <1>7, <1>8, <1>10, <1>11 DEF IInv

(* A success resets the failures in a row; no more than the limit run then. *)
LEMMA SucceedStep ==
    ASSUME IInv, NEW i \in Targets, AnalysisSucceeds(i)
    PROVE  IInv'
  <1>0. /\ stage = "analyze" /\ status = "running" /\ ~dryRun
        /\ 1 \in Targets /\ task[1] # "queued"
        /\ i \in Positions /\ Targets \subseteq Positions
        /\ MaxTargets \in Nat
        /\ TypeOK /\ CountersFit /\ TasksFit /\ StagesFit /\ CursorFits
        /\ MaxConcurrentAnalyses \in Nat \ {0} /\ MaxConsecutiveFailures \in Nat \ {0}
        /\ active \in Nat
        /\ Targets' = Targets
    BY TaskRuns, TargetsAssumption DEF AnalysisSucceeds, Targets
  <1>1. /\ UNCHANGED <<options, status, stage, total, active, halted, inBudget, progress, result>>
        /\ consecutive' = 0 /\ task[i] = "analyzing" /\ outcome[i] = "none"
    BY <1>0 DEF AnalysisSucceeds, TasksFit
  <1>2. /\ \A j \in Positions \ {i} : task'[j] = task[j] /\ outcome'[j] = outcome[j]
        /\ task'[i] = "leaving" /\ outcome'[i] = "ok"
        /\ task' \in [Positions -> TaskStates] /\ outcome' \in [Positions -> TaskOutcomes]
    BY <1>0 DEF AnalysisSucceeds, Move, TypeOK, TaskStates, TaskOutcomes
  <1>3. CountersFit'
    <2>1. Holding' = Holding /\ Running' = Running
      BY <1>0, <1>1, <1>2 DEF Holding, Running
    <2>2. Ended("failed")' = Ended("failed")
      BY <1>0, <1>1, <1>2 DEF Ended
    <2> QED
      BY <2>1, <2>2, <1>0, <1>1, CounterBounds DEF CountersFit
  <1>4. TypeOK'
    <2>1. 0 \in 0..MaxTargets
      BY <1>0
    <2> QED
      BY <2>1, <1>0, <1>1, <1>2 DEF TypeOK, options, progress, result
  <1>5. TasksFit' /\ StagesFit'
    BY <1>0, <1>1, <1>2 DEF TasksFit, StagesFit, options, progress
  <1>6. CursorFits' /\ OldestFits'
    BY <1>0, <1>1, <1>2 DEF IInv, OldestFits, CursorFits, progress, options
  <1>7. FinishedIsAccountedFor'
    BY <1>0, <1>1, <1>2 DEF IInv, FinishedIsAccountedFor, progress
  <1>8. HaltIsFinal'
    <2>1. active > 0
      BY <1>0, <1>1, RunningIsCounted DEF Running
    <2> QED
      BY <2>1, <1>0, <1>1 DEF IInv, HaltIsFinal
  <1>9. OvershootBound'
    <2>1. Analyzing' \subseteq Holding /\ IsFiniteSet(Holding)
      BY <1>0, <1>1, <1>2, CounterBounds DEF Analyzing, Holding
    <2>2. Cardinality(Analyzing') <= Cardinality(Holding) /\ Cardinality(Analyzing') \in Nat
      BY <2>1, FS_Subset, FS_CardinalityType
    <2>3. consecutive' + Cardinality(Analyzing') < MaxConsecutiveFailures + MaxConcurrentAnalyses
      BY <2>2, <1>0, <1>1, CounterBounds DEF CountersFit
    <2> QED
      BY <2>3 DEF OvershootBound, Analyzing
  <1> QED
    BY <1>3, <1>4, <1>5, <1>6, <1>7, <1>8, <1>9 DEF IInv

(* An analysis that ends gives up its place among the running ones.         *)
LEMMA LeaveStep ==
    ASSUME IInv, NEW i \in Targets, Leave(i)
    PROVE  IInv'
  <1>0. /\ stage = "analyze" /\ status = "running" /\ ~dryRun
        /\ 1 \in Targets /\ task[1] # "queued"
        /\ i \in Positions /\ Targets \subseteq Positions
        /\ TypeOK /\ CountersFit /\ TasksFit /\ StagesFit /\ CursorFits
        /\ MaxConcurrentAnalyses \in Nat \ {0}
        /\ active \in Nat
        /\ Targets' = Targets
    BY TaskRuns DEF Leave, Targets
  <1>1. /\ UNCHANGED <<options, status, stage, total, outcome, consecutive, halted, inBudget,
                       progress, result>>
        /\ active' = active - 1 /\ task[i] = "leaving" /\ outcome[i] \in {"ok", "failed"}
    BY <1>0 DEF Leave, TasksFit
  <1>2. /\ \A j \in Positions \ {i} :
                task'[j] = IF task[j] = "waiting" THEN "woken" ELSE task[j]
        /\ task'[i] = IF outcome[i] = "ok" THEN "archiving" ELSE "done"
        /\ task' \in [Positions -> TaskStates]
    BY <1>0 DEF Leave, TypeOK, TaskStates
  <1>3. active > 0 /\ Cardinality(Running \ {i}) = active - 1
    BY <1>0, <1>1, RunningIsCounted DEF Running
  <1>4. CountersFit'
    <2>1. Holding' \subseteq Holding
      BY <1>0, <1>1, <1>2 DEF Holding
    <2>2. Cardinality(Holding') <= Cardinality(Holding) /\ Cardinality(Holding') \in Nat
      BY <2>1, <1>0, CounterBounds, FS_Subset, FS_CardinalityType
    <2>3. Cardinality(Holding') <= MaxConcurrentAnalyses
      BY <2>2, <1>0, CounterBounds DEF CountersFit
    <2>4. Running' = Running \ {i}
      BY <1>0, <1>1, <1>2 DEF Running
    <2>5. Ended("failed")' = Ended("failed")
      BY <1>0, <1>1 DEF Ended
    <2> QED
      BY <2>3, <2>4, <2>5, <1>0, <1>1, <1>3 DEF CountersFit
  <1>5. TypeOK'
    <2>1. active' \in 0..MaxConcurrentAnalyses
      BY <1>0, <1>1, <1>3 DEF TypeOK
    <2> QED
      BY <2>1, <1>0, <1>1, <1>2 DEF TypeOK, options, progress, result
  <1>6. TasksFit' /\ StagesFit'
    BY <1>0, <1>1, <1>2 DEF TasksFit, StagesFit, options, progress
  <1>7. CursorFits' /\ OldestFits'
    BY <1>0, <1>1, <1>2 DEF IInv, OldestFits, CursorFits, progress, options
  <1>8. FinishedIsAccountedFor' /\ HaltIsFinal'
    BY <1>0, <1>1, <1>3 DEF IInv, FinishedIsAccountedFor, HaltIsFinal, progress
  <1>9. OvershootBound'
    <2>1. Analyzing' = Analyzing
      BY <1>0, <1>1, <1>2 DEF Analyzing
    <2> QED
      BY <2>1, <1>1 DEF IInv, OvershootBound, Analyzing
  <1> QED
    BY <1>4, <1>5, <1>6, <1>7, <1>8, <1>9 DEF IInv

(* A result that is stored is finished, one that is not is neither.         *)
LEMMA ArchiveStep ==
    ASSUME IInv, NEW i \in Targets, ArchiveStores(i) \/ ArchiveFails(i)
    PROVE  IInv'
  <1>0. /\ stage = "analyze" /\ status = "running" /\ ~dryRun
        /\ 1 \in Targets /\ task[1] # "queued"
        /\ i \in Positions /\ Targets \subseteq Positions
        /\ TypeOK /\ CountersFit /\ TasksFit /\ StagesFit /\ CursorFits
        /\ Targets' = Targets
    BY TaskRuns DEF ArchiveStores, ArchiveFails, Targets
  <1>1. /\ UNCHANGED <<options, status, stage, total, gate, result>>
        /\ task[i] = "archiving" /\ outcome[i] = "ok"
    BY <1>0 DEF ArchiveStores, ArchiveFails, TasksFit
  <1>2. /\ \A j \in Positions \ {i} : task'[j] = task[j] /\ outcome'[j] = outcome[j]
        /\ task'[i] = "done"
        /\ task' \in [Positions -> TaskStates] /\ outcome' \in [Positions -> TaskOutcomes]
        /\ \/ /\ outcome'[i] = "ok" /\ digestItems' = digestItems \cup {i}
              /\ finished' = finished \cup {i} /\ CursorFinish(i)
           \/ outcome'[i] = "archiveFailed" /\ UNCHANGED progress
    BY <1>0, <1>1 DEF ArchiveStores, ArchiveFails, EndTask, Move, CursorFinish,
                      TypeOK, TaskStates, TaskOutcomes
  <1>3. /\ CursorFits'
        /\ finished' \subseteq Positions /\ cursor' \in 0..total /\ watermark' \in Nat
        /\ digestItems' \subseteq Positions
    <2>1. CASE CursorFinish(i) /\ digestItems' = digestItems \cup {i}
      <3>1. digestItems' \subseteq Targets /\ commits' = commits /\ total' = total
        BY <2>1, <1>0, <1>1 DEF CursorFits, options
      <3> QED
        BY <2>1, <3>1, <1>0, CursorStep
    <2>2. CASE UNCHANGED progress
      BY <2>2, <1>0, <1>1 DEF CursorFits, TypeOK, progress, options
    <2> QED
      BY <2>1, <2>2, <1>2
  <1>4. CountersFit'
    <2>1. Holding' \subseteq Holding
      BY <1>0, <1>1, <1>2 DEF Holding
    <2>2. Cardinality(Holding') <= Cardinality(Holding) /\ Cardinality(Holding') \in Nat
      BY <2>1, <1>0, CounterBounds, FS_Subset, FS_CardinalityType
    <2>3. Cardinality(Holding') <= MaxConcurrentAnalyses
      BY <2>2, <1>0, CounterBounds, ConcurrencyAssumption DEF CountersFit
    <2>4. Running' = Running
      BY <1>0, <1>1, <1>2 DEF Running
    <2>5. Ended("failed")' = Ended("failed")
      BY <1>0, <1>1, <1>2 DEF Ended
    <2> QED
      BY <2>3, <2>4, <2>5, <1>0, <1>1 DEF CountersFit, gate
  <1>5. TypeOK'
    BY <1>0, <1>1, <1>2, <1>3 DEF TypeOK, options, gate, result
  <1>6. TasksFit' /\ StagesFit'
    BY <1>0, <1>1, <1>2 DEF TasksFit, StagesFit, options, progress
  <1>7. OldestFits'
    BY <1>0, <1>1, <1>2 DEF IInv, OldestFits
  <1>8. FinishedIsAccountedFor'
    BY <1>0, <1>1, <1>2 DEF IInv, FinishedIsAccountedFor, progress, TasksFit
  <1>9. HaltIsFinal'
    BY <1>1 DEF IInv, HaltIsFinal, CutOff, gate
  <1>10. OvershootBound'
    <2>1. Analyzing' = Analyzing
      BY <1>0, <1>1, <1>2 DEF Analyzing
    <2> QED
      BY <2>1, <1>1 DEF IInv, OvershootBound, Analyzing, gate
  <1> QED
    BY <1>3, <1>4, <1>5, <1>6, <1>7, <1>8, <1>9, <1>10 DEF IInv

-----------------------------------------------------------------------------
(* One step of the run *)

(* Before the selection nothing has moved, so any targets will do.          *)
LEMMA SelectStep ==
    ASSUME IInv, Select
    PROVE  IInv'
  <1>0. /\ TypeOK /\ CountersFit /\ TasksFit /\ StagesFit /\ CursorFits
        /\ MaxTargets \in Nat /\ MaxConcurrentAnalyses \in Nat \ {0}
        /\ MaxConsecutiveFailures \in Nat \ {0}
    BY TargetsAssumption, ConcurrencyAssumption, FailuresAssumption DEF IInv
  <1>1. /\ UNCHANGED <<options, tasks, gate, progress, result>>
        /\ status = "queued" /\ total = 0 /\ active = 0 /\ consecutive = 0 /\ ~halted /\ inBudget
        /\ finished = {} /\ digestItems = {} /\ cursor = 0 /\ watermark = 0
        /\ \A j \in Positions : task[j] = "queued" /\ outcome[j] = "none"
    BY <1>0 DEF Select, StagesFit
  <1>2. \/ total' = 0 /\ stage' = "done" /\ status' \in {"failed", "completed"}
        \/ /\ total' \in 1..MaxTargets /\ status' = "running"
           /\ commits => \A j \in 1..total' : Date[j] # 0
           /\ stage' = IF dryRun THEN "commit" ELSE "analyze"
    BY <1>1 DEF Select, End
  <1>3. total' \in 0..MaxTargets /\ total' \in Nat /\ Targets' \subseteq Positions
        /\ Targets' = 1..total'
    BY <1>0, <1>2 DEF Targets, Positions
  <1>4. /\ \A j \in Targets' : j \in Nat /\ j > 0 /\ task'[j] = "queued" /\ outcome'[j] = "none"
        /\ \A j \in Positions : task'[j] = "queued" /\ outcome'[j] = "none"
    BY <1>1, <1>3 DEF tasks
  <1>5. Cardinality({}) = 0
    BY FS_EmptySet
  <1>6. CountersFit'
    <2>1. Holding' = {} /\ Running' = {} /\ Ended("failed")' = {}
      BY <1>4 DEF Holding, Running, Ended
    <2> QED
      BY <2>1, <1>0, <1>1, <1>5 DEF CountersFit, gate
  <1>7. TypeOK'
    <2>1. 0 \in 0..total'
      BY <1>3
    <2> QED
      BY <2>1, <1>0, <1>1, <1>2, <1>3 DEF TypeOK, options, tasks, gate, progress, result
  <1>8. TasksFit'
    BY <1>1, <1>4 DEF TasksFit, progress
  <1>9. StagesFit'
    BY <1>0, <1>1, <1>2, <1>3, <1>4 DEF StagesFit, options, tasks, gate, progress
  <1>10. CursorFits'
    BY <1>1, <1>4 DEF CursorFits, progress
  <1>11. OldestFits'
    BY <1>1, <1>3, <1>4 DEF OldestFits, gate
  <1>12. FinishedIsAccountedFor' /\ HaltIsFinal'
    BY <1>1, <1>4 DEF FinishedIsAccountedFor, HaltIsFinal, progress, gate
  <1>13. OvershootBound'
    <2>1. {j \in Targets : task[j] = "analyzing"}' = {}
      BY <1>4
    <2> QED
      BY <2>1, <1>0, <1>1, <1>5 DEF OvershootBound, gate
  <1> QED
    BY <1>6, <1>7, <1>8, <1>9, <1>10, <1>11, <1>12, <1>13 DEF IInv

(* Running out of budget concerns only tasks that come after the oldest.    *)
LEMMA BudgetStep ==
    ASSUME IInv, BudgetRunsOut
    PROVE  IInv'
  <1>1. UNCHANGED <<options, status, stage, total, tasks, active, consecutive, halted,
                    progress, result>> /\ inBudget' = FALSE /\ task[1] # "queued"
        /\ stage = "analyze" /\ Targets' = Targets
    BY DEF BudgetRunsOut, Targets
  <1>2. TypeOK' /\ CountersFit' /\ OvershootBound'
    BY <1>1 DEF IInv, TypeOK, CountersFit, OvershootBound, Holding, Running, Ended,
                options, tasks, progress, result
  <1>3. TasksFit' /\ StagesFit' /\ CursorFits'
    BY <1>1 DEF IInv, TasksFit, StagesFit, CursorFits, options, tasks, progress
  <1>4. OldestFits' /\ FinishedIsAccountedFor' /\ HaltIsFinal'
    BY <1>1 DEF IInv, OldestFits, FinishedIsAccountedFor, HaltIsFinal, CutOff, options, tasks, progress, result
  <1> QED
    BY <1>2, <1>3, <1>4 DEF IInv

(* After the gather nothing about the targets changes any more.             *)
LEMMA EndingStep ==
    ASSUME IInv, Gathered \/ SendDigest \/ Commit
    PROVE  IInv'
  <1>0. /\ TypeOK /\ CountersFit /\ TasksFit /\ StagesFit /\ CursorFits
        /\ FinishedIsAccountedFor /\ Targets \subseteq Positions
        /\ Targets = 1..total /\ total \in Nat
    BY TargetSets, FS_EmptySet DEF IInv, Targets
  <1>1. UNCHANGED <<options, total, tasks, gate, progress>> /\ Targets' = Targets
    BY DEF Gathered, SendDigest, Commit, Targets
  <1>2. \A j \in Targets : stage \in {"analyze", "digest"} /\ ~(stage' = "done") => task[j] = "done"
    BY <1>0 DEF Gathered, SendDigest, Commit, End, StagesFit
  <1>3. /\ status' \in {"running", "completed", "partial", "failed"}
        /\ stage' \in {"digest", "commit", "done"}
        /\ stage' # "done" => /\ status' = "running" /\ stage \in {"analyze", "digest"}
        /\ stage' = "done" => status' \in {"completed", "partial", "failed"}
        /\ stage' = "digest" => stage = "analyze"
        /\ stage \in {"analyze", "digest", "commit"}
    BY <1>0 DEF Gathered, SendDigest, Commit, End, StagesFit
  <1>4. TypeOK'
    <2>1. emailSent' \in BOOLEAN /\ committed' \in BOOLEAN /\ stored' \in Nat
      BY <1>0 DEF Gathered, SendDigest, Commit, TypeOK, result
    <2> QED
      BY <2>1, <1>0, <1>1, <1>3 DEF TypeOK, options, tasks, gate, progress
  <1>5. CountersFit' /\ OvershootBound'
    BY <1>1 DEF IInv, CountersFit, OvershootBound, Holding, Running, Ended, tasks, gate
  <1>6. TasksFit' /\ CursorFits'
    BY <1>0, <1>1 DEF TasksFit, CursorFits, tasks, progress, options
  <1>7. StagesFit'
    <2>1. \A j \in Targets : task[j] \in {"queued", "done"}
      BY <1>0 DEF Gathered, SendDigest, Commit, StagesFit
    <2>2. stage' \in {"digest", "commit"} =>
                \A j \in Targets : task[j] = "done" /\ outcome[j] # "archiveFailed"
      BY <1>0, <1>3 DEF Gathered, SendDigest, Commit, StagesFit, Ended, End
    <2> QED
      BY <2>1, <2>2, <1>0, <1>1, <1>3 DEF StagesFit, options, tasks, gate, progress
  <1>8. OldestFits' /\ FinishedIsAccountedFor' /\ HaltIsFinal'
    BY <1>0, <1>1 DEF IInv, OldestFits, FinishedIsAccountedFor, HaltIsFinal, CutOff,
                      tasks, gate, progress
  <1> QED
    BY <1>4, <1>5, <1>6, <1>7, <1>8 DEF IInv

-----------------------------------------------------------------------------
(* The invariant *)

LEMMA NextIInv == IInv /\ [Next]_vars => IInv'
  <1> SUFFICES ASSUME IInv, [Next]_vars PROVE IInv'
    OBVIOUS
  <1>1. CASE Select
    BY <1>1, SelectStep
  <1>2. ASSUME NEW i \in Targets, Analyze(i) PROVE IInv'
    <2>1. CASE Enter(i)
      <3>1. task[i] \in {"queued", "woken"}
        BY <2>1 DEF Enter
      <3> QED
        BY <2>1, <3>1, GateStep DEF Enter
    <2>2. CASE Recheck(i)
      <3>1. task[i] = "woken" /\ stage = "analyze"
        BY <2>2, TaskRuns DEF Recheck
      <3> QED
        BY <2>2, <3>1, GateStep DEF Recheck
    <2>3. CASE AnalysisFails(i)
      BY <2>3, FailStep
    <2>4. CASE AnalysisSucceeds(i)
      BY <2>4, SucceedStep
    <2>5. CASE Leave(i)
      BY <2>5, LeaveStep
    <2>6. CASE ArchiveStores(i) \/ ArchiveFails(i)
      BY <2>6, ArchiveStep
    <2> QED
      BY <1>2, <2>1, <2>2, <2>3, <2>4, <2>5, <2>6 DEF Analyze
  <1>3. CASE BudgetRunsOut
    BY <1>3, BudgetStep
  <1>4. CASE Gathered \/ SendDigest \/ Commit
    BY <1>4, EndingStep
  <1>5. CASE UNCHANGED vars
    <2>1. UNCHANGED <<options, status, stage, total, tasks, gate, progress, result>>
          /\ Targets' = Targets
      BY <1>5 DEF vars, Targets
    <2>2. TypeOK' /\ CountersFit' /\ OvershootBound'
      BY <2>1 DEF IInv, TypeOK, CountersFit, OvershootBound, Holding, Running, Ended,
                  options, tasks, gate, progress, result
    <2>3. TasksFit' /\ StagesFit' /\ CursorFits'
      BY <2>1 DEF IInv, TasksFit, StagesFit, CursorFits, options, tasks, gate, progress
    <2>4. OldestFits' /\ FinishedIsAccountedFor' /\ HaltIsFinal'
      BY <2>1 DEF IInv, OldestFits, FinishedIsAccountedFor, HaltIsFinal, CutOff, options, tasks, gate, progress, result
    <2> QED
      BY <2>2, <2>3, <2>4 DEF IInv
  <1> QED
    BY <1>1, <1>2, <1>3, <1>4, <1>5 DEF Next

(* Every reachable state satisfies the invariant.                           *)
THEOREM Invariance == Spec => []IInv
  <1> QED
    BY InitIInv, NextIInv, PTL DEF Spec

(* Every variable keeps its type: in particular no more analyses run at     *)
(* once than max_concurrent_analyses.                                       *)
THEOREM TypeCorrect == Spec => []TypeOK
  <1>1. IInv => TypeOK
    BY DEF IInv
  <1> QED
    BY <1>1, Invariance, PTL

(* The cursor's prefix covers all dates below the watermark.               *)
LEMMA WatermarkCoversAll == IInv => WatermarkCovers
  <1> SUFFICES ASSUME IInv PROVE WatermarkCovers
    OBVIOUS
  <1>1. CursorFits /\ TypeOK
    BY DEF IInv
  <1>2. Targets \subseteq Positions /\ Targets \subseteq Nat /\ cursor \in Nat /\ watermark \in Nat
    BY <1>1, TargetSets, FS_EmptySet DEF TypeOK, Targets
  <1>3. \A i \in Targets : i <= cursor => i \in finished
    BY <1>1 DEF CursorFits
  <1>4. ASSUME NEW i \in Targets, 0 < Date[i], Date[i] < watermark
        PROVE  i \in finished
    <2>1. Date[i] \in Nat /\ i \in Nat /\ i \in Positions
      BY <1>2, DateAssumption
    <2>2. PICK j \in Targets : j <= cursor /\ Date[j] = watermark
      BY <2>1, <1>1, <1>2, <1>4 DEF CursorFits
    <2>3. j \in Positions /\ j \in Nat /\ Date[j] \in Nat
      BY <1>2, DateAssumption
    <2>4. ~(j < i)
      <3> SUFFICES ASSUME j < i PROVE FALSE
        OBVIOUS
      <3>1. Date[i] # 0
        BY <2>1, <1>4
      <3>2. Date[j] <= Date[i]
        BY <3>1, <2>1, <2>3, DateAssumption
      <3> QED
        BY <3>2, <2>1, <2>2, <2>3, <1>2, <1>4
    <2>5. i <= cursor
      BY <2>1, <2>2, <2>3, <2>4, <1>2
    <2> QED
      BY <2>5, <1>3
  <1> QED
    BY <1>3, <1>4 DEF WatermarkCovers

(* The watermark of _WatermarkCursor never passes a target that is not      *)
(* processed, in whatever order the tasks of _analyze_one finish.           *)
THEOREM WatermarkIsSafe == Spec => []WatermarkCovers
  BY WatermarkCoversAll, Invariance, PTL

(* Processed means isolated as a failure, or archived and in the digest.    *)
THEOREM NothingIsLost == Spec => []FinishedIsAccountedFor
  <1>1. IInv => FinishedIsAccountedFor
    BY DEF IInv
  <1> QED
    BY <1>1, Invariance, PTL

(* Tasks are turned away for consecutive failures only when no success can  *)
(* come any more that would lift the cutoff.                                *)
THEOREM CutoffIsFinal == Spec => []HaltIsFinal
  <1>1. IInv => HaltIsFinal
    BY DEF IInv
  <1> QED
    BY <1>1, Invariance, PTL

(* An outage is met by fewer failures in a row than the limit and a batch.  *)
THEOREM CutoffIsBounded == Spec => []OvershootBound
  <1>1. IInv => OvershootBound
    BY DEF IInv
  <1> QED
    BY <1>1, Invariance, PTL

(* A run that gets to its digest has not turned its oldest target away.     *)
LEMMA SettledOldest == IInv => OldestIsSettled
  <1> SUFFICES ASSUME IInv, stage \in {"digest", "commit"}, ~dryRun
               PROVE  1 \in finished
    BY DEF OldestIsSettled
  <1>1. TypeOK /\ TasksFit /\ StagesFit
    BY DEF IInv
  <1>2. 1 \in Targets /\ Targets \subseteq Positions
    <2>1. total > 0 /\ total \in Nat /\ Targets \subseteq Positions
      BY <1>1, TargetSets, FS_EmptySet DEF StagesFit
    <2> QED
      BY <2>1 DEF Targets
  <1>3. task[1] = "done" /\ outcome[1] # "archiveFailed"
    BY <1>1, <1>2 DEF StagesFit
  <1>4. outcome[1] \in {"ok", "failed"}
    BY <1>1, <1>2, <1>3 DEF IInv, OldestFits, TasksFit, TypeOK, TaskOutcomes
  <1> QED
    BY <1>1, <1>2, <1>3, <1>4 DEF IInv, FinishedIsAccountedFor, TasksFit

(* A run that reaches its digest has finished its oldest target.            *)
THEOREM WindowAlwaysMoves == Spec => []OldestIsSettled
  BY SettledOldest, Invariance, PTL

-----------------------------------------------------------------------------
(* The run implements RunWindow *)

(* The watermark is the newest date of the unbroken prefix of RunWindow.    *)
LEMMA WatermarkIsNewest ==
    ASSUME IInv, stage = "commit", watermark > 0
    PROVE  /\ watermark \in {Date[i] : i \in Window!Prefix(finished)}
           /\ commits => Window!Newest(Window!Prefix(finished), watermark)
  <1>1. /\ TypeOK /\ CursorFits /\ StagesFit /\ Targets \subseteq Positions
        /\ Targets = 1..total /\ total \in Nat /\ cursor \in Nat /\ cursor <= total
        /\ Positions \subseteq Nat /\ Positions = 1..MaxTargets /\ MaxTargets \in Nat
    BY TargetSets, FS_EmptySet, TargetsAssumption DEF IInv, Targets, TypeOK, Positions
  <1>2. PICK k \in Targets : k <= cursor /\ Date[k] = watermark
    BY <1>1 DEF CursorFits
  <1>3. k \in Window!Prefix(finished)
    <2>1. k \in finished
      BY <1>1, <1>2 DEF CursorFits
    <2>2. ASSUME NEW j \in Positions, j < k PROVE j \in finished
      <3>1. j \in Targets /\ j <= cursor
        BY <1>1, <1>2, <2>2
      <3> QED
        BY <3>1, <1>1 DEF CursorFits
    <2> QED
      BY <2>1, <2>2 DEF Window!Prefix
  <1>4. ASSUME commits, NEW i \in Window!Prefix(finished) PROVE Date[i] <= watermark
    <2>1. i \in finished /\ i \in Targets /\ \A j \in Positions : j < i => j \in finished
      BY <1>1 DEF Window!Prefix, CursorFits
    <2>2. i <= cursor
      <3> SUFFICES ASSUME ~(i <= cursor) PROVE FALSE
        OBVIOUS
      <3>1. cursor + 1 \in Positions /\ (cursor + 1 < i \/ cursor + 1 = i) /\ cursor # total
        BY <1>1, <2>1
      <3> QED
        BY <3>1, <2>1, <1>1 DEF CursorFits
    <2> QED
      BY <2>1, <2>2, <1>1, <1>4 DEF CursorFits
  <1>5. commits => Window!Newest(Window!Prefix(finished), watermark)
    BY <1>2, <1>3, <1>4 DEF Window!Newest
  <1> QED
    BY <1>2, <1>3, <1>5

LEMMA WindowInit == Init => Window!Init
  <1> SUFFICES ASSUME Init PROVE Window!Init
    OBVIOUS
  <1>1. Ended("failed") = {}
    BY DEF Init, Ended, Targets
  <1> QED
    BY <1>1 DEF Init, Window!Init

(* A task's step finishes one more target, or none.                         *)
LEMMA WindowTaskStep ==
    ASSUME IInv, NEW i \in Targets, Analyze(i)
    PROVE  [Window!Next]_(Window!vars)
  <1>1. /\ stage = "analyze" /\ stage' = stage /\ status' = status /\ stored' = stored
        /\ status = "running" /\ total' = total
        /\ StagesFit /\ TasksFit /\ TypeOK /\ FinishedIsAccountedFor /\ i \in Positions
    <2>1. StagesFit /\ TasksFit /\ TypeOK /\ FinishedIsAccountedFor
      BY DEF IInv
    <2>2. i \in Positions
      BY <2>1, TargetSets, FS_EmptySet
    <2> QED
      BY <2>1, <2>2 DEF Analyze, Enter, Recheck, AnalysisFails, AnalysisSucceeds, Leave,
             ArchiveStores, ArchiveFails, StagesFit, result
  <1>2. Targets' = Targets /\ Targets \subseteq Positions
    BY <1>1, TargetSets, FS_EmptySet DEF Targets
  <1>3. CASE AnalysisFails(i) \/ ArchiveStores(i)
    <2>1. i \notin finished
      BY <1>1, <1>3 DEF AnalysisFails, ArchiveStores, TasksFit, FinishedIsAccountedFor
    <2>2. finished' = finished \cup {i}
      BY <1>3 DEF AnalysisFails, ArchiveStores, CursorFinish
    <2>3. Ended("failed")' \in {Ended("failed"), Ended("failed") \cup {i}}
      <3>1. outcome' = outcome \/ outcome' = [outcome EXCEPT ![i] = "failed"]
        BY <1>3 DEF AnalysisFails, ArchiveStores
      <3> QED
        BY <1>1, <1>2, <3>1 DEF Ended, TypeOK
    <2>4. Window!Finish
      BY <1>1, <2>1, <2>2, <2>3 DEF Window!Finish
    <2> QED
      BY <2>4 DEF Window!Next
  <1>4. CASE ~(AnalysisFails(i) \/ ArchiveStores(i))
    <2>1. finished' = finished
      BY <1>4 DEF Analyze, Enter, Recheck, AnalysisSucceeds, Leave, ArchiveFails, progress
    <2>2. \/ outcome' = outcome
          \/ /\ outcome[i] \in {"none", "ok"}
             /\ \E how \in {"ok", "halted", "deferred", "archiveFailed"} :
                  outcome' = [outcome EXCEPT ![i] = how]
      BY <1>1, <1>4 DEF Analyze, Enter, Recheck, Gate, EndTask, AnalysisSucceeds, Leave,
                        ArchiveFails, TasksFit
    <2>3. Ended("failed")' = Ended("failed")
      BY <1>1, <1>2, <2>2 DEF Ended, TypeOK
    <2> QED
      BY <1>1, <2>1, <2>3 DEF Window!vars
  <1> QED
    BY <1>3, <1>4

(* A step of the run reports, commits or gives up.                          *)
LEMMA WindowRunStep ==
    ASSUME IInv, Select \/ Gathered \/ SendDigest
    PROVE  [Window!Next]_(Window!vars)
  <1>1. /\ stage \in {"select", "analyze", "digest"} /\ status \in {"queued", "running"}
        /\ UNCHANGED <<finished, digestItems, stored>>
        /\ stage = "select" => digestItems = {}
    BY DEF IInv, Select, Gathered, SendDigest, StagesFit, progress, result
  <1>0. Ended("failed")' = Ended("failed")
    <2>1. outcome' = outcome /\ (total' = total \/ stage = "select")
      BY DEF Select, Gathered, SendDigest, tasks
    <2>2. CASE total' = total
      BY <2>1, <2>2 DEF Ended, Targets
    <2>3. CASE stage = "select"
      <3>1. \A i \in Positions : outcome[i] = "none"
        BY <2>3 DEF IInv, StagesFit
      <3>2. Targets \subseteq Positions /\ Targets' \subseteq Positions
        <4>1. total' \in 0..MaxTargets /\ total \in 0..MaxTargets
          BY <2>3, TargetsAssumption DEF IInv, TypeOK, Select, Gathered, SendDigest
        <4> QED
          BY <4>1, TargetsAssumption DEF Targets, Positions
      <3> QED
        BY <2>1, <3>1, <3>2 DEF Ended
    <2> QED
      BY <2>1, <2>2, <2>3
  <1>2. CASE stage' = "commit"
    <2>1. status' \notin {"completed", "partial"}
      BY <1>1, <1>2 DEF Select, Gathered, SendDigest, End
    <2>2. digestItems = finished \ Ended("failed")
      <3>1. finished \subseteq Targets /\ digestItems \subseteq Targets /\ Targets \subseteq Positions
        BY TargetSets, FS_EmptySet DEF IInv, CursorFits
      <3>2. \A i \in Targets : i \in digestItems => i \in finished /\ i \notin Ended("failed")
        BY <3>1 DEF IInv, TasksFit, FinishedIsAccountedFor, Ended
      <3>3. \A i \in Targets : i \in finished => i \in digestItems \/ i \in Ended("failed")
        BY <3>1 DEF IInv, FinishedIsAccountedFor, Ended
      <3> QED
        BY <3>1, <3>2, <3>3
    <2>3. Window!Report
      BY <1>0, <1>1, <1>2, <2>1, <2>2 DEF Window!Report
    <2> QED
      BY <2>3 DEF Window!Next
  <1>3. CASE stage' = "done"
    <2>1. status' = "failed" \/ (status' = "completed" /\ digestItems = {})
      BY <1>1, <1>3 DEF Select, Gathered, SendDigest, End
    <2>2. Window!GiveUp
      BY <1>0, <1>1, <1>3, <2>1 DEF Window!GiveUp
    <2> QED
      BY <2>2 DEF Window!Next
  <1>4. CASE stage' \notin {"commit", "done"}
    <2>1. status' \in {"queued", "running"}
      BY <1>1, <1>4 DEF Select, Gathered, SendDigest, End
    <2> QED
      BY <1>0, <1>1, <1>4, <2>1 DEF Window!vars
  <1> QED
    BY <1>2, <1>3, <1>4

LEMMA WindowCommitStep ==
    ASSUME IInv, Commit
    PROVE  [Window!Next]_(Window!vars)
  <1>1. /\ stage = "commit" /\ stage' = "done" /\ status' \in {"completed", "partial"}
        /\ UNCHANGED <<finished, digestItems>> /\ Ended("failed")' = Ended("failed")
        /\ watermark \in Nat /\ stored \in Nat
    BY DEF IInv, Commit, End, TypeOK, progress, tasks, Ended, Targets
  <1>2. stored' = stored \/ (commits /\ watermark > stored /\ stored' = watermark)
    BY DEF Commit
  <1>3. stored' # stored => /\ stored' \in {Date[i] : i \in Window!Prefix(finished)}
                            /\ Window!Newest(Window!Prefix(finished), stored')
                            /\ stored' > stored
    <2> SUFFICES ASSUME stored' # stored
                 PROVE  /\ stored' \in {Date[i] : i \in Window!Prefix(finished)}
                        /\ Window!Newest(Window!Prefix(finished), stored')
                        /\ stored' > stored
      OBVIOUS
    <2>1. commits /\ watermark > 0 /\ stored' = watermark /\ watermark > stored
      BY <1>1, <1>2
    <2> QED
      BY <2>1, <1>1, WatermarkIsNewest
  <1>4. Window!Commit
    BY <1>1, <1>3 DEF Window!Commit
  <1> QED
    BY <1>4 DEF Window!Next

(* Every step of the run is a step of RunWindow or leaves it as it is: the  *)
(* checkpoint is raised once, after the digest stage, and only to the       *)
(* newest date of the unbroken prefix.                                      *)
THEOREM RunImplementsWindow == Spec => ImplementsWindow
  <1>1. IInv /\ [Next]_vars => [Window!Next]_(Window!vars)
    <2> SUFFICES ASSUME IInv, [Next]_vars PROVE [Window!Next]_(Window!vars)
      OBVIOUS
    <2>1. CASE BudgetRunsOut \/ UNCHANGED vars
      <3>1. UNCHANGED <<stage, status, finished, digestItems, stored, outcome, total>>
        BY <2>1 DEF BudgetRunsOut, vars, tasks, progress, result
      <3>2. Ended("failed")' = Ended("failed")
        BY <3>1 DEF Ended, Targets
      <3> QED
        BY <3>1, <3>2 DEF Window!vars
    <2> QED
      BY <2>1, WindowTaskStep, WindowRunStep, WindowCommitStep DEF Next
  <1> QED
    BY <1>1, WindowInit, Invariance, PTL DEF Spec, ImplementsWindow, Window!Spec

-----------------------------------------------------------------------------
(* Why a run ends: the two facts that RunEnds needs besides fairness.       *)

(* What a task still has to go through.  A woken task may have to wait      *)
(* again: it is no further for it.                                          *)
Left(where) ==
    CASE where = "queued" -> 5
      [] where \in {"waiting", "woken"} -> 4
      [] where = "analyzing" -> 3
      [] where = "leaving" -> 2
      [] where = "archiving" -> 1
      [] OTHER -> 0

AtLeast(k) == {i \in Targets : Left(task[i]) >= k}

Woken == {i \in Targets : task[i] = "woken"}

TasksLeft == Cardinality(AtLeast(1)) + Cardinality(AtLeast(2)) + Cardinality(AtLeast(3))
                + Cardinality(AtLeast(4)) + Cardinality(AtLeast(5))

(* One step forward of a task outweighs all the waiters it may wake.        *)
Effort == (total + 1) * TasksLeft + Cardinality(Woken) + (IF inBudget THEN 1 ELSE 0)

StagesLeft ==
    CASE stage = "select" -> 4
      [] stage = "analyze" -> 3
      [] stage = "digest" -> 2
      [] stage = "commit" -> 1
      [] OTHER -> 0

(* Every step of a run takes it to a later stage or lowers what is left of  *)
(* the one it is in: nothing the tasks do to one another goes on for ever.  *)
RunIsBounded ==
    [][StagesLeft' < StagesLeft \/ (StagesLeft' = StagesLeft /\ Effort' < Effort)]_vars

(* A task the event loop can run: one past the gate or notified, or the     *)
(* next in the queue of the semaphore when a slot is free.                  *)
CanMove(i) ==
    \/ task[i] \in {"woken", "analyzing", "leaving", "archiving"}
    \/ /\ task[i] = "queued" /\ \A j \in Targets : j < i => task[j] # "queued"
       /\ Cardinality(Holding) < MaxConcurrentAnalyses

(* The tasks never all wait on one another: as long as one has not ended,   *)
(* one can move, whoever holds the slots of the semaphore.                  *)
SomebodyCanMove ==
    stage = "analyze" => \/ \A i \in Targets : task[i] = "done"
                         \/ \E i \in Targets : CanMove(i)

(* A task waits on the condition only while an analysis that will notify it *)
(* is running.                                                              *)
WaitersAreNotified == (\E i \in Targets : task[i] = "waiting") => active > 0

LEMMA InitWaiters == Init => WaitersAreNotified
  <1> SUFFICES ASSUME Init, NEW i \in Targets PROVE FALSE
    BY DEF WaitersAreNotified
  <1> QED
    BY DEF Init, Targets

(* The last analysis that leaves wakes every waiter.                        *)
LEMMA NextWaiters ==
    ASSUME IInv, WaitersAreNotified, [Next]_vars
    PROVE  WaitersAreNotified'
  <1>1. active \in Nat /\ task \in [Positions -> TaskStates]
    BY CounterBounds DEF IInv, TypeOK
  <1>2. ASSUME NEW i \in Targets, Gate(i), total' = total
        PROVE  WaitersAreNotified'
    <2>1. \/ active' = active /\ active > 0
          \/ active' = active + 1
          \/ active' = active /\ (task' = [task EXCEPT ![i] = "done"])
      BY <1>2 DEF Gate, EndTask, Move
    <2>2. CASE active' > 0
      BY <2>2 DEF WaitersAreNotified
    <2>3. CASE active' = active /\ task' = [task EXCEPT ![i] = "done"]
      <3>1. \A j \in Targets' : task'[j] = "waiting" => j \in Targets /\ task[j] = "waiting"
        BY <1>1, <1>2, <2>3, TargetSets DEF Targets, IInv
      <3> QED
        BY <2>3, <3>1 DEF WaitersAreNotified
    <2> QED
      BY <1>1, <2>1, <2>2, <2>3
  <1>3. ASSUME NEW i \in Targets, Leave(i) PROVE WaitersAreNotified'
    <2>1. \A j \in Positions : task'[j] # "waiting"
      BY <1>3 DEF Leave
    <2>2. Targets' \subseteq Positions
      BY <1>3, TargetSets DEF Leave, Targets, IInv
    <2> QED
      BY <2>1, <2>2 DEF WaitersAreNotified
  <1>4. ASSUME NEW i \in Targets, NEW to \in {"leaving", "done"}, Move(i, to), UNCHANGED <<total, active>>
        PROVE  WaitersAreNotified'
    <2>1. \A j \in Targets' : task'[j] = "waiting" => j \in Targets /\ task[j] = "waiting"
      BY <1>1, <1>4, TargetSets DEF Targets, Move, IInv
    <2> QED
      BY <1>4, <2>1 DEF WaitersAreNotified
  <1>5. ASSUME NEW i \in Targets, Analyze(i) PROVE WaitersAreNotified'
    <2>1. CASE Enter(i) \/ Recheck(i)
      BY <1>2, <2>1 DEF Enter, Recheck
    <2>2. CASE AnalysisFails(i) \/ AnalysisSucceeds(i) \/ ArchiveStores(i) \/ ArchiveFails(i)
      BY <1>4, <2>2 DEF AnalysisFails, AnalysisSucceeds, ArchiveStores, ArchiveFails, EndTask, gate
    <2> QED
      BY <1>3, <1>5, <2>1, <2>2 DEF Analyze
  <1>6. CASE Select
    <2>1. \A j \in Positions : task'[j] = "queued"
      BY <1>6 DEF Select, IInv, StagesFit, tasks
    <2>2. Targets' \subseteq Positions
      BY <1>6, TargetSets, TargetsAssumption DEF Select, Targets, Positions, IInv, TypeOK
    <2> QED
      BY <2>1, <2>2 DEF WaitersAreNotified
  <1>7. CASE UNCHANGED <<total, tasks, active>>
    BY <1>7 DEF WaitersAreNotified, Targets, tasks
  <1> QED
    BY <1>5, <1>6, <1>7
       DEF Next, BudgetRunsOut, Gathered, SendDigest, Commit, vars, gate

(* A set of natural numbers that is not empty has a smallest one.           *)
LEMMA SmallestExists ==
    ASSUME NEW S, S \subseteq Nat, S # {}
    PROVE  \E n \in S : \A m \in S : n <= m
  <1> DEFINE R == {ss \in Nat \X Nat : ss[1] < ss[2]}
  <1>1. IsWellFoundedOn(R, Nat)
    BY NatLessThanWellFounded DEF OpToRel
  <1>2. PICK n \in S : \A m \in S : <<m, n>> \notin R
    <2> HIDE DEF R
    <2> QED
      BY <1>1, WFMin
  <1>3. \A m \in S : ~(m < n)
    BY <1>2
  <1> QED
    BY <1>3

(* Of the queued targets one is first.                                      *)
LEMMA FirstQueued ==
    ASSUME TypeOK, NEW i \in Targets, task[i] = "queued"
    PROVE  \E k \in Targets : task[k] = "queued" /\ \A j \in Targets : j < k => task[j] # "queued"
  <1> DEFINE Q == {j \in Targets : task[j] = "queued"}
  <1>1. Q \subseteq Nat /\ i \in Q
    BY TargetSets DEF Targets
  <1>2. PICK k \in Q : \A j \in Q : k <= j
    BY <1>1, SmallestExists
  <1>3. \A j \in Targets : j < k => j \notin Q
    BY <1>1, <1>2, TargetSets DEF Targets
  <1> QED
    BY <1>2, <1>3

LEMMA SomebodyMoves ==
    IInv /\ WaitersAreNotified => SomebodyCanMove
  <1> SUFFICES ASSUME IInv, WaitersAreNotified, NEW i \in Targets, task[i] # "done"
               PROVE  \E k \in Targets : CanMove(k)
    BY DEF SomebodyCanMove
  <1>1. TypeOK /\ CountersFit
    BY DEF IInv
  <1>2. CASE Holding = {}
    <2>1. Cardinality(Holding) < MaxConcurrentAnalyses
      BY <1>2, FS_EmptySet, ConcurrencyAssumption
    <2>2. task[i] = "queued"
      BY <1>2 DEF Holding
    <2> QED
      BY <1>1, <2>1, <2>2, FirstQueued DEF CanMove
  <1>3. CASE Holding # {}
    <2>1. PICK k \in Targets : task[k] \notin {"queued", "done"}
      BY <1>3 DEF Holding
    <2>2. CASE task[k] = "waiting"
      <3>1. Cardinality(Running) > 0
        BY <1>1, <2>2 DEF WaitersAreNotified, CountersFit
      <3>2. Running # {}
        BY <3>1, FS_EmptySet
      <3> QED
        BY <3>2 DEF Running, CanMove
    <2>3. CASE task[k] # "waiting"
      <3>1. task[k] \in TaskStates
        BY <1>1, TargetSets DEF TypeOK
      <3> QED
        BY <2>1, <2>3, <3>1 DEF TaskStates, CanMove
    <2> QED
      BY <2>2, <2>3
  <1> QED
    BY <1>2, <1>3

(* No run stands still before its tasks have ended: someone can always      *)
(* move, for any number of targets and slots, and who waits on the          *)
(* condition waits for an analysis that is running.                         *)
THEOREM NobodyWaitsForGood == Spec => [](WaitersAreNotified /\ SomebodyCanMove)
  <1>1. IInv /\ WaitersAreNotified /\ [Next]_vars => WaitersAreNotified'
    BY NextWaiters
  <1> QED
    BY <1>1, InitWaiters, SomebodyMoves, Invariance, PTL DEF Spec


(* What a step of a task does to where the tasks are: it takes one of them  *)
(* forward and none back, or has a woken one wait again.                    *)
Forward(i) ==
    /\ Left(task'[i]) < Left(task[i])
    /\ \A j \in Positions : Left(task'[j]) <= Left(task[j])

WaitsAgain(i) ==
    /\ task[i] = "woken"
    /\ task' = [task EXCEPT ![i] = "waiting"]

LEMMA LeftIsNatural == ASSUME NEW where PROVE Left(where) \in 0..5
  BY DEF Left

(* A task taken on is nearer its end, and the others are where they were.   *)
LEMMA MoveForward ==
    ASSUME IInv, NEW i \in Positions, NEW to, Move(i, to), Left(to) < Left(task[i])
    PROVE  Forward(i)
  <1>1. task'[i] = to /\ \A j \in Positions : j # i => task'[j] = task[j]
    BY DEF IInv, TypeOK, Move
  <1>2. ASSUME NEW j \in Positions PROVE Left(task'[j]) <= Left(task[j])
    <2>1. Left(task[j]) \in Nat /\ Left(task'[j]) \in Nat
      BY LeftIsNatural
    <2>2. CASE j = i
      BY <1>1, <2>1, <2>2
    <2>3. CASE j # i
      <3>1. Left(task'[j]) = Left(task[j])
        BY <1>1, <2>3
      <3> QED
        BY <2>1, <3>1
    <2> QED
      BY <2>2, <2>3
  <1> QED
    BY <1>1, <1>2 DEF Forward

LEMMA TaskForward ==
    ASSUME IInv, NEW i \in Targets, Analyze(i)
    PROVE  /\ Forward(i) \/ WaitsAgain(i)
           /\ UNCHANGED <<total, stage, inBudget>>
  <1>1. i \in Positions
    BY TargetSets DEF IInv
  <1>2. UNCHANGED <<total, stage, inBudget>>
    BY DEF Analyze, Enter, Recheck, AnalysisFails, AnalysisSucceeds, Leave, ArchiveStores,
           ArchiveFails, gate
  <1>3. CASE Gate(i) /\ task[i] \in {"queued", "woken"}
    <2>1. PICK to \in {"waiting", "analyzing", "done"} : Move(i, to)
      BY <1>3 DEF Gate, EndTask
    <2>2. CASE to = "waiting" /\ task[i] = "woken"
      BY <1>2, <2>1, <2>2 DEF Move, WaitsAgain
    <2>3. CASE ~(to = "waiting" /\ task[i] = "woken")
      <3>1. Left(to) < Left(task[i])
        BY <1>3, <2>3 DEF Left
      <3> QED
        BY <1>1, <1>2, <2>1, <3>1, MoveForward
    <2> QED
      BY <1>2, <2>2, <2>3
  <1>4. CASE AnalysisFails(i) \/ AnalysisSucceeds(i)
    <2>1. Move(i, "leaving") /\ Left("leaving") < Left(task[i])
      BY <1>4 DEF AnalysisFails, AnalysisSucceeds, Left
    <2> QED
      BY <1>1, <1>2, <2>1, MoveForward
  <1>5. CASE ArchiveStores(i) \/ ArchiveFails(i)
    <2>1. Move(i, "done") /\ Left("done") < Left(task[i])
      BY <1>5 DEF ArchiveStores, ArchiveFails, EndTask, Left
    <2> QED
      BY <1>1, <1>2, <2>1, MoveForward
  <1>6. CASE Leave(i)
    <2>1. /\ task[i] = "leaving" /\ task'[i] \in {"archiving", "done"}
          /\ \A j \in Positions \ {i} :
                task'[j] = task[j] \/ (task[j] = "waiting" /\ task'[j] = "woken")
      BY <1>1, <1>6 DEF Leave
    <2>2. Left(task'[i]) < Left(task[i])
      BY <2>1 DEF Left
    <2>3. ASSUME NEW j \in Positions \ {i} PROVE Left(task'[j]) = Left(task[j])
      BY <2>1 DEF Left
    <2>4. \A j \in Positions : Left(task[j]) \in Nat /\ Left(task'[j]) \in Nat
      BY LeftIsNatural
    <2> QED
      BY <1>2, <2>2, <2>3, <2>4 DEF Forward
  <1> QED
    BY <1>3, <1>4, <1>5, <1>6 DEF Analyze, Enter, Recheck

(* The sets counted are finite.                                             *)
CountsFit ==
    /\ Cardinality(Woken) \in 0..total
    /\ TasksLeft \in Nat /\ Effort \in Nat /\ total \in Nat

LEMMA CountsAreNatural == TypeOK => CountsFit
  <1> SUFFICES ASSUME TypeOK PROVE CountsFit
    OBVIOUS
  <1>1. \A k \in 1..5 : AtLeast(k) \subseteq Targets
    BY DEF AtLeast
  <1>2. ASSUME NEW k \in 1..5 PROVE Cardinality(AtLeast(k)) \in Nat
    BY <1>1, TargetSets
  <1>3. Cardinality(Woken) \in Nat /\ Cardinality(Woken) <= total /\ total \in Nat
    <2>1. Woken \subseteq Targets
      BY DEF Woken
    <2> QED
      BY <2>1, TargetSets
  <1>4. TasksLeft \in Nat
    BY <1>2 DEF TasksLeft
  <1>5. (total + 1) * TasksLeft \in Nat
    BY <1>3, <1>4
  <1>6. Effort \in Nat
    BY <1>3, <1>5 DEF Effort
  <1> QED
    BY <1>3, <1>4, <1>6 DEF CountsFit

(* One task forward is one fewer at some stage of its way.                  *)
LEMMA ForwardCounts ==
    ASSUME IInv, IInv', NEW i \in Targets, Forward(i), total' = total
    PROVE  TasksLeft' <= TasksLeft - 1
  <1> DEFINE k0 == Left(task[i])
  <1>0. TypeOK /\ TypeOK' /\ Targets' = Targets /\ Targets \subseteq Positions /\ i \in Positions
    BY TargetSets DEF IInv, Targets
  <1>1. \A j \in Positions : Left(task[j]) \in Nat /\ Left(task'[j]) \in Nat
    BY LeftIsNatural
  <1>2. k0 \in 1..5
    <2>1. k0 \in 0..5 /\ Left(task'[i]) \in 0..5 /\ Left(task'[i]) < k0
      BY LeftIsNatural DEF Forward
    <2> QED
      BY <2>1
  <1>3. ASSUME NEW k \in 1..5
        PROVE  /\ IsFiniteSet(AtLeast(k)) /\ AtLeast(k)' \subseteq AtLeast(k)
               /\ Cardinality(AtLeast(k)) \in Nat /\ Cardinality(AtLeast(k)') \in Nat
               /\ Cardinality(AtLeast(k)') <= Cardinality(AtLeast(k))
               /\ k = k0 => Cardinality(AtLeast(k)') < Cardinality(AtLeast(k))
    <2>1. \A j : /\ j \in AtLeast(k) <=> j \in Targets /\ Left(task[j]) >= k
                 /\ j \in AtLeast(k)' <=> j \in Targets /\ Left(task'[j]) >= k
      BY <1>0 DEF AtLeast
    <2>2. AtLeast(k)' \subseteq AtLeast(k)
      BY <1>0, <1>1, <2>1 DEF Forward
    <2>3. IsFiniteSet(AtLeast(k))
      BY <1>0, <2>1, TargetSets DEF AtLeast
    <2>4. /\ Cardinality(AtLeast(k)') <= Cardinality(AtLeast(k))
          /\ AtLeast(k)' # AtLeast(k) => Cardinality(AtLeast(k)') < Cardinality(AtLeast(k))
          /\ Cardinality(AtLeast(k)) \in Nat /\ Cardinality(AtLeast(k)') \in Nat
      BY <2>2, <2>3, FS_Subset, FS_CardinalityType
    <2>5. k = k0 => i \in AtLeast(k) /\ i \notin AtLeast(k)'
      BY <1>0, <1>1, <2>1 DEF Forward
    <2> QED
      BY <2>2, <2>3, <2>4, <2>5
  <1> HIDE DEF k0
  <1> DEFINE Falls(k) ==
               /\ Cardinality(AtLeast(k)) \in Nat /\ Cardinality(AtLeast(k)') \in Nat
               /\ Cardinality(AtLeast(k)') <= Cardinality(AtLeast(k))
               /\ k = k0 => Cardinality(AtLeast(k)') <= Cardinality(AtLeast(k)) - 1
  <1>4. \A k \in 1..5 : Falls(k)
    BY <1>3
  <1>5. Falls(1) /\ Falls(2) /\ Falls(3) /\ Falls(4) /\ Falls(5)
    <2> HIDE DEF Falls
    <2>1. 1 \in 1..5 /\ 2 \in 1..5 /\ 3 \in 1..5 /\ 4 \in 1..5 /\ 5 \in 1..5
      OBVIOUS
    <2> QED
      BY <1>4, <2>1
  <1>6. k0 = 1 \/ k0 = 2 \/ k0 = 3 \/ k0 = 4 \/ k0 = 5
    BY <1>2
  <1> QED
    BY <1>5, <1>6 DEF TasksLeft

(* One step forward outweighs every waiter it wakes.                        *)
LEMMA Outweighs ==
    ASSUME NEW t \in Nat, NEW a \in Nat, NEW b \in Nat, b <= a - 1,
           NEW w \in 0..t, NEW v \in 0..t, NEW r \in Nat
    PROVE  (t + 1) * b + v + r < (t + 1) * a + w + r
  <1>1. PICK d \in Nat : a = b + 1 + d
    <2>1. a - 1 - b \in Nat /\ a = b + 1 + (a - 1 - b)
      OBVIOUS
    <2> QED
      BY <2>1
  <1>2. (t + 1) * (b + 1 + d) = (t + 1) * b + (t + 1) + (t + 1) * d
    OBVIOUS
  <1>3. (t + 1) * d \in Nat /\ (t + 1) * b \in Nat
    OBVIOUS
  <1> QED
    BY <1>1, <1>2, <1>3

LEMMA TaskLowersEffort ==
    ASSUME IInv, IInv', NEW i \in Targets, Analyze(i)
    PROVE  StagesLeft' = StagesLeft /\ Effort' < Effort
  <1>1. UNCHANGED <<total, stage, inBudget>> /\ TypeOK /\ TypeOK'
    BY TaskForward DEF IInv
  <1>2. StagesLeft' = StagesLeft
    BY <1>1 DEF StagesLeft
  <1> DEFINE rest == IF inBudget THEN 1 ELSE 0
  <1>3. /\ total \in Nat /\ TasksLeft \in Nat /\ TasksLeft' \in Nat
        /\ Cardinality(Woken) \in 0..total /\ Cardinality(Woken') \in 0..total
        /\ rest \in Nat
        /\ Effort = (total + 1) * TasksLeft + Cardinality(Woken) + rest
        /\ Effort' = (total + 1) * TasksLeft' + Cardinality(Woken') + rest
    <2>1. CountsFit
      BY <1>1, CountsAreNatural
    <2>2. CountsFit'
      BY <1>1, CountsAreNatural, PTL
    <2> QED
      BY <1>1, <2>1, <2>2 DEF CountsFit, Effort
  <1>4. CASE Forward(i)
    <2>1. TasksLeft' <= TasksLeft - 1
      BY <1>1, <1>4, ForwardCounts
    <2> QED
      BY <1>2, <1>3, <2>1, Outweighs
  <1>5. CASE WaitsAgain(i)
    <2>1. Targets' = Targets /\ i \in Positions /\ Targets \subseteq Positions
      BY <1>1, TargetSets DEF Targets
    <2>2. task'[i] = "waiting" /\ task[i] = "woken" /\ \A j \in Positions : j # i => task'[j] = task[j]
      BY <1>1, <1>5, <2>1 DEF WaitsAgain, TypeOK
    <2>3. \A j \in Positions : Left(task'[j]) = Left(task[j])
      BY <2>2 DEF Left
    <2>4. \A k : AtLeast(k)' = AtLeast(k)
      BY <2>1, <2>3 DEF AtLeast
    <2>5. TasksLeft' = TasksLeft
      BY <2>4 DEF TasksLeft
    <2>6. Woken' = Woken \ {i} /\ i \in Woken
      BY <2>1, <2>2 DEF Woken
    <2>7. IsFiniteSet(Woken)
      BY <1>1, TargetSets DEF Woken
    <2>8. Cardinality(Woken') = Cardinality(Woken) - 1
      BY <2>6, <2>7, FS_RemoveElement
    <2>9. (total + 1) * TasksLeft \in Nat
      <3>1. total \in Nat /\ TasksLeft \in Nat
        BY <1>3
      <3> QED
        BY <3>1
    <2> QED
      BY <1>2, <1>3, <2>5, <2>8, <2>9
  <1> QED
    BY <1>4, <1>5, TaskForward

(* A run is bounded: each of its steps takes it to a later stage or lowers  *)
(* a natural number, whatever order its tasks run in, fail or wait in.      *)
THEOREM RunsAreBounded == Spec => RunIsBounded /\ [](Effort \in Nat)
  <1> DEFINE Lower == StagesLeft' < StagesLeft \/ (StagesLeft' = StagesLeft /\ Effort' < Effort)
  <1>1. ASSUME IInv, IInv', Next PROVE Lower
    <2>1. ASSUME NEW i \in Targets, Analyze(i) PROVE Lower
      BY <1>1, <2>1, TaskLowersEffort
    <2>2. CASE BudgetRunsOut
      <3>1. /\ UNCHANGED <<total, stage, task>> /\ inBudget /\ ~inBudget'
        BY <2>2 DEF BudgetRunsOut, tasks
      <3>2. TasksLeft' = TasksLeft /\ Woken' = Woken
        BY <3>1 DEF TasksLeft, AtLeast, Woken, Targets
      <3>3. CountsFit
        BY CountsAreNatural, <1>1 DEF IInv
      <3>4. (total + 1) * TasksLeft \in Nat /\ Cardinality(Woken) \in Nat
        BY <3>3 DEF CountsFit
      <3>5. Effort' < Effort
        BY <3>1, <3>2, <3>4 DEF Effort
      <3> QED
        BY <3>1, <3>5 DEF StagesLeft
    <2>3. CASE Select \/ Gathered \/ SendDigest \/ Commit
      <3>1. \/ stage = "select" /\ stage' \in {"analyze", "commit", "done"}
            \/ stage = "analyze" /\ stage' \in {"digest", "commit", "done"}
            \/ stage = "digest" /\ stage' \in {"commit", "done"}
            \/ stage = "commit" /\ stage' = "done"
        BY <2>3 DEF Select, Gathered, SendDigest, Commit, End
      <3> QED
        BY <3>1 DEF StagesLeft
    <2> QED
      BY <1>1, <2>1, <2>2, <2>3 DEF Next
  <1>2. IInv /\ IInv' /\ [Next]_vars => [Lower]_vars
    BY <1>1
  <1>3. IInv => Effort \in Nat
    BY CountsAreNatural DEF IInv, CountsFit
  <1> QED
    BY <1>2, <1>3, Invariance, PTL DEF Spec, RunIsBounded

-----------------------------------------------------------------------------
(* What a run leaves behind.                                                *)

(* A run that has moved the checkpoint has ended, as completed or partial,  *)
(* and left it at its watermark.                                            *)
Earned ==
    /\ dryRun => \A i \in Positions : task[i] = "queued"
    /\ stage \in {"select", "analyze"} => ~emailSent
    /\ stage # "done" => ~committed
    /\ committed => /\ status \in {"completed", "partial"}
                    /\ commits /\ ~dryRun /\ stored = watermark
    /\ ~committed => stored = 0
    /\ CommittedIsAccounted

(* Nothing happens in a run that is over.                                   *)
LEMMA DoneIsFinal == IInv /\ stage = "done" => ~Next
  <1> SUFFICES ASSUME IInv, stage = "done", Next PROVE FALSE
    OBVIOUS
  <1>1. PICK i \in Targets : Analyze(i)
    BY DEF Next, Select, BudgetRunsOut, Gathered, SendDigest, Commit
  <1>2. task[i] \in {"queued", "done"}
    BY DEF IInv, StagesFit
  <1> QED
    BY <1>1, <1>2 DEF Analyze, Enter, Recheck, AnalysisFails, AnalysisSucceeds, Leave, ArchiveStores, ArchiveFails

LEMMA CommitAccounts ==
    ASSUME IInv, Earned, Commit
    PROVE  Earned'
  <1>1. /\ stage = "commit" /\ stage' = "done" /\ status' \in {"completed", "partial"}
        /\ UNCHANGED <<commits, dryRun, total, task, outcome, watermark, digestItems, emailSent>>
        /\ stored = 0 /\ ~committed /\ Ended("archiveFailed") = {}
    BY DEF Commit, End, options, tasks, progress, Earned, CommittedIsAccounted
  <1>2. Ended("archiveFailed")' = {}
    BY <1>1 DEF Ended, Targets
  <1>3. CASE UNCHANGED <<stored, committed>>
    BY <1>1, <1>2, <1>3 DEF Earned, CommittedIsAccounted
  <1>4. CASE commits /\ ~dryRun /\ watermark > stored /\ stored' = watermark /\ committed' = TRUE
    <2>1. ASSUME NEW i \in Targets, Date[i] < watermark PROVE i \in digestItems \/ outcome[i] = "failed"
      <3>1. WatermarkCovers
        BY WatermarkCoversAll
      <3>2. Date[i] # 0 /\ Date[i] \in Nat
        BY <1>4, TargetSets, FS_EmptySet, DateAssumption DEF IInv, StagesFit
      <3>3. i \in finished
        BY <2>1, <3>1, <3>2 DEF WatermarkCovers
      <3> QED
        BY <3>3 DEF IInv, FinishedIsAccountedFor
    <2>2. CommittedIsAccounted'
      BY <1>1, <1>2, <1>4, <2>1 DEF CommittedIsAccounted, Targets
    <2> QED
      BY <1>1, <1>4, <2>2 DEF Earned
  <1> QED
    BY <1>3, <1>4 DEF Commit

(* The other steps change neither checkpoint nor answer; those after the    *)
(* gather are taken only if everything was archived.                        *)
LEMMA StepsEarn ==
    ASSUME IInv, Earned, Next, ~Commit
    PROVE  Earned'
  <1>0. /\ stage # "done" /\ ~committed /\ stored = 0 /\ StagesFit /\ TasksFit /\ TypeOK
        /\ UNCHANGED <<stored, committed, dryRun>>
    <2>1. UNCHANGED <<stored, committed, dryRun>>
      BY DEF Next, Select, Analyze, Enter, Recheck, AnalysisFails, AnalysisSucceeds, Leave,
             ArchiveStores, ArchiveFails, BudgetRunsOut, Gathered, SendDigest, result, options
    <2> QED
      BY <2>1, DoneIsFinal DEF Earned, IInv
  <1>1. CASE stage = "analyze" /\ stage' = "analyze"
    <2>1. emailSent' = emailSent
      BY <1>1 DEF Next, Select, Analyze, Enter, Recheck, AnalysisFails, AnalysisSucceeds, Leave,
             ArchiveStores, ArchiveFails, BudgetRunsOut, Gathered, SendDigest, result
    <2> QED
      BY <1>0, <1>1, <2>1 DEF Earned, CommittedIsAccounted, StagesFit
  <1>2. CASE Select
    <2>1. /\ UNCHANGED <<task, outcome, emailSent>> /\ ~emailSent
          /\ \A i \in Positions : outcome[i] = "none"
      BY <1>0, <1>2 DEF Select, tasks, result, StagesFit, Earned
    <2>2. Targets' \subseteq Positions
      <3>1. total' \in 0..MaxTargets
        BY <1>0, <1>2, TargetsAssumption DEF Select, TypeOK
      <3> QED
        BY <3>1, TargetsAssumption DEF Targets, Positions
    <2>3. Ended("archiveFailed")' = {}
      BY <2>1, <2>2 DEF Ended
    <2> QED
      BY <1>0, <2>1, <2>3 DEF Earned, CommittedIsAccounted
  <1>3. CASE Gathered \/ SendDigest
    <2>1. /\ UNCHANGED <<task, outcome, total>> /\ ~dryRun
          /\ stage' \notin {"select", "analyze"}
      BY <1>0, <1>3 DEF Gathered, SendDigest, End, tasks, StagesFit
    <2>2. Ended("archiveFailed")' = Ended("archiveFailed")
      BY <2>1 DEF Ended, Targets
    <2>3. stage' \in {"digest", "commit"} \/ emailSent' => Ended("archiveFailed") = {}
      BY <1>0, <1>3 DEF Gathered, SendDigest, End, Earned, CommittedIsAccounted, result
    <2> QED
      BY <1>0, <2>1, <2>2, <2>3 DEF Earned, CommittedIsAccounted
  <1>4. CASE ~(Select \/ Gathered \/ SendDigest)
    <2>1. BudgetRunsOut \/ \E i \in Targets : Analyze(i)
      BY <1>4 DEF Next
    <2>2. stage = "analyze" /\ stage' = stage
      <3>1. CASE BudgetRunsOut
        BY <3>1 DEF BudgetRunsOut
      <3>2. ASSUME NEW i \in Targets, Analyze(i) PROVE stage = "analyze" /\ stage' = stage
        <4>1. i \in Positions
          BY <1>0, TargetSets, FS_EmptySet
        <4> QED
          BY <1>0, <3>2, <4>1 DEF Analyze, Enter, Recheck, AnalysisFails, AnalysisSucceeds, Leave,
                                  ArchiveStores, ArchiveFails, StagesFit
      <3> QED
        BY <2>1, <3>1, <3>2
    <2> QED
      BY <1>1, <2>2
  <1> QED
    BY <1>2, <1>3, <1>4

(* Whatever its exit status, a run leaves nothing unaccounted for before    *)
(* the checkpoint it wrote, and one with a result that could not be         *)
(* archived sends no digest and leaves the window in place.                 *)
THEOREM CommitsAreEarned == Spec => []CommittedIsAccounted
  <1>1. Init => Earned
    BY DEF Init, Earned, CommittedIsAccounted, Ended
  <1>2. IInv /\ Earned /\ [Next]_vars => Earned'
    <2>1. ASSUME IInv, Earned, UNCHANGED vars PROVE Earned'
      BY <2>1 DEF vars, options, tasks, gate, progress, result, Earned, CommittedIsAccounted, Ended, Targets
    <2> QED
      BY <2>1, CommitAccounts, StepsEarn
  <1>3. Earned => CommittedIsAccounted
    BY DEF Earned
  <1> QED
    BY <1>1, <1>2, <1>3, Invariance, PTL DEF Spec
=============================================================================
