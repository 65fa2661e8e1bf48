---------------------------- MODULE DigestService ----------------------------
(***************************************************************************)
(* The digest pipeline as a whole: a feed of updates, the durable          *)
(* checkpoint, and any number of runs (scheduled jobs and API calls) that  *)
(* may overlap, fail or be killed.  A run is the sequence execute_run of   *)
(* src/orchestrator.py goes through, at the grain of RunWindow; the        *)
(* checkpoint is the register CheckpointStore is shown to implement.       *)
(*                                                                         *)
(* The question is whether the window can ever move past an update that no *)
(* digest reported and no analysis gave up on.  It can, in the ways named  *)
(* by Excuses; the ghost `fate' records each where it arises, and the      *)
(* theorem is that there is no other way.                                  *)
(***************************************************************************)
EXTENDS Naturals, FiniteSets

CONSTANTS
    Updates,        \* numbered in feed order, which a sort by date keeps
    Date,           \* publication date of each, to the second
    Jobs,           \* scheduled runs that may be in progress at once
    ApiRuns,        \* runs started through the API with a `since' of its own
    Lookback,       \* default_since: 24 hours
    MaxTime,        \* bound: the clock
    MaxReadFaults,  \* bound: failed reads of the checkpoint
    MaxFaults,      \* bound: runs that fail, are killed or cannot commit
    MaxResets       \* bound: checkpoints deleted by an operator

ASSUME UpdatesAssumption == Updates \subseteq Nat
ASSUME DateAssumption == Date \in [Updates -> Nat \ {0}]
ASSUME RunsAssumption == Jobs \cap ApiRuns = {}
ASSUME BoundsAssumption ==
    Lookback \in Nat /\ MaxTime \in Nat /\ MaxReadFaults \in Nat
        /\ MaxFaults \in Nat /\ MaxResets \in Nat

Runs == Jobs \cup ApiRuns

Excuses == {
    "late",         \* it entered the feed behind a newer or equally old update
    "noCheckpoint", \* no checkpoint was stored and it is older than the default
    "explicit",     \* an API caller named a later start
    "readFailed",   \* the checkpoint could not be read; the default was used
    "tied"}         \* it has the very date of the watermark, and was pending

VARIABLES
    now,            \* the clock
    feed,           \* updates published so far
    checkpoint,     \* the durable watermark, 0 for none
    resets,         \* how often an operator deleted it
    stage,          \* per run: "idle", "resolving", "fetching", "working", "reported"
    since,          \* per run: record.since, once resolved
    targets,        \* per run: the updates it selected
    finished,       \* per run: the targets it is done with
    items,          \* per run: those with a result, for its digest
    fate,           \* ghost: per update: "open", "settled" once a digest stage was
                    \* given it or its analysis failed, else the first excuse for it
    readFaults, faults

external == <<now, feed>>
register == <<checkpoint, resets>>
runs     == <<stage, since, targets, finished, items>>
counts   == <<readFaults, faults>>
vars     == <<external, register, runs, fate, counts>>

\* A digest takes only results of finished targets of its run: an analysis
\* whose archive write failed has neither finished nor left a result.
ItemsAreFinished ==
    \A r \in Runs :
        /\ items[r] \subseteq finished[r] /\ finished[r] \subseteq targets[r]
        /\ stage[r] \notin {"working", "reported"} => targets[r] = {}

\* The types of the pipeline, and that a run's results are of what it finished.
TypeOK ==
    /\ now \in Nat /\ checkpoint \in Nat /\ resets \in Nat
    /\ feed \subseteq Updates
    /\ stage \in [Runs -> {"idle", "resolving", "fetching", "working", "reported"}]
    /\ since \in [Runs -> Nat]
    /\ targets \in [Runs -> SUBSET Updates]
    /\ finished \in [Runs -> SUBSET Updates]
    /\ items \in [Runs -> SUBSET Updates]
    /\ fate \in [Updates -> {"open", "settled"} \cup Excuses]
    /\ readFaults \in Nat /\ faults \in Nat
    /\ ItemsAreFinished

Init ==
    /\ now = 0 /\ feed = {} /\ checkpoint = 0 /\ resets = 0
    /\ stage = [r \in Runs |-> "idle"]
    /\ since = [r \in Runs |-> 0]
    /\ targets = [r \in Runs |-> {}]
    /\ finished = [r \in Runs |-> {}]
    /\ items = [r \in Runs |-> {}]
    /\ fate = [u \in Updates |-> "open"]
    /\ readFaults = 0 /\ faults = 0

-----------------------------------------------------------------------------
(* The world around the runs *)

Register == INSTANCE MonotoneRegister WITH value <- checkpoint

\* The updates of S that nothing has settled or excused so far get an excuse.
Excuse(S, cause) ==
    fate' = [u \in Updates |-> IF u \in S /\ fate[u] = "open" THEN cause ELSE fate[u]]

Settle(S) == fate' = [u \in Updates |-> IF u \in S THEN "settled" ELSE fate[u]]

Tick ==
    /\ now < MaxTime /\ now' = now + 1
    /\ UNCHANGED <<feed, register, runs, fate, counts>>

\* Not yet in the feed, although an update at least as new is.
Behind(u) == u \notin feed /\ \E v \in feed : Date[u] <= Date[v]

\* New entries of the RSS feed; one that appears behind another is recorded.
Publish ==
    /\ \E new \in SUBSET (Updates \ feed) :
        /\ new # {} /\ \A u \in new : Date[u] <= now
        /\ feed' = feed \cup new
        /\ Excuse({u \in new : Behind(u)}, "late")
    /\ UNCHANGED <<now, register, runs, counts>>

\* "Reset the analysis window": the operator deletes the blob.
ResetWindow ==
    /\ resets < MaxResets /\ checkpoint # 0
    /\ Register!Reset
    /\ UNCHANGED <<external, runs, fate, counts>>

-----------------------------------------------------------------------------
(* One run *)

Move(r, from, to) == stage[r] = from /\ stage' = [stage EXCEPT ![r] = to]

\* The record is forgotten; nothing of a run outlives it but its effects.
Forget(r) ==
    /\ stage' = [stage EXCEPT ![r] = "idle"]
    /\ since' = [since EXCEPT ![r] = 0]
    /\ targets' = [targets EXCEPT ![r] = {}]
    /\ finished' = [finished EXCEPT ![r] = {}]
    /\ items' = [items EXCEPT ![r] = {}]

\* Starting from s leaves out what lies between the checkpoint and s.
StartFrom(r, s, cause) ==
    /\ since' = [since EXCEPT ![r] = s]
    /\ Excuse({u \in Updates : checkpoint < Date[u] /\ Date[u] <= s}, cause)

\* default_since: 24 hours back.  The dates of the model begin at 1, so that a
\* start before them is the same as 0.
DefaultSince == IF now > Lookback THEN now - Lookback ELSE 0

StartJob(r) ==
    /\ r \in Jobs /\ Move(r, "idle", "resolving")
    /\ UNCHANGED <<external, register, since, targets, finished, items, fate, counts>>

\* POST /api/orchestrate/run with an explicit `since': it commits like a job.
StartExplicit(r) ==
    /\ r \in ApiRuns /\ Move(r, "idle", "fetching")
    /\ \E s \in 0..now : StartFrom(r, s, "explicit")
    /\ UNCHANGED <<external, register, targets, finished, items, counts>>

\* resolve_since: the stored watermark, or the last 24 hours without one.
Resolve(r) ==
    /\ Move(r, "resolving", "fetching")
    /\ IF checkpoint # 0
       THEN since' = [since EXCEPT ![r] = checkpoint] /\ UNCHANGED fate
       ELSE StartFrom(r, DefaultSince, "noCheckpoint")
    /\ UNCHANGED <<external, register, targets, finished, items, counts>>

\* resolve_since: the read raises, and the run starts from the last 24 hours.
ResolveBlind(r) ==
    /\ readFaults < MaxReadFaults /\ readFaults' = readFaults + 1
    /\ Move(r, "resolving", "fetching")
    /\ StartFrom(r, DefaultSince, IF checkpoint = 0 THEN "noCheckpoint" ELSE "readFailed")
    /\ UNCHANGED <<external, register, targets, finished, items, faults>>

\* Mutant of Selected: the first moment after the start is left out as well.
SelectedTooLate(s) == {u \in feed : Date[u] > s + 1}

\* _filter_updates: strictly newer than the start.
Selected(s) == {u \in feed : Date[u] > s}

\* _select_targets; an empty window ends the run.
Fetch(r) ==
    /\ stage[r] = "fetching"
    /\ IF Selected(since[r]) = {}
       THEN Forget(r)
       ELSE /\ Move(r, "fetching", "working")
            /\ targets' = [targets EXCEPT ![r] = Selected(since[r])]
            /\ UNCHANGED <<since, finished, items>>
    /\ UNCHANGED <<external, register, fate, counts>>

\* Mutant of Finish: the result is kept before the archive is written, so that
\* it is there although the write fails and the target does not finish.
ResultBeforeArchive(r) ==
    /\ stage[r] = "working"
    /\ \E u \in targets[r] \ finished[r] :
        \/ items' = [items EXCEPT ![r] = @ \cup {u}] /\ UNCHANGED <<finished, fate>>
        \/ /\ finished' = [finished EXCEPT ![r] = @ \cup {u}]
           /\ \/ items' = [items EXCEPT ![r] = @ \cup {u}] /\ UNCHANGED fate
              \/ Settle({u}) /\ UNCHANGED items
    /\ UNCHANGED <<external, register, stage, since, targets, counts>>

\* A target is analysed and archived, or its failure is isolated.
Finish(r) ==
    /\ stage[r] = "working"
    /\ \E u \in targets[r] \ finished[r] :
        /\ finished' = [finished EXCEPT ![r] = @ \cup {u}]
        /\ \/ items' = [items EXCEPT ![r] = @ \cup {u}] /\ UNCHANGED fate
           \/ Settle({u}) /\ UNCHANGED items
    /\ UNCHANGED <<external, register, stage, since, targets, counts>>

\* The order of the targets: by date, and by place in the feed for equal dates.
Before(s, t) == Date[s] < Date[t] \/ (Date[s] = Date[t] /\ s < t)

\* Mutant of Prefix: whatever has finished counts.
AnyFinished(r) == finished[r]

\* _WatermarkCursor: the unbroken prefix of finished targets.
Prefix(r) ==
    {t \in finished[r] : \A s \in targets[r] : Before(s, t) => s \in finished[r]}

\* No more targets are started: all are finished, or the cutoff or the
\* deadline stopped the rest.  The oldest always is (DigestRun!OldestIsSettled).
\* The digest stage takes every result, whether it is then delivered or not.
Report(r) ==
    /\ Move(r, "working", "reported")
    /\ Prefix(r) # {}
    /\ Settle(items[r])
    /\ UNCHANGED <<external, register, since, targets, finished, items, counts>>

\* Mutants of Commit: the checkpoint is written before the digest stage; the
\* watermark is written without a look at the one in store.
CommitBeforeDigest(r) ==
    /\ stage[r] \in {"working", "reported"}
    /\ \E t \in Prefix(r) :
        /\ \A s \in Prefix(r) : Date[s] <= Date[t]
        /\ IF Date[t] > checkpoint
           THEN /\ checkpoint' = Date[t] /\ Register!Raise
                /\ Excuse({u \in targets[r] \ finished[r] : Date[u] = Date[t]}, "tied")
           ELSE UNCHANGED <<register, fate>>
    /\ Forget(r)
    /\ UNCHANGED <<external, counts>>

CommitBackwards(r) ==
    /\ stage[r] = "reported"
    /\ \E t \in Prefix(r) :
        /\ \A s \in Prefix(r) : Date[s] <= Date[t]
        /\ checkpoint' = Date[t]
        /\ Excuse({u \in targets[r] \ finished[r] : Date[u] = Date[t]}, "tied")
    /\ Forget(r)
    /\ UNCHANGED <<external, resets, counts>>

\* _commit_checkpoint: the date of the prefix, if the store can be raised to it.
Commit(r) ==
    /\ stage[r] = "reported"
    /\ \E t \in Prefix(r) :
        /\ \A s \in Prefix(r) : Date[s] <= Date[t]
        /\ IF Date[t] > checkpoint
           THEN /\ checkpoint' = Date[t] /\ Register!Raise
                /\ Excuse({u \in targets[r] \ finished[r] : Date[u] = Date[t]}, "tied")
           ELSE UNCHANGED <<register, fate>>
    /\ Forget(r)
    /\ UNCHANGED <<external, counts>>

\* The run fails, its process is killed, or the store cannot be written.
Abort(r) ==
    /\ stage[r] # "idle"
    /\ faults < MaxFaults /\ faults' = faults + 1
    /\ Forget(r)
    /\ UNCHANGED <<external, register, fate, readFaults>>

Run(r) ==
    \/ Resolve(r) \/ ResolveBlind(r)
    \/ Fetch(r) \/ Finish(r) \/ Report(r) \/ Commit(r)

Next ==
    \/ Tick \/ Publish \/ ResetWindow
    \/ \E r \in Runs : StartJob(r) \/ StartExplicit(r) \/ Run(r) \/ Abort(r)

Spec == Init /\ [][Next]_vars

\* The dispatcher keeps starting jobs, and a job that is not killed goes on.
\* Which targets it gets to is up to the cutoff and the deadline.
Fairness ==
    \A r \in Jobs :
        /\ WF_vars(StartJob(r))
        /\ WF_vars(Resolve(r)) /\ WF_vars(Fetch(r)) /\ WF_vars(Commit(r))
        /\ WF_vars(Finish(r)) /\ WF_vars(Report(r))

FairSpec == Spec /\ Fairness

-----------------------------------------------------------------------------
(* Properties *)

Accounted(causes) == {u \in Updates : fate[u] \in {"settled"} \cup causes}

\* Every published update at or below the checkpoint was given to a digest or
\* failed its analysis, unless one of the named causes let it through: runs
\* that overlap, are killed or commit late open no other hole in the window.
NothingSkipped ==
    \A u \in feed : Date[u] <= checkpoint => u \in Accounted(Excuses)

\* What execute_run reads, analyses and commits over many awaits stays true of
\* the window: up to a run's own starting point everything is settled, even
\* while other runs move the checkpoint or an operator deletes it.
StartIsSettled ==
    \A r \in Runs, u \in feed :
        stage[r] \in {"fetching", "working", "reported"} /\ Date[u] <= since[r]
            => u \in Accounted(Excuses)

\* The checkpoint only moves forward unless the operator deletes it.
CheckpointIsRegister == Register!Spec

\* No update is left behind: once published it is eventually reported, given
\* up or let through by one of the causes.
EveryUpdateSettles ==
    \A u \in Updates : u \in feed ~> u \in Accounted(Excuses)

\* What src/orchestrator.py says of a run: it "can never make the next one skip
\* an unanalysed update".  The two remaining causes are the program's own.
NeverSkipsPending ==
    \A u \in feed : Date[u] <= checkpoint
        => u \in Accounted({"late", "noCheckpoint", "explicit", "readFailed"})

\* What README.md says of a failed read: "work may repeat but updates are not
\* silently skipped".
ReadFailureSkipsNothing ==
    \A u \in feed : Date[u] <= checkpoint
        => u \in Accounted({"late", "noCheckpoint", "explicit", "tied"})
=============================================================================
