# AzBrief Enterprise in TLA+

AzBrief reads the Azure Updates feed, has every new update analysed by a hosted
agent, archives the result, mails a weekly digest and keeps a durable checkpoint
of how far it got. The modules in this directory model the part of the program
where order, concurrency and failure decide whether an update is lost, reported
twice or archived wrongly. TLC checks them on small instances, and TLAPS proves
the main safety results for every value of the constants.

Source paths below are relative to the repository's Python package
(`src/orchestrator.py` is the file `PROJECT.json` names with one more `src/`).

## 1. The system and its parts

| Component | State it keeps | Operations | What makes it correct |
|---|---|---|---|
| Durable checkpoint (`services/checkpoint.py`) | one blob: the watermark, guarded by its ETag | `get`, `advance` | the watermark only rises, whoever writes and whatever is lost |
| Digest run (`orchestrator.py`) | per run: targets, cursor, failure count, semaphore, deadline, digest items | `execute_run`, `_analyze_one`, `_WatermarkCursor.finish`, `_send_digest`, `_commit_checkpoint` | the watermark covers only processed updates; commit follows archive and digest; the run ends |
| Pipeline over time (`orchestrator.py`, `scheduler.py`, `main.py`) | feed, checkpoint, runs under way | `start_run`, `resolve_since`, `_filter_updates`, commit | no update falls between two windows |
| Automatic dispatch (`scheduler.py`, `admin/configuration.py`) | one configuration document: run times, last occurrences, lease | `claim_due_automatic_run`, `release_automatic_run`, add/remove run time | one run per occurrence; a lease protects its runner |
| Archive (`services/archive.py`, `archive/*`) | immutable objects, in name order | `put`, `list`, `get` | immutability, true receipts and conflicts, complete and ordered pages |
| Digest delivery (`orchestrator.py`, `email/service.py`) | per week: the list, a report per bounded scope, who was mailed | `_send_digest`, `_send_digest_for_period`, `send_digest_report` | each recipient sees its own scope; "delivered" means everyone, every week |
| Hosted Agent client and container (`agent/hosted_client.py`, `hosted_agent.py`) | per request: attempt, trace; per container: one analyzer | `invoke_hosted_agent`, `handle_create`, `execute_request` | bounded retry; abandoned attempts do no harm to the one that counts |
| Resilience (`agent/resilience.py`) | breaker, deadline | `CircuitBreaker`, `RunDeadline`, `retry_with_backoff` | an open breaker never lets an unvalidated report through |
| Analyzer graph (`agent/analyzer.py`, `agent/context_store.py`) | per analysis: node, counters, plan, report; shared: stored tool results, last diagnostics | the nodes of the graph, the critic, the verification, `customize_for_subscriber` | an analysis ends; what it returns rests on evaluated evidence; its diagnostics are not left over from an earlier one |
| Administrators and subscribers (`admin/configuration.py`, `services/admin_config.py`, `admin/router.py`, `admin/auth.py`) | the same configuration document, cached 5 s per process | add, update and remove a subscriber, add and remove an administrator, `require_admin` | no lost or half-made edit; no list is acted on longer than the cache may |
| Run records and API (`main.py`, `orchestrator.RunStore`) | bounded registry of runs | start, status, single-run check | one API run at a time |
| RSS parser, email templates, prompts, Azure wrappers, pages, scripts | none that outlives a call | | |

How they interact. The dispatcher job claims an occurrence with a conditional
write, calls `execute_run` in process, and releases the lease with another
conditional write. `execute_run` reads the checkpoint (`resolve_since`), selects
what the feed holds after it, starts one task per update, archives each result
through the archive service, gives all results to the digest stage, and only
then calls `advance`. The API starts the same run as a background task in another
process, so the two share nothing but the storage. Administrators edit the
document the dispatcher claims in, and the digest stage reads its subscribers from
it anew for each release week. Every analysis, tenant-wide or for one scope, is a
request to the Hosted Agent, whose container runs several at once on one analyzer:
they share a circuit breaker, the store of tool results, and the attributes the
diagnostics of "the last run" are read from. Readers walk the archive pages while runs
add to the archive.

What is hard, and why it is modelled:

- concurrency: tasks of one run under a semaphore, a lock and a condition;
  several processes over one blob, one document and one container;
- shared attributes: analyses of one container, with awaits between the assignment
  and the use of what they share, and a retry next to the attempt it replaces;
- stale copies: each process acts on a configuration it cached some seconds ago;
- failure: killed jobs, requests that fail, time out, or are applied after the
  caller gave up, junk in storage, an operator who deletes the checkpoint;
- order: analyses finish out of order, the window is cut by date and committed by
  position, the status is computed after the commit;
- limits: attempts, lookback, lease, failure cutoff, deadline, scan and page size.

`PROJECT.json` lists the hazards at their lines.

## 2. Modules

```
MonotoneRegister  <---refines---  CheckpointStore      (CheckpointStoreProofs)
      ^
      | instance, and refined by
DigestService                                           (DigestServiceProofs)
      ^
      | implemented, once a run has selected, by        (DigestPipelineProofs)
      |
RunWindow         <---refines---  DigestRun             (DigestRunProofs)
RunSchedule                                             (RunScheduleProofs)
ArchiveStore                                            (ArchiveStoreProofs)
AnalyzerGraph     <---extended by---  HostedAnalysis    (HostedAnalysisProofs)
AdminRegistry     <---refines---  AdminConfiguration
                                        ^ extended by
                                  DigestDelivery        (DigestDeliveryProofs)
```

Each `MC*` module gives a component's constants small values; each `.cfg` is one
run. A definition whose comment begins with "Mutant of" is a plausible bug of the
definition after it: no specification uses it, it is there to show that the
property named in `PROJECT.json` notices that bug.

### CheckpointStore, and MonotoneRegister above it

Models `BlobCheckpointStore.advance`: a loop of GET, comparison, and PUT with
`If-Match` or `If-None-Match`, three attempts. The variable `blob` is the document
with its ETag; per writer `pc`, `seen`, `attempt` and `outcome` are the locals of
the call. One action per await: `Read`, `WriteOk`, `WriteConflict` (412),
`WriteFails` (anything else; the PUT may stay in `inflight` and `Land` later).
`Delete` and `Corrupt` are the operator and junk. `MonotoneRegister` is what callers
rely on: a value that only rises, unless an outsider resets it.

### DigestRun, and RunWindow above it

Models one `execute_run`. `task[i]` is where the coroutine of target `i` is; the
sections under `results_lock` and under the condition do not await, so each is one
step, and everything between them interleaves: `Enter`/`Recheck` (the gate: cutoff,
wait, deadline), `AnalysisFails`, `AnalysisSucceeds`, `Leave` (the `finally` clause with
`notify_all`), `ArchiveStores`, `ArchiveFails`. `Gathered`, `SendDigest` and `Commit` are
the stages after the gather. `RunWindow` states the promise without tasks or
limits; the refinement mapping reads the phase off `stage`.

The digest stage is one step here: delivered, not delivered, or raised.
`DigestDelivery` models its inside and has the same three outcomes (`stage` "ended"
with `delivered` or not, and "raised"). Runs that
commit select dated updates (`_filter_updates` needs a date); the other selectors
belong to Admin runs, which do not commit.

### DigestService

Many runs over one feed and one checkpoint. A run is the sequence of `RunWindow`
with the reads around it: `Resolve` or `ResolveBlind` (`resolve_since`, with a
stored, an absent or an unreadable checkpoint), `StartExplicit` (the API's own
`since`), `Fetch`, `Finish`, `Report`, `Commit`, `Abort`. The checkpoint is an instance of
`MonotoneRegister`, which is sound because `CheckpointStore` implements it. That a
run which reaches its digest has a non-empty prefix is `OldestIsSettled` of `DigestRun`,
checked and proved there. Dates begin at 1, so a start before them is 0 (`DefaultSince`).

The ghost `fate` records for every update whether it was settled (given to a
digest stage, or its analysis failed and was isolated) or which named cause lets
the window pass it: it appeared in the feed behind a newer one, there was no
checkpoint, an API caller named a later start, the checkpoint could not be read, or
it shares its date with the watermark. The property is that there is no sixth way.

### RunSchedule

Models `dispatch_scheduled_digest` over the document of
`AdminConfigurationManager`. The ETag is abstracted to `current`, the set of
dispatchers whose last read is still the document in storage. A dispatcher reads
its clock once (`Start`), looks without a guard (`Preview`), claims in a conditional
write (`Read`, `WriteClaim`, `Conflict`), runs, and releases in another
(`WriteRelease`). `LoseReply` is a claim that was applied but whose answer was lost;
`Die` is a killed job or a failed request. Administrators edit run times (`AddTime`,
`RemoveTime`), and `EditElsewhere` is their edit of anything else in the document: it
changes nothing a dispatcher reads, but makes its ETag old.

### ArchiveStore

Models `BlobArchiveStore.put` and `.list`. `put`: `Send`, then `Created`, `Exists`
(412) followed by `Compare`, `NoAnswer` (a transport error or a transient status: try
again, and the request may `Land` later) or `Fails`. `list`: one `ReadBatch` per List
Blobs request; the loop body over the batch is described by where it leaves
(`LeavesAt`, `MoreAt`) and what it has found by then (`Found`), and `Cursor` is the
computation of `next_cursor`. A reader asks for page after page (`NextPage`) while
documents are written. Names are numbers: an archive ID begins with the reversed
time, so the order of names is the order of the listing, newest first.

### AnalyzerGraph and HostedAnalysis

`AnalyzerGraph` is the container's side: `node[e]` is where analysis `e` stands in
the graph of `_build_graph` and in the code after it. An analysis is named by its
trace and the attempt it belongs to, so two attempts of one request are `Twins`. A
step is what happens between two awaits; a guarded model call is two, the look at the
breaker and the reply, because other analyses open or close the breaker in between.

- planning: `PlanTurn`, `PlanAnswered`, `PlanBusy` (429, 503, 529: a turn is used, the
  breaker is not told), `PlanFailed`, `PlanTools`, `PlanEnd`;
- execution: `RunTask` and `ExecuteEnd`; evaluation: `Evaluate`, `EvaluateAnswered`,
  `EvaluateFailed`, with the loop guards (`Forced`) and `_route_after_evaluation`
  (`Route`); revision: `Revise`, `ReviseAnswered`, `ReviseFailed`;
- report: `Report`, `ReportAnswered`, `ReportFailed`, `Recover` (a truncated answer is
  continued), `Region`; critic: `Written` (is the judge asked?), `Score`, `Rescore`;
  `EndCritic`, `Verify`, `Finish`;
- `Customize`, `CustomizeReply`.

What an answer says is a free choice: a verdict, a number of new tasks, whether
evidence was small, a truncated report, a judge who wants a rewrite. Whether the judge
is asked at all is the constant `Criticised`; a call of his that fails counts as a
middling score (`geval.py:593-616`), so a judgement always comes. A verification that
raises leaves the attribute as it finds it (`Verify`). Shared are the breaker
(`failures`, `cooled`), `store` with eviction (`Put`) and `ClearTrace`, and `scored` and
`verified` for `_last_geval` and `_last_action_verification`. `_last_trajectory` is left
out: it is assigned and read without an await in between.

`HostedAnalysis` adds the client: `Send`, `Transient` (a time-out or a transient status:
again, if attempts are left, while the abandoned attempt goes on), `Refused`, `Answer`;
and the container's `Begin`, `Cancelled` and `Restart`.

### AdminConfiguration, AdminRegistry above it, and DigestDelivery

`AdminConfiguration` is the document as the sequence of its versions; the ETag is
the length. Each process caches one version (`cached`, `expires`). `_load` is one step
from the cache (`LoadCached`) or two from the store (`LoadBegins`, `LoadReturns`), which
may return any version that was current in between and is cached with the expiry
computed before the read. A request of the console is authorized from the cache
(`Enter`, `Authorize`, `Unauthorized`) and then makes its edit past it (`Read`, `Write`,
`Conflict`, `EditFails`, where the reply of an applied write may be lost). The
schedule's claims replace the same document (`ScheduleWrite`). After its own write the
code keeps a copy with an expiry of zero, which is never served: the model has no copy.
`AdminRegistry` is the promise: whole edits, one at a time, each valid where it is applied.

`DigestDelivery` is the digest stage over the same document: `AskList`, `ListRead`,
`ListFails`, then per week `Analyse`, `Send`, `WeekSent`, or `SendDefault` when the list is
empty. `dispatches` says whether the email service mails: without it, because the digest
is only printed or waits for an approval, every send succeeds and nothing leaves. A
profile whose scope `AnalysisScope.from_subscriber` rejects ends the week for everyone
(`ServeWeek`).

## 3. Runs

| Run | Instance | What it shows |
|---|---|---|
| `checkpoint` | 3 writers, 2 watermarks, 3 attempts, 3 calls, 2 interventions | the blob implements the register; answers are durable; giving up means others wrote |
| `digest_run` | up to 5 targets (a tie, an undated one), 3 slots, cutoff 2 | watermark, accounting, cutoff and termination of one run; what was not archived blocks digest and checkpoint; it implements `RunWindow` |
| `digest_service` | 3 updates with a tie, a job and an API run, one of each fault | the window passes an update only when settled or for a named cause |
| `digest_live` | 3 updates, one job again and again, 4 faults | every published update is eventually settled or let through by a named cause |
| `run_schedule` | 2 dispatchers, a fixed and a managed schedule, 2 edits | one claim per occurrence, unless its run time was removed in between; a young lease stays with its runner |
| `archive` | 4 names with a collision, batches of 2, pages of 1, scan limit 2, one failing page | immutability, receipts, conflicts, order, completeness and end of a traversal |
| `analysis` | 2 requests of each kind, or one and its retry; a breaker of 2, 5 iterations, 2 planning turns, 2 plans, 3 revisions, 2 recoveries, 1 task, a store of 1; 1 restart | every analysis ends; a report rests on evaluated evidence; diagnostics are not left over; stored results are kept and released |
| `delivery` | 2 console requests in a web process, a digest of 2 weeks in the job; an administrator breaks a subscriber's scope, another removes that administrator; 2 write attempts, 3 versions | cached lists are fresh; edits are atomic; mail keeps to scope; where mail leaves, delivered means everyone |
| `digest_tie`, `digest_blind`, `digest_exit`, `archive_blind` | the smallest that shows it | the four disagreements of section 6 |

Why the bounds are enough. Two watermarks and three writers give every order of
read, write, conflict and late landing that involves an older, an equal and a newer
value, and three calls let one writer come back after the others; three attempts
are the code's own. Five targets on three slots hold a full batch, a queue behind it, a tie and
an undated end; a cutoff of two lies below the slots, so failures of one batch can
overshoot it. Three updates with dates 1, 2, 2 are the least with a
predecessor, a tie and a pending rest; two overlapping runs are the least that can
commit in the wrong order. Two dispatchers and six ticks hold an occurrence,
a lease that expires and the next occurrence. In the archive, batches of two with
a scan limit of two (the code: 250 and 500) make the loop leave in the middle of a
batch, at its end, at the limit and at the end of the listing, and go on with a
second batch when the cursor's own object is skipped; the run `archive_blind` has the
code's proportion of two batches to the limit.

For `analysis` two analyses at once are the least that share anything: two of
different traces, or twins (`MaxSent` counts both). `MaxIterations` (5), the plan
limit (2), the revision limit (3), the planning turns' shape and the two recoveries are
the code's own or the least that loops; a store with room for one of two results
evicts; a breaker of two opens when one analysis fails twice or two fail once. The judge
is asked, which adds the critic's steps; that the properties hold without him too is
proved (and was checked). For
`delivery` the clock has one tick, exactly the cache time: a list that is used after it
was replaced for the whole cache time is one the property forbids. Two weeks let an
edit fall between two lists, two write attempts hold a conflict that is retried
and one that is not. `dispatches` is chosen in the initial state, so the run covers both
settings.

Deadlock checking is off where the system may stop: all calls made, all runs used
up, the clock at its bound, the traversal done, the digest stage over. In
`analysis` it is on: the end is the action `Done`, so nothing else may stop.

Constants that bound a model only (no such limit is in the code): `MaxCalls`,
`MaxResets`, `MaxTargets`, `MaxTime`, `MaxReadFaults`, `MaxFaults`, `MaxEdits`, `MaxListFailures`,
`MaxTasks`, `MaxPuts`, `MaxSent`, `MaxRestarts`, `MaxVersions`, `Asks` (what the console's
requests ask for), and `Late`, the documents written during a traversal. The others are parameters
of the program under its own names.

## 4. Fairness

- `DigestRun!Fairness`: weak fairness of the stages and of every task. asyncio runs
  every coroutine that is ready; remote calls have timeouts. Nothing is assumed about the deadline or about
  which outcome a call has.
- `DigestService!Fairness`: weak fairness of a job's start and of each stage. The
  dispatcher starts every five minutes, and a job that is not killed goes on. There is
  no fairness for publishing, for faults (which are finite), for API runs, or for
  which targets a run gets to: a run that finishes only its oldest target satisfies it.
- `ArchiveStore!FairSpec`: a reader that has a next cursor asks for the page, and
  the service answers. Failures of the listing are finite.

`HostedAnalysis` needs no fairness: that an analysis ends is stated by a rank.
`AnalysesAreBounded` says that every step of a running analysis ends it, begins one of
at most `MaxIterations + 1` iterations, or lowers `Rank`, a natural number
(`RanksAreNatural`); so no sequence of answers, busy ones included, keeps it going.

## 5. Proofs

TLAPS checks eight proof modules from nothing. None of them fixes a constant:
the assumptions are those named in the component modules (types of the constants,
positive attempts, limits and slots, watermarks that are positive naturals, dates in
the order of the target list, job and API runs disjoint, names for documents, bounds
that are naturals), and TLC evaluates them in every run.

`CheckpointStoreProofs`, for any number of writers, watermarks, attempts and
interventions. `EtagPinsValue` is not inductive: it needs that ETags in anybody's
hands are no newer than the last change (`EtagsAreOld`), that a writer carries a
watermark newer than what it read (`CarriesNewer`), and that a call in its loop has
an attempt left. Together they make `IInv`. `EtagsPinValues` says that no PUT, a
stray one included, can lower the watermark; `ImplementsRegister` that every step
is a step of `MonotoneRegister` or a stutter; `AnswersAreDurable` that a call which
answered stays covered.

`DigestServiceProofs`, for any feed and dates, any number of overlapping runs and
faults. `NothingSkipped` speaks of the checkpoint alone; the invariant relates it to
each run: what lies up to its start is gone (`SinceIsSettled`), what its window leaves
out is gone or newer than all it selected (`TargetsAreTheWindow`), and what it has
finished has a result or is settled (`FinishedIsSettled`). A commit then covers
finished targets, earlier windows, late arrivals, and updates with the very date of
the watermark, which is where the cause "tied" comes from. `WindowSkipsNothing`,
`StartsAreSettled` and `CheckpointOnlyForward` follow.

`WindowSkipsNothing` is worth as much as its causes are narrow. `SkipsAreNarrow` proves
that each is what it says (`Warranted`): "tied" only next to another update of that date,
"late" only behind a published one, "explicit" only where there are API runs, "noCheckpoint" and
"readFailed" only for updates older than the lookback. So a lost checkpoint costs nothing
that was pending for less than the lookback (`RecentIsKept`).

`ArchiveStoreProofs`, for any documents, names, collisions, batch size, scan limit,
page size and faults. Writers: an object never changes (`ObjectsStay`), and a 412
stays true (`TakenWhileComparing`); from these come `StoredIsImmutable`,
`ReceiptsAreDurable` and `ConflictsAreReal`. Reader: pages shown lie before the cursor
and what is found lies between cursor and marker (`CursorParts`), what was expected
still matches (`ExpectedStays`) and is shown, found or still ahead (`NothingLost`).
Lemmas on the smallest and largest of some names, on the first `Limit` of them, on a
batch and on what the loop has found carry the step for `ReadBatch`, which is split
into a page with more, a last page and another batch. From it come
`PagesNewestFirst` and `TraversalIsComplete`. `ReadableMeansEnd` says what the exception
`blind` costs: a page can only run past the scan limit on an object that is unreadable
(`LimitPassedOnJunk`), and objects never change.

`DigestRunProofs`, for any number of targets, slots and failures in a row, and any
chronological dates. The failures in a row and the running analyses are bounded
because the counters count sets of tasks (`CountersFit`: `active` is the size of
`Running`, a semaphore's holders are never more than its slots), and from that
`OvershootBound` and `HaltIsFinal` follow at the gate: a task is admitted below the
limit, and turned away when nothing runs. `CursorFits` says that the cursor ends the
unbroken prefix and that the watermark is the date of a member of it, the newest when
the run commits; with the order of dates it gives `WatermarkCovers`. `OldestFits` is why
the first task is never turned away: it passes the gate before any failure and any
use of the budget. With how a task's place tells how it ended (`TasksFit`, `StagesFit`)
it gives `OldestIsSettled`. `RunImplementsWindow` has one
lemma for a task's step, one for the stages and one for the commit, where the
watermark is shown to be the newest date of `RunWindow`'s own prefix. `CommitsAreEarned` is
`CommittedIsAccounted`: with a result that could not be archived there is neither digest nor
commit, whatever the other targets did, and every target dated before a watermark the run
stored was given to the digest or is an isolated failure. It needs both what the cursor
covers and that the gather left no archive failure behind.

`DigestPipelineProofs` joins the two models of a run. `RunsAreServiceRuns`: under the
mapping `Service` (the stage is read off `stage`, a run's sets are `Kept` until it is over, an
update's `Fate` is settled when its failure was isolated or the digest it was `Given` to
took it), every step of a committing run of `DigestRun` after `Select` is `Finish`, `Report`,
`Commit` or `Abort` of `DigestService`, or changes nothing it sees. That includes the
condition under which `DigestService` lets a run report, and that it never commits more than
its prefix. The selection itself is not joined: the mapping starts where the targets are
chosen, and that `Fetch` selects what is pending is `PendingIsSelected`. So what
`DigestServiceProofs` shows of any number of overlapping runs is not about an idealised run.

`RunScheduleProofs`, for any dispatchers, schedules and edits. `claims` counts the
claims of an occurrence since its run time was last removed. `ClaimedOnce` needs that
a claimed occurrence is marked as long as its schedule stands (`ClaimsAreMarked`) and
that a claimer's clock is recent. `RunnerHoldsLease` and `NoOverlap` need that no two
runs under way have the same occurrence (`HoldersDiffer`), which is why a release,
matching schedule and instant, never clears another's lease, and that a lease is
of an occurrence within the lookback (`LeasesAreTimely`). The last line of
`DailyAssumption` is what they use of the numbers: lookback and a stalled claim
together are shorter than the lease (7 minutes against 13 hours).

`DigestDeliveryProofs`, for any requests, processes, addresses, scopes and weeks.
`ListsAreFresh` rests on two facts about copies: a cached version was replaced no
earlier than its expiry less the cache time, and what replaced the version current when
a read began did so since (`CachesAreFresh`, `LoadsAreFresh`). `EditsAreChecked`, the
edit about to be written was valid in the version read, gives `EditsImplementRegistry`
with the condition of the write. `WeekInv` and `WeeksInv` say what the digest holds of
the week in each stage and that every week counted as delivered was served;
`NoMailBeyondScope` and `DeliveredToEveryone` follow. Versions of the list only grow at
their end, so an edit cannot change a list in use (`ListsAreStable`).

`OnlyAdminsEdit`: every change of the document was asked for by somebody who was let in
as an administrator of some version, and is not the removal of himself, however long the
request waits between the check and the write (`EditorsWereLetIn`). `ConsoleSparesDeployment`:
no version touches what the deployment gives. This is what rests on the two separate
conditions of an update in `AdminRegistry!Valid` (`configuration.py:401-406`): taken as one
implication they would let an edit move a profile onto a deployment address, and
`EditsAreAtomic`, which takes `Valid` as given, would not notice.

`HostedAnalysisProofs`, for any requests, attempts and limits. Per analysis, `BoundedAt`
bounds turns and iterations at each node, `ReviewedAt` says what has been validated and
written at each node and whether the judge is asked, and `DiagnosedAt` whose the shared
summary and verification can be while it runs: its own, nobody's, or those of an analysis
`beside` it. A lemma per action shows that its own analysis keeps them, and `OthersStay`
that the others do. `ReportsRestOnEvidence` and `DiagnosticsAreCurrent` follow.
`AnalysesEnd` compares `Rank` before and after each action. `ResultsAreRetained` needs two more
invariants: `Retained`, that every result put is stored, evicted or was swept, and only
analyses that have not returned own one; and `Shared`, the types of what analyses share.
Their lemmas are about the store: `PlacesTaken` (the positions kept by `ClearTrace` are
numbered without a gap), `ClearTraceClears` and `PutKeepsRefs` (the one removes exactly a
trace, the other nothing that is not evicted). They also complete `TypeOK` (`TypesHold`).

`CheckpointStoreProofs` also has `ContentionIsReal`: attempts made are changes that
happened since the call began (`ConflictsAreChanges`).

Liveness under fairness is out of the prover's reach: `RunEnds`, `EveryUpdateSettles`
and `ListingEnds` are only model-checked. What they need besides fairness is proved, for every
value of the constants:

- `RunEnds`: `NobodyWaitsForGood` (a task asleep on the condition has an analysis running
  that will wake it, and until the gather is over some task can move, `CanMove` being the
  guards of its actions) and `RunsAreBounded` (each step reaches a later stage or lowers
  `Effort`, which weighs the tasks left against the wake-ups they can still cause);
- `EveryUpdateSettles`: `PendingIsSelected` (a run selects everything pending that is newer
  than its start), `RunsMoveTheWindow` (a run that reports has settled its oldest target, one
  that commits moved the checkpoint past its own start) and `NoRunIsStuck`;
- `ListingEnds`: `TraversalsAreBounded` (failures are counted, each page moves the cursor and
  each batch the marker strictly forward, and every answer has a way on);
- a digest stage, for which no run states liveness: `DeliveriesAreBounded`, at most five
  steps per week.

Every other property of a passing run is stated by a theorem.

## 6. Where code and documents disagree

Each has a run that exhibits it.

1. `digest_tie` (`NeverSkipsPending`). `_filter_updates` selects strictly later
   updates, and the committed watermark is the date of the last finished one. If the
   next target has the same date and was deferred, no later run selects it. The module
   comment of `orchestrator.py` says an interrupted run can never make the next one
   skip an unanalysed update. Equal dates are the only reason: `DistinctDatesSkipNothing`
   proves the claim for feeds without them.
2. `digest_blind` (`ReadFailureSkipsNothing`). After a failed checkpoint read the
   run starts 24 hours back, and its own commit moves the checkpoint past older
   updates that it never saw. The README of the repository says updates are not silently skipped.
   `SkipsAreNarrow` bounds the loss: never an update newer than the lookback.
3. `digest_exit` (`ExitOneKeepsWindow`). A run that ends `partial` exits with 1 but
   has moved the checkpoint; `scheduler.py` says a failed execution leaves the window in
   place. What is dated
   before the checkpoint it leaves is accounted for all the same: `CommitsAreEarned`.
4. `archive_blind` (`EndMeansEnd`). An unreadable object that falls on the scan limit
   at the end of a batch makes the page say there is no more although the listing goes
   on. The file backend reports more in that case. With every object readable the promise
   holds: `ReadableMeansEnd`.

Noted without a run, because the model takes the code's side:

- "completed". The repository's `README.md:309-313` says it "does not mean every individual
  analysis and email succeeded". The code makes such a run `partial`
  (`orchestrator.py:617-633`: failed, pending or deferred targets, a digest not delivered),
  so that the word says more than the document promises. No property says when a run is
  completed; `CommittedIsAccounted` states what the same section does promise
  (`README.md:325-327`: an archive failure blocks the digest and the checkpoint).
- `email_sent`. `README.md:306-308` and 323 call it true when at least one recipient
  received the digest; the code requires every recipient of every week
  (`orchestrator.py:859-884`, 699-719). `SentMeansEveryone` is about the code's meaning.
- `send_digest_report` answers that it succeeded when it only printed the digest or held
  it for an approval (`email/service.py:1457-1478`): `email_sent` may be true with nothing
  mailed. `SentMeansEveryone` is therefore about a service that mails (`dispatches`).
- A judge that cannot be reached. The docstring of `_critic_pass` (`analyzer.py:2095-2096`)
  and `test_reviewer_failure_is_not_treated_as_a_pass` (`tests/test_critic.py`) say that a
  reviewer failure propagates. It does when `evaluate` raises, but `GEvalJudge.evaluate`
  gives each failed dimension a score of 3.0 (`geval.py:593-616`) and returns: a report
  nobody reviewed is returned, and a rewrite whose second judging failed is kept if 3.0
  beats a genuine lower score. So no property says that a returned report was reviewed;
  `ReportRestsOnEvidence` is about the evaluation of its evidence, which does fail closed.

Further: an
undated target selected by Admin ends the dates the cursor can give; a commit
follows an explicit `since` of an API caller, so such a run may leave a gap by
intent (cause "explicit"); a run time that is removed and added again within the
lookback is due again, and its occurrence run twice, for which `ClaimedOnce` starts its count
anew at the removal (`NoOverlap` and `RunnerHoldsLease` hold for the second run as well).

Seen while modelling the Hosted Agent and the delivery, without a run of their own:

- `hosted_agent.py:156-160` passes `scope=` to `analyze_update`, which has no such
  parameter (`analyzer.py:2843`): every `analyze_update` request ends with a
  `TypeError` that is reported as failed, so a bounded recipient only ever gets items
  without a result. In the model it is the first case of `Begin`.
- With five iterations the second evaluation is always the last: planning, execution
  and evaluation count one each. The limits on plans and revisions and the rule on
  diminishing returns (`_route_after_evaluation`) come into play only with a larger
  `MaxIterations`; the proofs cover that.
- `_last_geval` is read when an analysis returns and may by then be that of another one
  in progress beside it; so may `_last_action_verification` when the analysis' own
  verification raises after its await (`analyzer.py:3112-3128`). `DiagnosticsAreNotLeftOver`
  bounds whose they can be, by the ghost `beside`; it does not forbid the crossing, which
  the code permits.
- Stored tool results are released only on the successful return (`analyzer.py:3297`):
  those of a failed analysis stay until evicted, and a finished attempt sweeps the
  results of its running twin.
- A report that the model did not write (breaker open, call failed) has relevance
  "unknown" and is judged and returned as a completed one.
- The console stores scopes that `AnalysisScope.from_subscriber` rejects: one of them
  fails the week's digest for every recipient (`orchestrator.py:746-753`).
- The list is read outside the `try` (`orchestrator.py:733`): a failure raises out of
  the stage after earlier weeks were mailed, and the later ones are not.
- The lost reply of an applied edit is reported to the administrator as an error, and
  two administrators may remove each other.

## 7. What is assumed, and what is not modelled

Assumed of the environment: the storage service evaluates preconditions atomically;
a failed precondition is answered with 412; objects in the archive are not deleted;
feed entries stay in the feed until they are processed; schedules are daily, so that
the lookback and a stalled claim end before the next occurrence (`DailyAssumption`).

Of the Hosted Agent: a cancelled request that has begun is not interrupted; one
container serves all requests until it is replaced. Of the caches: the processes'
monotonic clocks run at one pace, and a blob read returns a version that was current
between its request and its answer.

Not modelled, and why:

- the file backends (one development process); the JSON and metadata encodings (a
  document that does not parse is `NoValue` or `Junk`);
- the tools, the Azure query wrappers, the RSS parser, prompts, mail and page templates:
  together the larger part of the lines, they compute one result from one input and
  keep no state between calls. A model of their text would be as long as they are and
  say nothing about order or failure; their outcomes are the free choices of the
  modules above. This is why the modelled share of the lines stays small;
- deployment and evaluation scripts, which operators run outside the service;
- the registry of API runs: both callers of `RunStore.create` refuse while a run is
  active and await nothing between the check and `create`, so the only active run is
  the newest entry and is never evicted;
- within an analysis, the notes of the specialists before planning, the argument fixer
  and the attempts of one task, the inside of `retry_with_backoff` and the fallback
  model: they end in one of the outcomes the step has anyway;
- feedback and history: feedback is written once under a fresh name; history files are
  rewritten by synchronous calls of one process and only hint to the planner.

`PROJECT.json` lists every part with its status.

## 8. Plan

Done, in this order, by importance: checkpoint, one run, the pipeline over time,
dispatch, archive; then the analysis in the Hosted Agent, the administrators' document,
the digest delivery over it, and the proofs of dispatch, delivery and analysis; then every
remaining safety property, what liveness needs besides fairness, the conditions under which
the four refuted claims do hold, and the joint of `DigestRun` with `DigestService`.

Left to join: `DigestDelivery` as the refinement of the step `DigestRun!SendDigest` (the
outcomes agree; the states share no variable), and `RunSchedule` with
`AdminConfiguration` over one document, of which each now sees the other as a writer.
