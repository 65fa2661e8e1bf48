----------------------------- MODULE RunSchedule -----------------------------
(***************************************************************************)
(* Automatic runs: dispatch_scheduled_digest of src/scheduler.py over the  *)
(* run state AdminConfigurationManager keeps in one blob                   *)
(* (src/admin/configuration.py).  Every few minutes a job starts, reads    *)
(* its clock once, claims a due occurrence by a conditional write, runs    *)
(* the digest and releases the lease by another.  Jobs may overlap, stall, *)
(* be killed, or lose the reply to a write that was applied; meanwhile     *)
(* administrators add and remove run times, and edit the rest of the same  *)
(* document.                                                               *)
(*                                                                         *)
(* A write is applied only if nobody has written since its caller's read,  *)
(* so instead of ETags the model keeps the set of those whose read is      *)
(* still current.                                                          *)
(***************************************************************************)
EXTENDS Naturals, FiniteSets

CONSTANTS
    Dispatchers,        \* job executions that may be alive at once
    Deployed,           \* schedules fixed by the deployment
    Managed,            \* run times an administrator may add or remove
    Occurs,             \* the instants of each schedule
    Lookback,           \* lookback_minutes of claim_due_automatic_run
    LeaseHours,         \* _AUTOMATIC_RUN_LEASE_HOURS
    MaxWriteAttempts,   \* _MAX_WRITE_ATTEMPTS
    MaxStall,           \* how long a claim may take from reading the clock
    MaxTime,            \* bound: the clock
    MaxEdits            \* bound: administrator edits

Schedules == Deployed \cup Managed

ASSUME NumbersAssumption ==
    /\ Lookback \in Nat /\ LeaseHours \in Nat /\ MaxStall \in Nat
    /\ MaxWriteAttempts \in Nat \ {0}
    /\ MaxTime \in Nat /\ MaxEdits \in Nat
ASSUME SchedulesAssumption ==
    Deployed \cap Managed = {} /\ Occurs \in [Schedules -> SUBSET (1..MaxTime)]

\* Daily times: an occurrence is long past the lookback before the next one,
\* and a lease outlives the lookback and a stalled claim.
ASSUME DailyAssumption ==
    /\ \A k \in Schedules : \A a, b \in Occurs[k] : a < b => a + Lookback + MaxStall < b
    /\ Lookback + MaxStall < LeaseHours

NoLease == [key |-> "none", at |-> 0, claimed |-> 0]
Leases == {NoLease} \cup [key : Schedules, at : 1..MaxTime, claimed : 0..MaxTime]

VARIABLES
    now,        \* the time of day, in ticks
    times,      \* automatic_run_times_utc
    last,       \* automatic_run_last_occurrences, 0 for none
    lease,      \* automatic_run_active
    current,    \* dispatchers whose last read is the document in store
    pc,         \* per dispatcher, see Steps
    clock,      \* per dispatcher: its `current' time, read once
    attempt,    \* per dispatcher: conflicts met by the write in progress
    mine,       \* per dispatcher: the lease its claim returned
    claims,     \* ghost: how often each <<schedule, instant>> was claimed since its
                \* run time was last removed
    edits

document == <<times, last, lease>>
local    == <<pc, clock, attempt, mine>>
vars     == <<now, document, current, local, claims, edits>>

Steps == {"idle", "preview", "readClaim", "writeClaim", "running", "readRelease", "writeRelease"}

TypeOK ==
    /\ now \in 0..MaxTime
    /\ times \subseteq Managed
    /\ last \in [Schedules -> 0..MaxTime]
    /\ lease \in Leases
    /\ current \subseteq Dispatchers
    /\ pc \in [Dispatchers -> Steps]
    /\ clock \in [Dispatchers -> 0..MaxTime]
    /\ attempt \in [Dispatchers -> 0..(MaxWriteAttempts - 1)]
    /\ mine \in [Dispatchers -> Leases]
    /\ claims \in [Schedules \X (1..MaxTime) -> Nat]
    /\ edits \in 0..MaxEdits

Init ==
    /\ now = 0 /\ times \in SUBSET Managed
    /\ last = [k \in Schedules |-> 0]
    /\ lease = NoLease /\ current = {}
    /\ pc = [d \in Dispatchers |-> "idle"]
    /\ clock = [d \in Dispatchers |-> 0]
    /\ attempt = [d \in Dispatchers |-> 0]
    /\ mine = [d \in Dispatchers |-> NoLease]
    /\ claims = [c \in Schedules \X (1..MaxTime) |-> 0]
    /\ edits = 0

-----------------------------------------------------------------------------
(* What is due *)

\* _effective_schedules
Effective == Deployed \cup times

\* _latest_occurrence: 0 when there has been none.
Latest(k, t) ==
    LET past == {o \in Occurs[k] : o <= t} IN
    IF past = {} THEN 0 ELSE CHOOSE o \in past : \A p \in past : p <= o

\* Mutant of Blocked: the lease is dated by its occurrence, not by its claim.
BlockedFromOccurrence(t) == lease # NoLease /\ lease.at + LeaseHours > t

\* _due_schedule: a live lease blocks every schedule.
Blocked(t) == lease # NoLease /\ lease.claimed + LeaseHours > t

\* Mutant of Due: occurrences already claimed are due as well.
DueAgain(t) ==
    IF Blocked(t) THEN {}
    ELSE {k \in Effective : Latest(k, t) # 0 /\ t <= Latest(k, t) + Lookback}

Due(t) ==
    IF Blocked(t) THEN {}
    ELSE {k \in Effective :
            /\ Latest(k, t) # 0 /\ t <= Latest(k, t) + Lookback
            /\ last[k] < Latest(k, t)}

Earliest(t) == {k \in Due(t) : \A j \in Due(t) : Latest(k, t) <= Latest(j, t)}

-----------------------------------------------------------------------------
(* The world around the dispatchers *)

\* A claim in progress takes at most MaxStall from its reading of the clock.
Tick ==
    /\ now < MaxTime /\ now' = now + 1
    /\ \A d \in Dispatchers :
        pc[d] \in {"preview", "readClaim", "writeClaim"} => now' <= clock[d] + MaxStall
    /\ UNCHANGED <<document, current, local, claims, edits>>

\* add_automatic_run_time and remove_automatic_run_time, each one conditional
\* write that is repeated until nobody interferes.
AddTime(k) ==
    /\ k \in Managed \ times /\ edits < MaxEdits
    /\ times' = times \cup {k}
    /\ current' = {} /\ edits' = edits + 1
    /\ UNCHANGED <<now, last, lease, local, claims>>

RemoveTime(k) ==
    /\ k \in times /\ edits < MaxEdits
    /\ times' = times \ {k}
    /\ last' = [last EXCEPT ![k] = 0]
    /\ claims' = [c \in DOMAIN claims |-> IF c[1] = k THEN 0 ELSE claims[c]]
    /\ current' = {} /\ edits' = edits + 1
    /\ UNCHANGED <<now, lease, local>>

\* An edit of subscribers or administrators replaces the same document.
EditElsewhere ==
    /\ edits < MaxEdits
    /\ current' = {} /\ edits' = edits + 1
    /\ UNCHANGED <<now, document, local, claims>>

-----------------------------------------------------------------------------
(* dispatch_scheduled_digest *)

Go(d, to) == pc' = [pc EXCEPT ![d] = to]

\* The job exits, or is killed: all it leaves behind is in the document.
Exit(d) ==
    /\ Go(d, "idle")
    /\ clock' = [clock EXCEPT ![d] = 0]
    /\ attempt' = [attempt EXCEPT ![d] = 0]
    /\ mine' = [mine EXCEPT ![d] = NoLease]
    /\ current' = current \ {d}

Start(d) ==
    /\ pc[d] = "idle" /\ Go(d, "preview")
    /\ clock' = [clock EXCEPT ![d] = now]
    /\ UNCHANGED <<now, document, current, attempt, mine, claims, edits>>

\* The unguarded look before the claim: nothing due, nothing written.
Preview(d) ==
    /\ pc[d] = "preview"
    /\ IF Due(clock[d]) = {}
       THEN Exit(d)
       ELSE Go(d, "readClaim") /\ UNCHANGED <<current, clock, attempt, mine>>
    /\ UNCHANGED <<now, document, claims, edits>>

\* _mutate: read the document and its ETag.
Read(d) ==
    /\ \/ pc[d] = "readClaim" /\ Go(d, "writeClaim")
       \/ pc[d] = "readRelease" /\ Go(d, "writeRelease")
    /\ current' = current \cup {d}
    /\ UNCHANGED <<now, document, clock, attempt, mine, claims, edits>>

\* Mutant of Claim: every schedule is marked, not those of the same instant only.
ClaimMarksAll(d, k) ==
    LET t == clock[d] IN
    /\ k \in Earliest(t)
    /\ lease' = [key |-> k, at |-> Latest(k, t), claimed |-> t]
    /\ last' = [j \in Schedules |-> IF j \in Effective THEN Latest(k, t) ELSE last[j]]
    /\ claims' = [claims EXCEPT ![<<k, Latest(k, t)>>] = @ + 1]
    /\ UNCHANGED times

\* claim(configuration): take the earliest due occurrence, and mark every
\* schedule whose latest occurrence is the same instant.
Claim(d, k) ==
    LET t == clock[d] IN
    /\ k \in Earliest(t)
    /\ lease' = [key |-> k, at |-> Latest(k, t), claimed |-> t]
    /\ last' = [j \in Schedules |->
                    IF j \in Effective /\ Latest(j, t) = Latest(k, t)
                    THEN Latest(k, t) ELSE last[j]]
    /\ claims' = [claims EXCEPT ![<<k, Latest(k, t)>>] = @ + 1]
    /\ UNCHANGED times

\* The write is applied.  With nothing left to claim the document is written
\* all the same, and the dispatcher goes home.
WriteClaim(d) ==
    /\ pc[d] = "writeClaim" /\ d \in current
    /\ \/ /\ \E k \in Schedules : Claim(d, k)
          /\ Go(d, "running")
          /\ mine' = [mine EXCEPT ![d] = lease']
          /\ attempt' = [attempt EXCEPT ![d] = 0]
          /\ current' = {}
          /\ UNCHANGED clock
       \/ /\ Due(clock[d]) = {}
          /\ Go(d, "idle")
          /\ clock' = [clock EXCEPT ![d] = 0]
          /\ attempt' = [attempt EXCEPT ![d] = 0]
          /\ current' = {}
          /\ UNCHANGED <<document, mine, claims>>
    /\ UNCHANGED <<now, edits>>

\* The write is applied but its reply is lost: the claim raises, the job exits
\* with 1, and nobody runs under the lease.
LoseReply(d) ==
    /\ pc[d] = "writeClaim" /\ d \in current
    /\ \E k \in Schedules : Claim(d, k)
    /\ Go(d, "idle")
    /\ clock' = [clock EXCEPT ![d] = 0]
    /\ attempt' = [attempt EXCEPT ![d] = 0]
    /\ current' = {}
    /\ UNCHANGED <<now, mine, edits>>

\* The digest runs for as long as it takes, and may fail.
EndRun(d) ==
    /\ pc[d] = "running" /\ Go(d, "readRelease")
    /\ UNCHANGED <<now, document, current, clock, attempt, mine, claims, edits>>

\* Mutant of WriteRelease: the lease is told by its schedule alone.
ReleaseByKey(d) ==
    /\ pc[d] = "writeRelease" /\ d \in current
    /\ lease' = IF lease.key = mine[d].key THEN NoLease ELSE lease
    /\ Go(d, "idle")
    /\ clock' = [clock EXCEPT ![d] = 0]
    /\ attempt' = [attempt EXCEPT ![d] = 0]
    /\ mine' = [mine EXCEPT ![d] = NoLease]
    /\ current' = {}
    /\ UNCHANGED <<now, times, last, claims, edits>>

\* release(configuration): only the lease of this very occurrence is cleared.
WriteRelease(d) ==
    /\ pc[d] = "writeRelease" /\ d \in current
    /\ lease' = IF lease.key = mine[d].key /\ lease.at = mine[d].at THEN NoLease ELSE lease
    /\ Go(d, "idle")
    /\ clock' = [clock EXCEPT ![d] = 0]
    /\ attempt' = [attempt EXCEPT ![d] = 0]
    /\ mine' = [mine EXCEPT ![d] = NoLease]
    /\ current' = {}
    /\ UNCHANGED <<now, times, last, claims, edits>>

\* Mutant of Conflict: a loop without a limit.
ConflictForEver(d) ==
    /\ pc[d] \in {"writeClaim", "writeRelease"} /\ d \notin current
    /\ attempt' = [attempt EXCEPT ![d] = @ + 1]
    /\ Go(d, IF pc[d] = "writeClaim" THEN "readClaim" ELSE "readRelease")
    /\ UNCHANGED <<now, document, current, clock, mine, claims, edits>>

\* 412: _mutate reads again, up to its number of attempts.
Conflict(d) ==
    /\ pc[d] \in {"writeClaim", "writeRelease"} /\ d \notin current
    /\ IF attempt[d] + 1 < MaxWriteAttempts
       THEN /\ attempt' = [attempt EXCEPT ![d] = @ + 1]
            /\ Go(d, IF pc[d] = "writeClaim" THEN "readClaim" ELSE "readRelease")
            /\ UNCHANGED <<current, clock, mine>>
       ELSE Exit(d)
    /\ UNCHANGED <<now, document, claims, edits>>

\* Any request may fail without effect, and the job may be killed at any time
\* (replicaTimeout): it never retries, and the lease stays behind.
Die(d) ==
    /\ pc[d] # "idle"
    /\ Exit(d)
    /\ UNCHANGED <<now, document, claims, edits>>

Dispatch(d) ==
    \/ Start(d) \/ Preview(d) \/ Read(d)
    \/ WriteClaim(d) \/ LoseReply(d) \/ Conflict(d)
    \/ EndRun(d) \/ WriteRelease(d) \/ Die(d)

Next ==
    \/ Tick \/ EditElsewhere
    \/ \E k \in Managed : AddTime(k) \/ RemoveTime(k)
    \/ \E d \in Dispatchers : Dispatch(d)

Spec == Init /\ [][Next]_vars

-----------------------------------------------------------------------------
(* Properties *)

Alive(d) == mine[d] # NoLease /\ now < mine[d].claimed + LeaseHours

\* No occurrence of a schedule is claimed twice, whatever overlaps, crashes,
\* expires or is retried, unless its run time was removed in between, which
\* forgets what was claimed (AutomaticRunLease: "preventing duplicate starts").
ClaimedOnce == \A c \in Schedules \X (1..MaxTime) : claims[c] <= 1

\* While a run's lease is young it is the lease in the document: neither a
\* late release, nor an edit, nor another claim takes it away.
RunnerHoldsLease == \A d \in Dispatchers : Alive(d) => lease = mine[d]

\* Two jobs run at once only if the lease of one of them has expired.
NoOverlap ==
    \A d, e \in Dispatchers : d # e /\ Alive(d) /\ Alive(e) => FALSE

\* A claim made from an old reading of the clock never sets a schedule's last
\* occurrence back, which would let a newer one be claimed again.
LastOnlyForward ==
    [][\A k \in Deployed \cup (times \cap times') : last'[k] >= last[k]]_vars
=============================================================================
