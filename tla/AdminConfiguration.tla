-------------------------- MODULE AdminConfiguration --------------------------
(***************************************************************************)
(* The administrators' document of src/admin/configuration.py: one blob    *)
(* replaced under its ETag by console requests in several processes, each  *)
(* of which answers reads from a copy it caches for a few seconds.  Here   *)
(* are the document, the caches, and the operations on them; the requests  *)
(* of the console; and what else writes to the blob.                       *)
(***************************************************************************)
EXTENDS Naturals, Sequences

CONSTANTS
    Emails, Scopes, Absent, Principals, Deployed, DeployedAdmins, First,
    Requests,           \* requests of the console that edit the document
    Digest,             \* the digest run, another reader of the document
    Processes,          \* web replicas and the job, each with its own cache
    Home,               \* the process each reader runs in
    TTL,                \* cache_ttl_s
    MaxWriteAttempts,   \* _MAX_WRITE_ATTEMPTS
    Asks,               \* bound: what requests ask for: [who, edit]
    MaxTime,            \* bound: the clock
    MaxVersions         \* bound: versions of the document

Readers == Requests \cup {Digest}

ASSUME ReadersAssumption == Digest \notin Requests /\ Home \in [Readers -> Processes]
ASSUME LimitsAssumption ==
    /\ TTL \in Nat \ {0} /\ MaxWriteAttempts \in Nat \ {0}
    /\ MaxTime \in Nat /\ MaxVersions \in Nat

VARIABLES
    clock,          \* time.monotonic, the same for all processes
    history,        \* the document: its versions, the last one stored now,
    since,          \* and when each was stored; the ETag is the number
    cached,         \* per process: the version in its cache, 0 for none
    expires,        \* per process: _cache_expires_at
    begun,          \* per reader: when the read under way was begun
    floor,          \* per reader: the version current at that time
    outdated,       \* ghost: readers that acted on a version out of date by more
    ask,            \* per request: the principal and the edit it asks for
    pc,             \* per request: where it is
    seen,           \* per request: the version read for the edit
    tries           \* per request: attempts at the write so far

Registry == INSTANCE AdminRegistry WITH config <- history[Len(history)]

ASSUME DocumentAssumption ==
    /\ Absent \notin Scopes /\ First \in Registry!Configurations
    /\ Deployed \in [Emails -> Scopes \cup {Absent}] /\ DeployedAdmins \subseteq Principals
ASSUME AsksAssumption == Asks \subseteq [who : Principals, edit : Registry!Edits]

document == <<history, since>>
caches   == <<cached, expires>>
loads    == <<begun, floor, outdated>>
requests == <<ask, pc, seen, tries>>
adminVars == <<clock, document, caches, loads, requests>>

Current == Len(history)
Stored  == history[Current]

AdminTypeOK ==
    /\ clock \in Nat
    /\ history \in Seq(Registry!Configurations) /\ Current > 0
    /\ since \in Seq(Nat) /\ Len(since) = Current
    /\ cached \in [Processes -> 0 .. Current]
    /\ expires \in [Processes -> Nat]
    /\ begun \in [Readers -> Nat]
    /\ floor \in [Readers -> 0 .. Current]
    /\ outdated \subseteq Readers
    /\ pc \in [Requests -> {"idle", "loading", "reading", "writing", "ended"}]
    /\ ask \in [Requests -> Asks]
    /\ seen \in [Requests -> 0 .. Current]
    /\ tries \in [Requests -> 0 .. MaxWriteAttempts]

AdminInit ==
    /\ clock = 0
    /\ history = <<First>> /\ since = <<0>>
    /\ cached = [p \in Processes |-> 0]
    /\ expires = [p \in Processes |-> 0]
    /\ begun = [r \in Readers |-> 0]
    /\ floor = [r \in Readers |-> 0]
    /\ outdated = {}
    /\ pc = [r \in Requests |-> "idle"]
    /\ ask \in [Requests -> Asks]
    /\ seen = [r \in Requests |-> 0]
    /\ tries = [r \in Requests |-> 0]

-----------------------------------------------------------------------------
(* _load, in two steps when the store has to be asked.                      *)

Fresh(p) == cached[p] > 0 /\ clock < expires[p]

(* Version v was replaced TTL or more before t.                             *)
OutOfDate(v, t) == v < Current /\ since[v + 1] + TTL <= t

(* Reader r acts on version v, which it asked for at t.                     *)
ActOn(r, v, t) == outdated' = IF OutOfDate(v, t) THEN outdated \cup {r} ELSE outdated

(* The answer comes from the cache.                                         *)
LoadCached(r) ==
    /\ Fresh(Home[r])
    /\ ActOn(r, cached[Home[r]], clock)
    /\ UNCHANGED <<caches, begun, floor>>

LoadBegins(r) ==
    /\ ~Fresh(Home[r])
    /\ begun' = [begun EXCEPT ![r] = clock]
    /\ floor' = [floor EXCEPT ![r] = Current]
    /\ UNCHANGED <<caches, outdated>>

\* Mutant of LoadReturns: the time-out runs from the end of the read.
LoadReturnsLate(r, v) ==
    /\ v \in floor[r] .. Current
    /\ cached' = [cached EXCEPT ![Home[r]] = v]
    /\ expires' = [expires EXCEPT ![Home[r]] = clock + TTL]
    /\ ActOn(r, v, begun[r])
    /\ begun' = [begun EXCEPT ![r] = 0] /\ floor' = [floor EXCEPT ![r] = 0]

(* The read was served at some time since it was begun; its result is       *)
(* cached, even over what another reader of the process has learned since.  *)
LoadReturns(r, v) ==
    /\ v \in floor[r] .. Current
    /\ cached' = [cached EXCEPT ![Home[r]] = v]
    /\ expires' = [expires EXCEPT ![Home[r]] = begun[r] + TTL]
    /\ ActOn(r, v, begun[r])
    /\ begun' = [begun EXCEPT ![r] = 0] /\ floor' = [floor EXCEPT ![r] = 0]

LoadFails(r) ==
    /\ begun' = [begun EXCEPT ![r] = 0] /\ floor' = [floor EXCEPT ![r] = 0]
    /\ UNCHANGED <<caches, outdated>>

-----------------------------------------------------------------------------
(* A request of the console: require_admin, then the edit.                  *)

Goto(r, place) == pc' = [pc EXCEPT ![r] = place]

(* The request is answered, and what it held dropped: it is done, refused   *)
(* (403, 404, 409) or failed (503).                                         *)
Reply(r) ==
    /\ Goto(r, "ended")
    /\ seen' = [seen EXCEPT ![r] = 0] /\ tries' = [tries EXCEPT ![r] = 0]

(* router.py refuses the removal of one's own identifier.                   *)
OwnRemoval(r) ==
    ask[r].edit.op = "removeAdmin" /\ ask[r].edit.principal = ask[r].who

Proceed(r, allowed) ==
    IF allowed /\ ~OwnRemoval(r)
    THEN Goto(r, "reading") /\ UNCHANGED <<seen, tries>>
    ELSE Reply(r)

Listed(r, v) == ask[r].who \in history[v].admins

(* The deployment's administrators are let in without a look at the store.  *)
Enter(r) ==
    /\ pc[r] = "idle"
    /\ IF ask[r].who \in DeployedAdmins
       THEN Proceed(r, TRUE) /\ UNCHANGED <<caches, loads>>
       ELSE \/ LoadCached(r) /\ Proceed(r, Listed(r, cached[Home[r]]))
            \/ LoadBegins(r) /\ Goto(r, "loading") /\ UNCHANGED <<seen, tries>>

Authorize(r) ==
    /\ pc[r] = "loading"
    /\ \E v \in 1 .. Current : LoadReturns(r, v) /\ Proceed(r, Listed(r, v))

Unauthorized(r) == pc[r] = "loading" /\ LoadFails(r) /\ Reply(r)

(* _mutate reads the document past the cache and checks the edit against it. *)
Read(r) ==
    /\ pc[r] = "reading"
    /\ IF Registry!Valid(ask[r].edit, Stored)
       THEN Goto(r, "writing") /\ seen' = [seen EXCEPT ![r] = Current] /\ UNCHANGED tries
       ELSE Reply(r)

Store(c) ==
    /\ Current < MaxVersions
    /\ history' = Append(history, c) /\ since' = Append(since, clock)

\* Mutant of Unchanged: the write is not conditional.
Always(v) == TRUE

(* The write is conditional on the ETag that was read.                      *)
Unchanged(v) == Current = v

(* The document as this request has edited it.                              *)
StoreEdit(r) == Unchanged(seen[r]) /\ Store(Registry!Applied(ask[r].edit, history[seen[r]]))

(* What the cache holds is no longer used: _invalidate drops it, and the    *)
(* copy a write leaves there has expired.                                   *)
Invalidate(r) ==
    /\ cached' = [cached EXCEPT ![Home[r]] = 0]
    /\ expires' = [expires EXCEPT ![Home[r]] = 0]

Write(r) == pc[r] = "writing" /\ StoreEdit(r) /\ Invalidate(r) /\ Reply(r)

Conflict(r) ==
    /\ pc[r] = "writing" /\ ~Unchanged(seen[r])
    /\ Invalidate(r)
    /\ IF tries[r] + 1 < MaxWriteAttempts
       THEN /\ Goto(r, "reading")
            /\ seen' = [seen EXCEPT ![r] = 0]
            /\ tries' = [tries EXCEPT ![r] = @ + 1]
       ELSE Reply(r)
    /\ UNCHANGED document

(* The read or the write raises; a write may have been applied first.       *)
EditFails(r) ==
    /\ \/ pc[r] \in {"reading", "writing"} /\ UNCHANGED document
       \/ pc[r] = "writing" /\ StoreEdit(r)
    /\ Reply(r)
    /\ UNCHANGED caches

RequestStep(r) ==
    /\ \/ (Enter(r) \/ Authorize(r) \/ Unauthorized(r)) /\ UNCHANGED document
       \/ Read(r) /\ UNCHANGED <<document, caches, loads>>
       \/ (Write(r) \/ Conflict(r) \/ EditFails(r)) /\ UNCHANGED loads
    /\ UNCHANGED <<clock, ask>>

(* The scheduler's claims and releases replace the same document.           *)
ScheduleWrite == Store(Stored) /\ UNCHANGED <<clock, caches, loads, requests>>

Tick ==
    /\ clock < MaxTime /\ clock' = clock + 1
    /\ UNCHANGED <<document, caches, loads, requests>>

-----------------------------------------------------------------------------

(* No edit is lost or half made, however console requests in several        *)
(* processes, retries, the scheduler's claims and lost answers interleave:  *)
(* the document changes as AdminRegistry says, by one valid edit at a time. *)
EditsAreAtomic == Registry!Spec

(* Whoever is let in as an administrator, and whoever is sent a digest, is  *)
(* so by a version of the document that was the stored one less than TTL    *)
(* before the list was asked for, or later: reads that return late, edits   *)
(* of the process itself and lost answers do not make a cached list older.  *)
ListsAreFresh == outdated = {}
=============================================================================
