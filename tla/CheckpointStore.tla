--------------------------- MODULE CheckpointStore ---------------------------
(***************************************************************************)
(* BlobCheckpointStore of src/services/checkpoint.py: concurrent calls of  *)
(* advance(watermark) over one blob, each a loop of read, compare and      *)
(* conditional write.  The storage service is external: it answers a GET   *)
(* with the document and its ETag, and it applies a PUT only if the        *)
(* precondition still holds when the PUT lands, which may be after the     *)
(* caller has given up on it.                                              *)
(***************************************************************************)
EXTENDS Integers, FiniteSets

CONSTANTS
    Writers,            \* processes that may call advance
    Times,              \* the watermarks they may carry
    MaxWriteAttempts,   \* _MAX_WRITE_ATTEMPTS
    MaxCalls,           \* bound: calls of advance in a behaviour
    MaxResets           \* bound: interventions from outside the program

ASSUME TimesAssumption == Times \subseteq Nat \ {0}
ASSUME AttemptsAssumption == MaxWriteAttempts \in Nat \ {0}
ASSUME BoundsAssumption == MaxCalls \in Nat /\ MaxResets \in Nat

NoValue == 0            \* None: no blob, or a document that does not parse
NoEtag  == 0            \* no blob

Values == Times \cup {NoValue}
Documents == [etag : Nat, value : Values]
NoDocument == [etag |-> NoEtag, value |-> NoValue]
Outcomes == {"none", "advanced", "stale", "contended", "error"}

VARIABLES
    blob,       \* the document in storage: its ETag and the watermark it holds
    changes,    \* how often the blob changed: the source of fresh ETags
    resets,     \* how often an outsider deleted or corrupted it
    calls,      \* calls of advance made so far
    pc,         \* per writer: "idle", "reading", "writing", "returned"
    target,     \* per writer: the watermark passed to advance
    seen,       \* per writer: what its last _read returned
    attempt,    \* per writer: failed writes of this call
    outcome,    \* per writer: how its last call ended
    inflight,   \* PUTs whose caller gave up waiting: they may still land
    begun,      \* per writer: `changes' when its call began
    epoch       \* per writer: `resets' when it last read

store == <<blob, changes, resets>>
call  == <<calls, pc, target, seen, attempt, outcome, begun, epoch>>
vars  == <<store, call, inflight>>

TypeOK ==
    /\ blob \in Documents
    /\ changes \in Nat /\ resets \in Nat /\ calls \in Nat
    /\ pc \in [Writers -> {"idle", "reading", "writing", "returned"}]
    /\ target \in [Writers -> Values]
    /\ seen \in [Writers -> Documents]
    /\ attempt \in [Writers -> 0..MaxWriteAttempts]
    /\ outcome \in [Writers -> Outcomes]
    /\ inflight \subseteq [etag : Nat, value : Times]
    /\ begun \in [Writers -> Nat]
    /\ epoch \in [Writers -> Nat]

Init ==
    /\ \/ blob = NoDocument /\ changes = 0
       \/ \E v \in Values : blob = [etag |-> 1, value |-> v] /\ changes = 1
    /\ resets = 0 /\ calls = 0 /\ inflight = {}
    /\ pc = [w \in Writers |-> "idle"]
    /\ target = [w \in Writers |-> NoValue]
    /\ seen = [w \in Writers |-> NoDocument]
    /\ attempt = [w \in Writers |-> 0]
    /\ outcome = [w \in Writers |-> "none"]
    /\ begun = [w \in Writers |-> 0]
    /\ epoch = [w \in Writers |-> 0]

-----------------------------------------------------------------------------
(* The storage service *)

\* Mutant of Matches: the PUT is sent without its If-Match header.
MatchesAnything(etag) == TRUE

\* If-Match / If-None-Match of _write: the blob is still the one that was read.
Matches(etag) == blob.etag = etag

Store(v) ==
    /\ blob' = [etag |-> changes + 1, value |-> v]
    /\ changes' = changes + 1

\* A PUT its caller has given up on reaches the service after all, or is lost.
Land ==
    /\ \E m \in inflight :
        /\ inflight' = inflight \ {m}
        /\ IF Matches(m.etag) THEN Store(m.value) ELSE UNCHANGED <<blob, changes>>
    /\ UNCHANGED <<resets, call>>

\* "Reset the analysis window": an operator deletes the blob.
Delete ==
    /\ resets < MaxResets /\ blob.etag # NoEtag
    /\ blob' = NoDocument
    /\ changes' = changes + 1
    /\ resets' = resets + 1
    /\ UNCHANGED <<call, inflight>>

\* Junk replaces the document; _parse_checkpoint reads it as None.
Corrupt ==
    /\ resets < MaxResets
    /\ Store(NoValue)
    /\ resets' = resets + 1
    /\ UNCHANGED <<call, inflight>>

-----------------------------------------------------------------------------
(* advance(watermark) *)

Return(w, how) ==
    /\ pc' = [pc EXCEPT ![w] = "returned"]
    /\ outcome' = [outcome EXCEPT ![w] = how]
    /\ seen' = [seen EXCEPT ![w] = NoDocument]

Begin(w) ==
    /\ pc[w] \in {"idle", "returned"} /\ calls < MaxCalls
    /\ calls' = calls + 1
    /\ \E t \in Times : target' = [target EXCEPT ![w] = t]
    /\ pc' = [pc EXCEPT ![w] = "reading"]
    /\ attempt' = [attempt EXCEPT ![w] = 0]
    /\ outcome' = [outcome EXCEPT ![w] = "none"]
    /\ begun' = [begun EXCEPT ![w] = changes]
    /\ UNCHANGED <<store, seen, epoch, inflight>>

\* Mutant of Read: the comparison with the stored watermark is missing.
ReadUnchecked(w) ==
    /\ pc[w] = "reading"
    /\ epoch' = [epoch EXCEPT ![w] = resets]
    /\ pc' = [pc EXCEPT ![w] = "writing"]
    /\ seen' = [seen EXCEPT ![w] = blob]
    /\ UNCHANGED <<store, calls, target, attempt, outcome, begun, inflight>>

\* _read, then the comparison that turns a late writer away.
Read(w) ==
    /\ pc[w] = "reading"
    /\ epoch' = [epoch EXCEPT ![w] = resets]
    /\ IF blob.value # NoValue /\ target[w] <= blob.value
       THEN Return(w, "stale")
       ELSE /\ pc' = [pc EXCEPT ![w] = "writing"]
            /\ seen' = [seen EXCEPT ![w] = blob]
            /\ UNCHANGED outcome
    /\ UNCHANGED <<store, calls, target, attempt, begun, inflight>>

\* The GET fails with anything but a 404: advance raises.
ReadFails(w) ==
    /\ pc[w] = "reading"
    /\ Return(w, "error")
    /\ UNCHANGED <<store, calls, target, attempt, begun, epoch, inflight>>

WriteOk(w) ==
    /\ pc[w] = "writing" /\ Matches(seen[w].etag)
    /\ Store(target[w])
    /\ Return(w, "advanced")
    /\ UNCHANGED <<resets, calls, target, attempt, begun, epoch, inflight>>

\* Mutants of WriteConflict: a loop without a limit; a 412 not told from success;
\* a loop that gives up one attempt early.
ConflictNotCounted(w) ==
    /\ pc[w] = "writing" /\ ~Matches(seen[w].etag)
    /\ attempt' = [attempt EXCEPT ![w] = @ + 1]
    /\ pc' = [pc EXCEPT ![w] = "reading"]
    /\ seen' = [seen EXCEPT ![w] = NoDocument]
    /\ UNCHANGED <<store, calls, target, outcome, begun, epoch, inflight>>

ConflictTakenForSuccess(w) ==
    /\ pc[w] = "writing" /\ ~Matches(seen[w].etag)
    /\ Return(w, "advanced")
    /\ UNCHANGED <<store, calls, target, attempt, begun, epoch, inflight>>

ConflictOneShort(w) ==
    /\ pc[w] = "writing" /\ ~Matches(seen[w].etag)
    /\ attempt' = [attempt EXCEPT ![w] = @ + 1]
    /\ IF attempt[w] + 2 < MaxWriteAttempts
       THEN /\ pc' = [pc EXCEPT ![w] = "reading"]
            /\ seen' = [seen EXCEPT ![w] = NoDocument]
            /\ UNCHANGED outcome
       ELSE Return(w, "contended")
    /\ UNCHANGED <<store, calls, target, begun, epoch, inflight>>

\* 412: read again, unless this was the last attempt.
WriteConflict(w) ==
    /\ pc[w] = "writing" /\ ~Matches(seen[w].etag)
    /\ attempt' = [attempt EXCEPT ![w] = @ + 1]
    /\ IF attempt[w] + 1 < MaxWriteAttempts
       THEN /\ pc' = [pc EXCEPT ![w] = "reading"]
            /\ seen' = [seen EXCEPT ![w] = NoDocument]
            /\ UNCHANGED outcome
       ELSE Return(w, "contended")
    /\ UNCHANGED <<store, calls, target, begun, epoch, inflight>>

\* Any other failure of the PUT is raised: refused, or timed out with the
\* request still on its way to the service.
WriteFails(w) ==
    /\ pc[w] = "writing"
    /\ Return(w, "error")
    /\ \/ UNCHANGED inflight
       \/ inflight' = inflight \cup {[etag |-> seen[w].etag, value |-> target[w]]}
    /\ UNCHANGED <<store, calls, target, attempt, begun, epoch>>

Advance(w) ==
    \/ Read(w) \/ ReadFails(w)
    \/ WriteOk(w) \/ WriteConflict(w) \/ WriteFails(w)

Next ==
    \/ Land \/ Delete \/ Corrupt
    \/ \E w \in Writers : Begin(w) \/ Advance(w)

Spec == Init /\ [][Next]_vars

-----------------------------------------------------------------------------
(* Properties *)

Register == INSTANCE MonotoneRegister WITH value <- blob.value, resets <- resets

\* The blob behaves as the abstract register: whatever the interleaving of
\* reads, conditional writes, conflicts and writes that land late, a call
\* replaces the stored watermark only by a newer one (advance, _write).
OnlyForward == Register!Spec

\* An ETag names one document: while the blob still carries the ETag a writer
\* read, or one a stray PUT is conditional on, it still holds a watermark
\* older than the one about to be written (the race the ETag guard of _write
\* exists for).
EtagPinsValue ==
    /\ \A w \in Writers :
        pc[w] = "writing" /\ Matches(seen[w].etag)
            => blob.value = seen[w].value /\ blob.value < target[w]
    /\ \A m \in inflight : Matches(m.etag) => blob.value < m.value

\* A call that answers "advanced", or answers that there is nothing to do,
\* leaves its window covered: the stored watermark is at least the caller's,
\* unless an outsider reset it after the call read it.
AnswerIsDurable ==
    \A w \in Writers :
        outcome[w] \in {"advanced", "stale"} /\ epoch[w] = resets
            => blob.value >= target[w]

\* advance gives up as contended only after other parties changed the blob
\* once for every attempt of that very call.
ContendedMeansOvertaken ==
    \A w \in Writers :
        outcome[w] = "contended" => changes >= begun[w] + MaxWriteAttempts
=============================================================================
