---------------------------- MODULE ArchiveStore ----------------------------
(***************************************************************************)
(* BlobArchiveStore of src/services/archive.py: create-only writes of      *)
(* immutable documents, retried when the answer is lost, and the paged     *)
(* listing a reader walks while new documents arrive.                      *)
(*                                                                         *)
(* Objects are listed in the order of their names.  An archive ID begins   *)
(* with the reversed time of the analysis, so a smaller name is a newer    *)
(* document; it may still be stored after older ones.                      *)
(***************************************************************************)
EXTENDS Naturals, FiniteSets

CONSTANTS
    Documents,          \* what may be archived: payload and all
    Name,               \* archive_object_name of each; two may collide
    MaxName,            \* names are 1..MaxName
    Late,               \* bound: documents written while the reader is listing
    Matching,           \* documents that match the reader's query
    Nothing,            \* no object of that name
    Junk,               \* an object whose metadata or payload cannot be read
    MaxWriteAttempts,   \* _MAX_WRITE_ATTEMPTS
    ListBatch,          \* _LIST_BATCH_SIZE
    MaxScan,            \* MAX_SCAN_RESULTS
    Limit,              \* query.limit
    MaxListFailures     \* bound: requests of the reader that fail

Names == 1..MaxName

ASSUME NameAssumption == MaxName \in Nat /\ Name \in [Documents -> Names]
ASSUME DocumentsAssumption ==
    /\ Late \subseteq Documents /\ Matching \subseteq Documents
    /\ Nothing \notin Documents /\ Junk \notin Documents /\ Nothing # Junk
ASSUME LimitsAssumption ==
    /\ MaxWriteAttempts \in Nat \ {0} /\ ListBatch \in Nat \ {0}
    /\ MaxScan \in Nat \ {0} /\ Limit \in Nat \ {0} /\ MaxListFailures \in Nat

VARIABLES
    objects,        \* per name: the document stored under it
    writing,        \* per document: where its put is, or how it ended
    attempt,        \* per document: PUTs without an answer so far
    inflight,       \* documents whose PUT nobody waits for any more
    reader,         \* "new", "listing", "between" (two pages) or "done"
    after,          \* the cursor of the current page, 0 for the first
    from,           \* the name the next batch starts at (startFrom, marker)
    found,          \* names that match on the current page
    scanned,        \* objects looked at for the current page
    page, shown,    \* the last page returned, and those before it
    expected,       \* ghost: what matched when the traversal began
    blind,          \* ghost: a page ended on an unreadable object at the scan limit
    listFailures

puts    == <<objects, writing, attempt, inflight>>
request == <<after, from, found, scanned>>
pages   == <<page, shown>>
listing == <<reader, request, pages, expected, blind, listFailures>>
vars    == <<puts, listing>>

PutStates == {"new", "sending", "comparing", "archived", "conflict", "failed"}

PutsTypeOK ==
    /\ objects \in [Names -> Documents \cup {Nothing, Junk}]
    /\ writing \in [Documents -> PutStates]
    /\ attempt \in [Documents -> 0..(MaxWriteAttempts - 1)]
    /\ inflight \subseteq Documents

ListingTypeOK ==
    /\ reader \in {"new", "listing", "between", "done"}
    /\ after \in 0..MaxName /\ from \in 0..MaxName
    /\ found \subseteq Names /\ page \subseteq Names /\ shown \subseteq Names
    /\ scanned \in Nat /\ listFailures \in Nat
    /\ expected \subseteq Names /\ blind \in BOOLEAN

TypeOK == PutsTypeOK /\ ListingTypeOK

\* Earlier runs have left some documents; anything may be unreadable.
Init ==
    /\ objects \in [Names -> (Documents \ Late) \cup {Nothing, Junk}]
    /\ \A n \in Names : objects[n] \in Documents => Name[objects[n]] = n
    /\ writing = [d \in Documents |-> IF objects[Name[d]] = d THEN "archived" ELSE "new"]
    /\ attempt = [d \in Documents |-> 0]
    /\ inflight = {}
    /\ reader = "new" /\ after = 0 /\ from = 0 /\ found = {} /\ scanned = 0
    /\ page = {} /\ shown = {} /\ expected = {} /\ blind = FALSE /\ listFailures = 0

-----------------------------------------------------------------------------
(* put *)

Step(d, to) == writing' = [writing EXCEPT ![d] = to]

Send(d) ==
    /\ d \in Late /\ writing[d] = "new"
    /\ Step(d, "sending")
    /\ UNCHANGED <<objects, attempt, inflight, listing>>

\* Mutant of Absent: the PUT is sent without its If-None-Match header.
Anything(n) == TRUE

\* If-None-Match: * of _put_once
Absent(n) == objects[n] = Nothing

Created(d) ==
    /\ writing[d] = "sending" /\ Absent(Name[d])
    /\ objects' = [objects EXCEPT ![Name[d]] = d]
    /\ Step(d, "archived")
    /\ UNCHANGED <<attempt, inflight, listing>>

\* Mutants of Exists: a 412 is taken for success; a 412 is taken for a conflict.
ExistsIsSuccess(d) ==
    /\ writing[d] = "sending" /\ ~Absent(Name[d])
    /\ Step(d, "archived")
    /\ UNCHANGED <<objects, attempt, inflight, listing>>

ExistsIsConflict(d) ==
    /\ writing[d] = "sending" /\ ~Absent(Name[d])
    /\ Step(d, "conflict")
    /\ UNCHANGED <<objects, attempt, inflight, listing>>

\* 412: the object has to be read before it is known whose it is.
Exists(d) ==
    /\ writing[d] = "sending" /\ ~Absent(Name[d])
    /\ Step(d, "comparing")
    /\ UNCHANGED <<objects, attempt, inflight, listing>>

\* _read_raw: the same bytes are an earlier attempt of this very put.
Compare(d) ==
    /\ writing[d] = "comparing"
    /\ Step(d, IF objects[Name[d]] = d THEN "archived" ELSE "conflict")
    /\ UNCHANGED <<objects, attempt, inflight, listing>>

\* Mutant of NoAnswer: the attempts are not counted against their limit.
NoAnswerForEver(d) ==
    /\ writing[d] = "sending"
    /\ inflight' \in {inflight, inflight \cup {d}}
    /\ attempt' = [attempt EXCEPT ![d] = @ + 1]
    /\ UNCHANGED <<writing, objects, listing>>

\* A RequestError or a transient status: the request may still be on its way.
NoAnswer(d) ==
    /\ writing[d] = "sending"
    /\ inflight' \in {inflight, inflight \cup {d}}
    /\ IF attempt[d] + 1 < MaxWriteAttempts
       THEN attempt' = [attempt EXCEPT ![d] = @ + 1] /\ UNCHANGED writing
       ELSE Step(d, "failed") /\ UNCHANGED attempt
    /\ UNCHANGED <<objects, listing>>

\* Any other answer of the PUT or the GET is raised; so ends a killed process.
Fails(d) ==
    /\ writing[d] \in {"sending", "comparing"}
    /\ Step(d, "failed")
    /\ inflight' \in {inflight, inflight \cup {x \in {d} : writing[x] = "sending"}}
    /\ UNCHANGED <<objects, attempt, listing>>

\* The storage service executes a request that its sender has given up on.
Land ==
    /\ \E d \in inflight :
        /\ inflight' = inflight \ {d}
        /\ objects' = IF Absent(Name[d]) THEN [objects EXCEPT ![Name[d]] = d] ELSE objects
    /\ UNCHANGED <<writing, attempt, listing>>

Put(d) ==
    \/ Send(d) \/ Created(d) \/ Exists(d) \/ Compare(d) \/ NoAnswer(d) \/ Fails(d)

-----------------------------------------------------------------------------
(* list *)

Stored == {n \in Names : objects[n] # Nothing}
Readable(n) == objects[n] # Junk
Matches(n) == objects[n] \in Matching

\* The service's answer to one List Blobs request: the first names from the
\* marker on, and the next marker, 0 for none.
Batch ==
    {n \in Stored : n >= from /\ Cardinality({m \in Stored : from <= m /\ m <= n}) <= ListBatch}
Beyond == {n \in Stored : n >= from} \ Batch
NextMarker == IF Beyond = {} THEN 0 ELSE CHOOSE n \in Beyond : \A m \in Beyond : n <= m

\* Mutant of Items: the cursor's own object is looked at again.
ItemsWithCursor == Batch

\* The objects the loop looks at: the one the cursor names was on the page before.
Items == Batch \ {after}

UpTo(S, n) == {m \in S : m <= n}
Scanned(n) == scanned + Cardinality(UpTo(Items, n))
Found(n) == found \cup {m \in UpTo(Items, n) : Matches(m)}

\* The loop leaves at n: one match too many, or the scan limit.  An object that
\* cannot be read is passed by before the limit is looked at.
LeavesAt(n) ==
    /\ Readable(n)
    /\ (Matches(n) /\ Cardinality(Found(n)) > Limit) \/ Scanned(n) >= MaxScan

LastSeen(n) == n \in Items /\ \A m \in Items : m < n => ~LeavesAt(m)
MoreAt(n) ==
    \/ Matches(n) /\ Cardinality(Found(n)) > Limit
    \/ NextMarker # 0 \/ \E m \in Batch : m > n

FirstOf(S) == {n \in S : Cardinality(UpTo(S, n)) <= Limit}
LastOf(S) == CHOOSE n \in S : \A m \in S : m <= n

\* Mutants of Cursor: the last object looked at; nothing when nothing matched.
CursorAtLast(items, last) == last
CursorOfItems(items, last) == IF items # {} THEN LastOf(items) ELSE 0

\* next_cursor of a page that is not the last
Cursor(items, last) == IF items # {} THEN LastOf(items) ELSE last

NextRequest(at) == after' = at /\ from' = at /\ found' = {} /\ scanned' = 0

\* The page is returned; the reader is done, or asks for the next one later.
Return(matches, more, last) ==
    /\ page' = FirstOf(matches)
    /\ shown' = shown \cup page
    /\ reader' = IF more THEN "between" ELSE "done"
    /\ NextRequest(IF more THEN Cursor(FirstOf(matches), last) ELSE 0)

StartListing ==
    /\ reader = "new" /\ reader' = "listing"
    /\ expected' = {n \in Stored : Matches(n)}
    /\ UNCHANGED <<puts, request, pages, blind, listFailures>>

NextPage ==
    /\ reader = "between" /\ reader' = "listing"
    /\ UNCHANGED <<puts, request, pages, expected, blind, listFailures>>

\* One batch.  The loop may leave in the middle of it, run through it to the
\* scan limit or to the end of the listing, or go on with the next batch.
ReadBatch ==
    /\ reader = "listing"
    /\ \/ \E n \in Items :
            /\ LastSeen(n) /\ LeavesAt(n)
            /\ Return(Found(n), MoreAt(n), n)
            /\ UNCHANGED blind
       \/ /\ \A n \in Items : ~LeavesAt(n)
          /\ LET total == Scanned(MaxName) IN
             IF total < MaxScan /\ NextMarker # 0
             THEN /\ from' = NextMarker
                  /\ found' = Found(MaxName) /\ scanned' = total
                  /\ UNCHANGED <<reader, after, pages, blind>>
             ELSE /\ Return(Found(MaxName), FALSE, 0)
                  /\ blind' = (blind \/ NextMarker # 0)
    /\ UNCHANGED <<puts, expected, listFailures>>

\* The listing, or the read of a document whose metadata was cut, is refused:
\* the request fails and the reader asks for the same page again.
ListFails ==
    /\ reader = "listing" /\ listFailures < MaxListFailures
    /\ reader' = "between" /\ NextRequest(after)
    /\ listFailures' = listFailures + 1
    /\ UNCHANGED <<puts, pages, expected, blind>>

List == StartListing \/ NextPage \/ ReadBatch \/ ListFails

Next ==
    \/ \E d \in Documents : Put(d)
    \/ Land
    \/ List

Spec == Init /\ [][Next]_vars

\* A reader that has more pages asks for them, and the service answers.
FairSpec == Spec /\ WF_vars(StartListing) /\ WF_vars(NextPage) /\ WF_vars(ReadBatch)

-----------------------------------------------------------------------------
(* Properties *)

\* A stored analysis is never replaced, neither by another document of the same
\* ID nor by a write that lands late (If-None-Match of _put_once).
NeverReplaced ==
    [][\A n \in Names : objects[n] # Nothing => objects'[n] = objects[n]]_vars

\* The receipt a run waits for before it sends a digest and moves the
\* checkpoint is true from then on: the very document is in the archive.
ReceiptIsDurable ==
    \A d \in Documents : writing[d] = "archived" => objects[Name[d]] = d

\* A put is refused as a conflict only because something else has its name,
\* never because an earlier attempt of its own got through without an answer.
NoFalseConflict ==
    \A d \in Documents : writing[d] = "conflict" => objects[Name[d]] \notin {d, Nothing}

\* Page after page the reader sees the documents newest first and no document
\* twice, whatever is written in the meantime.
NewestFirst == \A m \in shown, n \in page : m < n

\* A reader that got to the end has seen every matching document that was there
\* when it began, unless the scan limit fell on an unreadable object.
ListingIsComplete == reader = "done" /\ ~blind => expected \subseteq shown \cup page

\* The pages come to an end.
ListingEnds == <>(reader = "done")

\* What src/archive/README.md promises a reader: an empty result is told from
\* one that can be scanned further.
EndMeansEnd == reader = "done" => expected \subseteq shown \cup page
=============================================================================
