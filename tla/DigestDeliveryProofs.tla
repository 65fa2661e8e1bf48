------------------------- MODULE DigestDeliveryProofs -------------------------
(***************************************************************************)
(* Proofs about AdminConfiguration and DigestDelivery, for any number of   *)
(* requests, processes, addresses, scopes and weeks: edits are atomic,     *)
(* cached lists are fresh, only administrators edit and leave alone what   *)
(* the deployment gives, and the digest keeps to each recipient's scope,   *)
(* claims no more than it has sent, and ends.                              *)
(***************************************************************************)
EXTENDS DigestDelivery, TLAPS

(* A cached version was the stored one TTL before its copy expires.        *)
CachesAreFresh ==
    \A p \in Processes :
        /\ expires[p] <= clock + TTL
        /\ cached[p] > 0 => \A i \in cached[p] + 1 .. Current : expires[p] <= since[i] + TTL

(* Whatever has replaced the version current at the beginning of a read    *)
(* has done so since.                                                      *)
LoadsAreFresh ==
    \A r \in Readers :
        /\ begun[r] <= clock
        /\ \A i \in floor[r] + 1 .. Current : begun[r] <= since[i]

Freshness == CachesAreFresh /\ LoadsAreFresh /\ ListsAreFresh

(* A request about to write has checked its edit against what it has read. *)
EditsAreChecked ==
    \A r \in Requests :
        pc[r] = "writing" => /\ seen[r] \in 1 .. Current
                             /\ Registry!Valid(ask[r].edit, history[seen[r]])

(* The types of AdminConfiguration in the parts its steps change.          *)
DocumentTyped ==
    /\ history \in Seq(Registry!Configurations) /\ Current > 0
    /\ since \in Seq(Nat) /\ Len(since) = Current
LoadsTyped ==
    /\ cached \in [Processes -> 0 .. Current]
    /\ expires \in [Processes -> Nat]
    /\ begun \in [Readers -> Nat]
    /\ floor \in [Readers -> 0 .. Current]
RequestsTyped ==
    /\ pc \in [Requests -> {"idle", "loading", "reading", "writing", "ended"}]
    /\ ask \in [Requests -> Asks]
    /\ seen \in [Requests -> 0 .. Current]
    /\ tries \in [Requests -> 0 .. MaxWriteAttempts]

AdminInv == clock \in Nat /\ DocumentTyped /\ LoadsTyped /\ RequestsTyped /\ Freshness /\ EditsAreChecked

(* What the digest holds of a week in each of its stages.                  *)
WeekInv ==
    /\ stage \in {"default", "analysing", "sending", "counting"} => listed \in 1 .. Current
    /\ stage # "counting" => mails = {}
    /\ stage = "default" => List(listed) = {}
    /\ stage = "counting" =>
         /\ sent \subseteq List(listed)
         /\ dispatches => \A e \in sent : \E m \in mails : m.to = e
    /\ \A s \in Scopes : reports[s] \in {s, NoReport}
    /\ MailKeepsToScope

(* What it has said and done in the weeks before.                          *)
WeeksInv ==
    /\ stage = "ended" => week = Weeks + 1
    /\ stage # "ended" => week <= Weeks
    /\ delivered /\ dispatches => 1 .. week - 1 \subseteq served

DeliveryTyped ==
    /\ dispatches \in BOOLEAN
    /\ stage \in Kinds
    /\ week \in 1 .. Weeks + 1
    /\ listed \in 0 .. Current
    /\ reports \in [Scopes -> Reports]
    /\ sent \subseteq Emails
    /\ delivered \in BOOLEAN
    /\ mails \subseteq Mails /\ served \subseteq 1 .. Weeks

IInv == AdminInv /\ DeliveryTyped /\ WeekInv /\ WeeksInv

-----------------------------------------------------------------------------
(* The document.                                                            *)

(* A valid edit of a well-formed configuration leaves it well formed. *)
LEMMA EditsKeepConfigurations ==
    ASSUME NEW c \in Registry!Configurations, NEW edit \in Registry!Edits
    PROVE  Registry!Applied(edit, c) \in Registry!Configurations
<1>1. c.profile \in [Emails -> Scopes \cup {Absent}] /\ c.admins \subseteq Principals
  BY DEF Registry!Configurations
<1>2. CASE edit.op = "add"
  <2>1. edit.scope \in Scopes
    BY <1>2 DEF Registry!Edits
  <2> QED
    BY <1>1, <1>2, <2>1 DEF Registry!Applied, Registry!Configurations
<1>3. CASE edit.op = "update"
  <2>1. edit.scope \in Scopes
    BY <1>3 DEF Registry!Edits
  <2> QED
    BY <1>1, <1>3, <2>1 DEF Registry!Applied, Registry!Configurations
<1>4. CASE edit.op = "remove"
  BY <1>1, <1>4 DEF Registry!Applied, Registry!Configurations
<1>5. CASE edit.op = "addAdmin"
  <2>1. edit.principal \in Principals
    BY <1>5 DEF Registry!Edits
  <2> QED
    BY <1>1, <1>5, <2>1 DEF Registry!Applied, Registry!Configurations
<1>6. CASE edit.op = "removeAdmin"
  BY <1>1, <1>6 DEF Registry!Applied, Registry!Configurations
<1> QED
  BY <1>2, <1>3, <1>4, <1>5, <1>6 DEF Registry!Edits

(* A write adds one version and leaves those before it as they were. *)
LEMMA StoreAppends ==
    ASSUME DocumentTyped, clock \in Nat, NEW c \in Registry!Configurations, Store(c)
    PROVE  /\ DocumentTyped'
           /\ Current' = Current + 1
           /\ \A i \in 1 .. Current : history'[i] = history[i] /\ since'[i] = since[i]
           /\ history'[Current + 1] = c /\ since'[Current + 1] = clock
  BY DEF DocumentTyped, Store, Current

(* A write changes neither what is cached nor how fresh it is. *)
LEMMA StoreKeepsFreshness ==
    ASSUME AdminInv, NEW c \in Registry!Configurations, Store(c),
           UNCHANGED <<clock, loads>>,
           UNCHANGED caches \/ \E r \in Readers : Invalidate(r)
    PROVE  LoadsTyped' /\ Freshness'
<1> USE DEF AdminInv
<1>1. /\ DocumentTyped' /\ Current \in Nat /\ Current' = Current + 1
      /\ \A i \in 1 .. Current : since'[i] = since[i]
      /\ since'[Current + 1] = clock
  BY StoreAppends DEF DocumentTyped, Current
<1>2. /\ cached' \in [Processes -> 0 .. Current] /\ expires' \in [Processes -> Nat]
      /\ \A p \in Processes :
           \/ cached'[p] = cached[p] /\ expires'[p] = expires[p]
           \/ cached'[p] = 0 /\ expires'[p] = 0
  <2>1. CASE UNCHANGED caches
    <3>1. cached' = cached /\ expires' = expires
      BY <2>1 DEF caches
    <3>2. cached' \in [Processes -> 0 .. Current] /\ expires' \in [Processes -> Nat]
      BY <3>1 DEF LoadsTyped
    <3> QED
      BY <3>1, <3>2
  <2>2. CASE \E r \in Readers : Invalidate(r)
    <3>1. PICK r \in Readers : Invalidate(r)
      BY <2>2
    <3>2. /\ cached' = [cached EXCEPT ![Home[r]] = 0] /\ expires' = [expires EXCEPT ![Home[r]] = 0]
          /\ cached \in [Processes -> 0 .. Current] /\ expires \in [Processes -> Nat] /\ 0 \in 0 .. Current
      BY <3>1, <1>1 DEF LoadsTyped, Invalidate
    <3>3. cached' \in [Processes -> 0 .. Current] /\ expires' \in [Processes -> Nat]
      BY <3>2
    <3>4. ASSUME NEW p \in Processes
          PROVE  \/ cached'[p] = cached[p] /\ expires'[p] = expires[p]
                 \/ cached'[p] = 0 /\ expires'[p] = 0
      BY <3>2
    <3> QED
      BY <3>3, <3>4
  <2> QED
    BY <2>1, <2>2
<1>3. LoadsTyped'
  BY <1>1, <1>2 DEF LoadsTyped, loads
<1>4. CachesAreFresh'
  <2> SUFFICES ASSUME NEW p \in Processes
               PROVE  /\ expires'[p] <= clock + TTL
                      /\ cached'[p] > 0 => \A i \in cached'[p] + 1 .. Current' : expires'[p] <= since'[i] + TTL
    BY DEF CachesAreFresh
  <2>1. CASE cached'[p] = cached[p] /\ expires'[p] = expires[p]
    <3>1. /\ cached[p] \in 0 .. Current /\ expires[p] \in Nat /\ expires[p] <= clock + TTL
          /\ cached[p] > 0 => \A i \in cached[p] + 1 .. Current : expires[p] <= since[i] + TTL
      BY DEF LoadsTyped, Freshness, CachesAreFresh
    <3>2. \A i \in cached[p] + 1 .. Current + 1 : i \in 1 .. Current \/ i = Current + 1
      BY <3>1, <1>1
    <3> QED
      BY <1>1, <2>1, <3>1, <3>2
  <2>2. CASE cached'[p] = 0 /\ expires'[p] = 0
    BY <2>2, LimitsAssumption
  <2> QED
    BY <1>2, <2>1, <2>2
<1>5. LoadsAreFresh'
  BY <1>1 DEF Freshness, LoadsAreFresh, loads, LoadsTyped
<1>6. ListsAreFresh'
  BY DEF Freshness, ListsAreFresh, loads
<1> QED
  BY <1>3, <1>4, <1>5, <1>6 DEF Freshness

(* Nothing a reader does makes a copy older than its time-out says. *)
LEMMA LoadKeepsFreshness ==
    ASSUME AdminInv, NEW r \in Readers, UNCHANGED <<clock, document>>,
           LoadCached(r) \/ LoadBegins(r) \/ LoadFails(r) \/ \E v \in 1 .. Current : LoadReturns(r, v)
    PROVE  LoadsTyped' /\ Freshness'
<1> USE ReadersAssumption, LimitsAssumption DEF AdminInv
<1>0. Home[r] \in Processes /\ Current \in Nat /\ \A i \in 1 .. Current : since[i] \in Nat
  BY DEF DocumentTyped, Current
<1>d. Current' = Current /\ since' = since /\ clock' = clock
  BY DEF document, Current
<1>1. CASE LoadCached(r)
  <2>1. cached[Home[r]] \in 0 .. Current /\ cached[Home[r]] > 0 /\ clock < expires[Home[r]] /\ expires[Home[r]] \in Nat
    BY <1>0, <1>1 DEF LoadCached, Fresh, LoadsTyped
  <2>2. ~OutOfDate(cached[Home[r]], clock)
    BY <1>0, <2>1 DEF OutOfDate, Freshness, CachesAreFresh
  <2>3. outdated' = outdated /\ UNCHANGED <<caches, begun, floor>>
    BY <1>1, <2>2 DEF LoadCached, ActOn
  <2> QED
    BY <2>3, <1>d DEF LoadsTyped, Freshness, CachesAreFresh, LoadsAreFresh, ListsAreFresh, caches
<1>2. CASE LoadBegins(r)
  <2>1. LoadsTyped' /\ CachesAreFresh' /\ ListsAreFresh'
    BY <1>0, <1>2, <1>d DEF LoadBegins, LoadsTyped, Freshness, CachesAreFresh, ListsAreFresh, caches
  <2>2. LoadsAreFresh'
    BY <1>0, <1>2, <1>d DEF LoadBegins, LoadsTyped, Freshness, LoadsAreFresh
  <2> QED
    BY <2>1, <2>2 DEF Freshness
<1>3. CASE LoadFails(r)
  <2>1. LoadsTyped' /\ CachesAreFresh' /\ ListsAreFresh'
    BY <1>0, <1>3, <1>d DEF LoadFails, LoadsTyped, Freshness, CachesAreFresh, ListsAreFresh, caches
  <2>2. LoadsAreFresh'
    BY <1>0, <1>3, <1>d DEF LoadFails, LoadsTyped, Freshness, LoadsAreFresh
  <2> QED
    BY <2>1, <2>2 DEF Freshness
<1>4. ASSUME NEW v \in 1 .. Current, LoadReturns(r, v) PROVE LoadsTyped' /\ Freshness'
  <2>1. /\ floor[r] \in 0 .. Current /\ begun[r] \in Nat /\ begun[r] <= clock /\ floor[r] <= v
        /\ \A i \in v + 1 .. Current : begun[r] <= since[i]
    BY <1>0, <1>4 DEF LoadReturns, LoadsTyped, Freshness, LoadsAreFresh
  <2>2. ~OutOfDate(v, begun[r])
    BY <1>0, <2>1 DEF OutOfDate
  <2>3. ListsAreFresh'
    BY <1>4, <2>2 DEF LoadReturns, ActOn, Freshness, ListsAreFresh
  <2>4. LoadsTyped'
    BY <1>0, <1>4, <1>d, <2>1 DEF LoadReturns, LoadsTyped
  <2>5. CachesAreFresh'
    BY <1>0, <1>4, <1>d, <2>1 DEF LoadReturns, LoadsTyped, Freshness, CachesAreFresh
  <2>6. LoadsAreFresh'
    BY <1>0, <1>4, <1>d DEF LoadReturns, LoadsTyped, Freshness, LoadsAreFresh
  <2> QED
    BY <2>3, <2>4, <2>5, <2>6 DEF Freshness
<1> QED
  BY <1>1, <1>2, <1>3, <1>4

-----------------------------------------------------------------------------
(* The requests of the console.                                             *)

DocumentExtended ==
    /\ Current' \in Nat /\ Current <= Current'
    /\ \A i \in 1 .. Current : history'[i] = history[i]

(* What requests hold stays true while the document is only extended. *)
LEMMA OthersKeepTheirChecks ==
    ASSUME AdminInv, DocumentExtended, UNCHANGED requests
    PROVE  RequestsTyped' /\ EditsAreChecked'
<1> USE DEF AdminInv, DocumentExtended, requests
<1>1. Current \in Nat
  BY DEF DocumentTyped, Current
<1>2. RequestsTyped'
  BY <1>1 DEF RequestsTyped
<1>3. EditsAreChecked'
  BY <1>1 DEF RequestsTyped, EditsAreChecked
<1> QED
  BY <1>2, <1>3

(* A request that is answered, or goes on to load or read, needs no check. *)
LEMMA MovesKeepChecks ==
    ASSUME AdminInv, DocumentExtended, NEW r \in Requests, ask' = ask,
           \/ Reply(r)
           \/ Goto(r, "loading") /\ UNCHANGED <<seen, tries>>
           \/ Goto(r, "reading") /\ UNCHANGED <<seen, tries>>
    PROVE  RequestsTyped' /\ EditsAreChecked'
<1> USE DEF AdminInv, DocumentExtended
<1>1. Current \in Nat /\ 0 \in 0 .. MaxWriteAttempts
  BY LimitsAssumption DEF DocumentTyped, Current
<1>2. CASE Reply(r)
  <2>1. RequestsTyped'
    BY <1>1, <1>2 DEF RequestsTyped, Reply, Goto
  <2>2. EditsAreChecked'
    BY <1>1, <1>2 DEF RequestsTyped, EditsAreChecked, Reply, Goto
  <2> QED
    BY <2>1, <2>2
<1>3. CASE (Goto(r, "loading") \/ Goto(r, "reading")) /\ UNCHANGED <<seen, tries>>
  <2>1. RequestsTyped'
    BY <1>1, <1>3 DEF RequestsTyped, Goto
  <2>2. EditsAreChecked'
    BY <1>1, <1>3 DEF RequestsTyped, EditsAreChecked, Goto
  <2> QED
    BY <2>1, <2>2
<1> QED
  BY <1>2, <1>3

(* A request writes the edit it has checked, to the version it has read. *)
LEMMA WritesAreChecked ==
    ASSUME AdminInv, NEW r \in Requests, pc[r] = "writing", StoreEdit(r)
    PROVE  /\ Current = seen[r]
           /\ Registry!Valid(ask[r].edit, Stored)
           /\ ask[r].edit \in Registry!Edits
           /\ Registry!Applied(ask[r].edit, Stored) \in Registry!Configurations
           /\ Store(Registry!Applied(ask[r].edit, Stored))
<1>1. Current = seen[r] /\ Registry!Valid(ask[r].edit, Stored)
      /\ Store(Registry!Applied(ask[r].edit, Stored))
  BY DEF AdminInv, EditsAreChecked, StoreEdit, Unchanged, Stored
<1>2. ask[r] \in Asks
  BY DEF AdminInv, RequestsTyped
<1>3. ask[r].edit \in Registry!Edits
  BY <1>2, AsksAssumption
<1>4. Stored \in Registry!Configurations
  BY DEF AdminInv, DocumentTyped, Stored, Current
<1> QED
  BY <1>1, <1>3, <1>4, EditsKeepConfigurations

LEMMA UnchangedExtends ==
    ASSUME AdminInv, UNCHANGED document
    PROVE  DocumentExtended /\ DocumentTyped' /\ Current' = Current
  BY DEF AdminInv, DocumentTyped, document, Current, DocumentExtended

LEMMA StoreExtends ==
    ASSUME AdminInv, NEW c \in Registry!Configurations, Store(c)
    PROVE  DocumentExtended /\ DocumentTyped'
  BY StoreAppends DEF AdminInv, DocumentTyped, Current, DocumentExtended

LEMMA AskingKeepsAdminInv ==
    ASSUME AdminInv, NEW r \in Requests, UNCHANGED <<clock, ask, document>>,
           Enter(r) \/ Authorize(r) \/ Unauthorized(r)
    PROVE  AdminInv'
<1>0. r \in Readers /\ DocumentExtended /\ DocumentTyped' /\ Current' = Current
  BY UnchangedExtends DEF Readers
<1>m. (UNCHANGED <<caches, loads>>) \/ LoadCached(r) \/ LoadBegins(r) \/ LoadFails(r)
      \/ (\E v \in 1 .. Current : LoadReturns(r, v))
  BY DEF Enter, Authorize, Unauthorized
<1>1. LoadsTyped' /\ Freshness'
  <2>1. CASE UNCHANGED <<caches, loads>>
    BY <2>1, <1>0 DEF AdminInv, document, caches, loads, LoadsTyped, Freshness, CachesAreFresh, LoadsAreFresh, ListsAreFresh
  <2> QED
    BY <2>1, <1>0, <1>m, LoadKeepsFreshness
<1>2. \/ Reply(r)
      \/ Goto(r, "loading") /\ UNCHANGED <<seen, tries>>
      \/ Goto(r, "reading") /\ UNCHANGED <<seen, tries>>
  BY DEF Enter, Authorize, Unauthorized, Proceed
<1>3. RequestsTyped' /\ EditsAreChecked'
  BY <1>0, <1>2, MovesKeepChecks
<1> QED
  BY <1>0, <1>1, <1>3 DEF AdminInv

LEMMA EditingKeepsAdminInv ==
    ASSUME AdminInv, NEW r \in Requests, UNCHANGED <<clock, ask, loads>>,
           (Read(r) /\ UNCHANGED <<document, caches>>) \/ Write(r) \/ Conflict(r) \/ EditFails(r)
    PROVE  AdminInv'
<1>0. r \in Readers
  BY DEF Readers
<1>1. CASE Read(r) /\ UNCHANGED <<document, caches>>
  <2>0. DocumentExtended /\ DocumentTyped' /\ Current' = Current /\ history' = history
    BY <1>1, UnchangedExtends DEF document
  <2>1. LoadsTyped' /\ Freshness'
    BY <1>1, <2>0 DEF AdminInv, document, caches, loads, LoadsTyped, Freshness, CachesAreFresh, LoadsAreFresh, ListsAreFresh
  <2>2. CASE Registry!Valid(ask[r].edit, Stored)
    <3>1. Goto(r, "writing") /\ seen' = [seen EXCEPT ![r] = Current] /\ tries' = tries
          /\ Current \in 1 .. Current
      BY <1>1, <2>2 DEF Read, AdminInv, DocumentTyped, Current
    <3>2. RequestsTyped'
      BY <2>0, <3>1 DEF AdminInv, RequestsTyped, Goto
    <3>3. EditsAreChecked'
      BY <2>0, <2>2, <3>1 DEF AdminInv, RequestsTyped, EditsAreChecked, Goto, Stored
    <3> QED
      BY <2>0, <2>1, <3>2, <3>3 DEF AdminInv
  <2>3. CASE ~Registry!Valid(ask[r].edit, Stored)
    <3>1. Reply(r)
      BY <1>1, <2>3 DEF Read
    <3> QED
      BY <2>0, <2>1, <3>1, MovesKeepChecks DEF AdminInv
  <2> QED
    BY <2>2, <2>3
<1>2. CASE pc[r] = "writing" /\ StoreEdit(r) /\ Reply(r) /\ (Invalidate(r) \/ UNCHANGED caches)
  <2> DEFINE c == Registry!Applied(ask[r].edit, Stored)
  <2>1. c \in Registry!Configurations /\ Store(c)
    BY <1>2, WritesAreChecked
  <2> HIDE DEF c
  <2>2. DocumentExtended /\ DocumentTyped'
    BY <2>1, StoreExtends
  <2>3. UNCHANGED caches \/ \E q \in Readers : Invalidate(q)
    BY <1>0, <1>2
  <2>4. LoadsTyped' /\ Freshness'
    BY <2>1, <2>3, StoreKeepsFreshness
  <2> QED
    BY <1>2, <2>2, <2>4, MovesKeepChecks DEF AdminInv
<1>3. CASE Conflict(r)
  <2>0. DocumentExtended /\ DocumentTyped' /\ Current' = Current /\ history' = history /\ since' = since
        /\ Invalidate(r) /\ Home[r] \in Processes /\ clock' = clock /\ Current \in Nat
    BY <1>0, <1>3, UnchangedExtends, ReadersAssumption DEF document, Conflict, AdminInv, DocumentTyped, Current
  <2>1. LoadsTyped'
    BY <2>0 DEF AdminInv, loads, LoadsTyped, Invalidate
  <2>2. CachesAreFresh'
    BY <2>0, LimitsAssumption DEF AdminInv, LoadsTyped, Freshness, CachesAreFresh, Invalidate
  <2>3. LoadsAreFresh' /\ ListsAreFresh'
    BY <2>0 DEF AdminInv, loads, Freshness, LoadsAreFresh, ListsAreFresh
  <2>4. RequestsTyped' /\ EditsAreChecked'
    <3>1. CASE Reply(r)
      BY <2>0, <3>1, MovesKeepChecks
    <3>2. CASE /\ tries[r] + 1 < MaxWriteAttempts
               /\ Goto(r, "reading")
               /\ seen' = [seen EXCEPT ![r] = 0]
               /\ tries' = [tries EXCEPT ![r] = @ + 1]
      <4>1. tries[r] + 1 \in 0 .. MaxWriteAttempts
        BY <3>2, LimitsAssumption DEF AdminInv, RequestsTyped
      <4>2. RequestsTyped'
        BY <2>0, <3>2, <4>1 DEF AdminInv, RequestsTyped, Goto
      <4>3. EditsAreChecked'
        BY <2>0, <3>2 DEF AdminInv, RequestsTyped, EditsAreChecked, Goto
      <4> QED
        BY <4>2, <4>3
    <3> QED
      BY <1>3, <3>1, <3>2 DEF Conflict
  <2> QED
    BY <2>0, <2>1, <2>2, <2>3, <2>4 DEF AdminInv, Freshness
<1>4. CASE Reply(r) /\ UNCHANGED <<caches, document>>
  <2>0. DocumentExtended /\ DocumentTyped' /\ Current' = Current
    BY <1>4, UnchangedExtends
  <2>1. LoadsTyped' /\ Freshness'
    BY <1>4, <2>0 DEF AdminInv, document, caches, loads, LoadsTyped, Freshness, CachesAreFresh, LoadsAreFresh, ListsAreFresh
  <2> QED
    BY <1>4, <2>0, <2>1, MovesKeepChecks DEF AdminInv
<1> QED
  BY <1>1, <1>2, <1>3, <1>4 DEF Write, EditFails

LEMMA RequestKeepsAdminInv ==
    ASSUME AdminInv, NEW r \in Requests, RequestStep(r)
    PROVE  AdminInv'
  BY AskingKeepsAdminInv, EditingKeepsAdminInv DEF RequestStep

LEMMA ScheduleKeepsAdminInv == AdminInv /\ ScheduleWrite => AdminInv'
<1> SUFFICES ASSUME AdminInv, ScheduleWrite PROVE AdminInv'
  OBVIOUS
<1>1. Stored \in Registry!Configurations /\ Store(Stored)
  BY DEF AdminInv, DocumentTyped, Stored, Current, ScheduleWrite
<1>2. DocumentExtended /\ DocumentTyped'
  BY <1>1, StoreExtends
<1>3. LoadsTyped' /\ Freshness'
  BY <1>1, StoreKeepsFreshness DEF ScheduleWrite
<1>4. RequestsTyped' /\ EditsAreChecked'
  BY <1>2, OthersKeepTheirChecks DEF ScheduleWrite
<1> QED
  BY <1>2, <1>3, <1>4 DEF AdminInv, ScheduleWrite

LEMMA TickKeepsAdminInv == AdminInv /\ Tick => AdminInv'
<1> SUFFICES ASSUME AdminInv, Tick PROVE AdminInv'
  OBVIOUS
<1>1. DocumentExtended /\ DocumentTyped' /\ Current' = Current /\ since' = since
  BY UnchangedExtends DEF Tick, document
<1>2. clock \in Nat /\ clock' = clock + 1 /\ UNCHANGED <<cached, expires, begun, floor, outdated>>
  BY DEF AdminInv, Tick, caches, loads
<1>3. LoadsTyped'
  BY <1>1, <1>2 DEF AdminInv, LoadsTyped
<1>4. CachesAreFresh'
  BY <1>1, <1>2, LimitsAssumption DEF AdminInv, LoadsTyped, Freshness, CachesAreFresh
<1>5. LoadsAreFresh' /\ ListsAreFresh'
  BY <1>1, <1>2 DEF AdminInv, LoadsTyped, Freshness, LoadsAreFresh, ListsAreFresh
<1>6. RequestsTyped' /\ EditsAreChecked'
  BY <1>1, OthersKeepTheirChecks DEF Tick
<1> QED
  BY <1>1, <1>2, <1>3, <1>4, <1>5, <1>6 DEF AdminInv, Freshness

-----------------------------------------------------------------------------
(* The digest.                                                              *)

DeliveryInv == DeliveryTyped /\ WeekInv /\ WeeksInv

(* The week's list is what it was, whatever is stored meanwhile. *)
LEMMA ListsAreStable ==
    ASSUME AdminInv, DocumentExtended, NEW v \in 1 .. Current
    PROVE  /\ v \in 1 .. Current'
           /\ \A e \in Emails : Profile(v, e)' = Profile(v, e)
           /\ List(v)' = List(v)
<1>1. v \in 1 .. Current' /\ history'[v] = history[v]
  BY DEF DocumentExtended, AdminInv, DocumentTyped, Current
<1>2. \A e \in Emails : Profile(v, e)' = Profile(v, e)
  BY <1>1 DEF Profile
<1> QED
  BY <1>1, <1>2 DEF List

LEMMA OthersKeepDelivery ==
    ASSUME AdminInv, DeliveryInv, DocumentExtended, UNCHANGED delivery
    PROVE  DeliveryInv'
<1> USE DEF DeliveryInv, delivery
<1>0. Current \in Nat /\ Current' \in Nat /\ Current <= Current'
  BY DEF DocumentExtended, AdminInv, DocumentTyped, Current
<1>1. DeliveryTyped'
  BY <1>0 DEF DeliveryTyped
<1>2. WeeksInv'
  BY DEF WeeksInv
<1>3. WeekInv'
  <2>1. CASE stage \in {"default", "analysing", "sending", "counting"}
    <3>1. listed \in 1 .. Current
      BY <2>1 DEF WeekInv
    <3>2. /\ listed \in 1 .. Current' /\ List(listed)' = List(listed)
          /\ \A e \in Emails : Profile(listed, e)' = Profile(listed, e)
      BY <3>1, ListsAreStable
    <3>3. MailKeepsToScope'
      BY <3>2 DEF WeekInv, DeliveryTyped, Mails, MailKeepsToScope
    <3> QED
      BY <3>2, <3>3 DEF WeekInv
  <2>2. CASE stage \notin {"default", "analysing", "sending", "counting"}
    BY <2>2 DEF WeekInv, MailKeepsToScope
  <2> QED
    BY <2>1, <2>2
<1> QED
  BY <1>1, <1>2, <1>3

(* A week is counted as delivered only when everyone on its list was       *)
(* mailed, if mails leave at all.                                          *)
LEMMA EndWeekKeepsDelivery ==
    ASSUME DeliveryInv, stage # "ended", NEW ok \in BOOLEAN, NEW v, EndWeek(ok, v), Current' \in Nat,
           dispatches' = dispatches,
           ok /\ dispatches => \A e \in List(v) : \E m \in mails : m.to = e
    PROVE  DeliveryInv'
<1> USE DEF DeliveryInv
<1>1. /\ week \in 1 .. Weeks /\ Weeks \in Nat
      /\ served' \in {served, served \cup {week}} /\ delivered' = (delivered /\ ok)
      /\ (ok /\ dispatches => served' = served \cup {week})
      /\ week' = week + 1
      /\ stage' = IF week = Weeks THEN "ended" ELSE "list"
      /\ reports' = [s \in Scopes |-> NoReport]
      /\ sent' = {} /\ listed' = 0 /\ mails' = {}
  BY DeliveryAssumption DEF EndWeek, DeliveryTyped, WeeksInv
<1>2. listed' \in 0 .. Current' /\ reports' \in [Scopes -> Reports] /\ sent' \subseteq Emails /\ mails' \subseteq Mails
  BY <1>1 DEF Reports
<1>3. WeekInv'
  BY <1>1 DEF WeekInv, MailKeepsToScope
<1>4. WeeksInv'
  <2>1. delivered' /\ dispatches' => 1 .. week' - 1 \subseteq served'
    <3> SUFFICES ASSUME delivered', dispatches PROVE 1 .. week \subseteq served'
      BY <1>1
    <3>1. delivered /\ ok
      BY <1>1 DEF DeliveryTyped
    <3>2. 1 .. week - 1 \subseteq served /\ served' = served \cup {week}
      BY <1>1, <3>1 DEF WeeksInv
    <3> QED
      BY <1>1, <3>2
  <2> QED
    BY <1>1, <2>1 DEF WeeksInv
<1>5. week' \in 1 .. Weeks + 1 /\ served' \subseteq 1 .. Weeks /\ stage' \in Kinds
  BY <1>1 DEF DeliveryTyped, Kinds
<1>6. delivered' \in BOOLEAN /\ dispatches' \in BOOLEAN
  BY <1>1 DEF DeliveryTyped
<1> QED
  BY <1>2, <1>3, <1>4, <1>5, <1>6 DEF DeliveryTyped

(* A week begins with the list as some version of the document has it. *)
LEMMA ServeWeekKeepsDelivery ==
    ASSUME AdminInv, DeliveryInv, UNCHANGED document, stage \in {"list", "loading"},
           dispatches' = dispatches, NEW v \in 1 .. Current, ServeWeek(v)
    PROVE  DeliveryInv'
<1>0. DocumentExtended /\ Current' = Current /\ Current \in Nat /\ List(v)' = List(v)
  BY UnchangedExtends, ListsAreStable DEF AdminInv, DocumentTyped, Current
<1>1. CASE EndWeek(FALSE, v)
  BY <1>0, <1>1, EndWeekKeepsDelivery
<1>2. CASE /\ stage' = IF List(v) = {} THEN "default" ELSE "analysing"
           /\ listed' = v
           /\ UNCHANGED <<week, reports, sent, delivered, mails, served>>
  <2>1. List(listed)' = List(v)
    BY <1>0, <1>2 DEF List, Profile
  <2>2. DeliveryTyped'
    BY <1>0, <1>2 DEF DeliveryInv, DeliveryTyped, Kinds
  <2>3. mails = {} /\ stage' \in {"default", "analysing"} /\ (stage' = "default" => List(v) = {})
    BY <1>2 DEF DeliveryInv, WeekInv
  <2>4. WeekInv'
    BY <1>0, <1>2, <2>1, <2>3 DEF DeliveryInv, WeekInv, MailKeepsToScope
  <2>5. WeeksInv'
    BY <1>2, <2>3 DEF DeliveryInv, WeeksInv
  <2> QED
    BY <2>2, <2>4, <2>5 DEF DeliveryInv
<1> QED
  BY <1>1, <1>2 DEF ServeWeek

(* Whoever is on a list has a scope. *)
LEMMA ListedHaveScopes ==
    ASSUME AdminInv, NEW v \in 1 .. Current, NEW e \in List(v)
    PROVE  e \in Emails /\ Profile(v, e) \in Scopes
<1>1. history[v] \in Registry!Configurations
  BY DEF AdminInv, DocumentTyped, Current
<1>2. history[v].profile \in [Emails -> Scopes \cup {Absent}]
  BY <1>1 DEF Registry!Configurations
<1> QED
  BY <1>2, DocumentAssumption DEF List, Profile

(* The list is asked for, and the week begins or the stage gives up. *)
LEMMA ListingKeepsInv ==
    ASSUME IInv, AskList \/ ListRead \/ ListFails, UNCHANGED <<clock, document, requests, dispatches>>
    PROVE  IInv'
<1> USE DEF IInv
<1>0. Digest \in Readers /\ DocumentExtended /\ DocumentTyped' /\ Current' = Current /\ Current \in Nat
  BY UnchangedExtends DEF Readers, AdminInv, DocumentTyped, Current
<1>1. LoadCached(Digest) \/ LoadBegins(Digest) \/ LoadFails(Digest)
      \/ (\E v \in 1 .. Current : LoadReturns(Digest, v))
  BY DEF AskList, ListRead, ListFails
<1>2. LoadsTyped' /\ Freshness'
  BY <1>0, <1>1, LoadKeepsFreshness
<1>3. AdminInv'
  BY <1>0, <1>2, OthersKeepTheirChecks DEF AdminInv
<1>4. DeliveryInv
  BY DEF DeliveryInv
<1>5. CASE LoadCached(Digest) /\ stage = "list" /\ ServeWeek(cached[Home[Digest]])
  <2>1. cached[Home[Digest]] \in 1 .. Current
    BY <1>0, <1>5, ReadersAssumption DEF LoadCached, Fresh, AdminInv, LoadsTyped
  <2> QED
    BY <1>3, <1>4, <1>5, <2>1, ServeWeekKeepsDelivery DEF DeliveryInv
<1>6. ASSUME NEW v \in 1 .. Current, stage = "loading", ServeWeek(v) PROVE IInv'
  BY <1>3, <1>4, <1>6, ServeWeekKeepsDelivery DEF DeliveryInv
<1>7. CASE /\ stage' \in {"loading", "raised"} /\ stage \in {"list", "loading"}
           /\ UNCHANGED <<week, listed, reports, sent, delivered, mails, served>>
  <2>1. DeliveryTyped'
    BY <1>0, <1>7 DEF DeliveryTyped, Kinds
  <2>2. WeekInv'
    BY <1>7 DEF WeekInv, MailKeepsToScope
  <2>3. WeeksInv'
    BY <1>7 DEF WeeksInv
  <2> QED
    BY <1>3, <2>1, <2>2, <2>3
<1> QED
  BY <1>5, <1>6, <1>7 DEF AskList, ListRead, ListFails

(* The week is served. *)
LEMMA ServingKeepsInv ==
    ASSUME IInv, Analyse \/ Send \/ WeekSent \/ SendDefault,
           UNCHANGED <<clock, document, requests, caches, loads, dispatches>>
    PROVE  IInv'
<1> USE DEF IInv
<1>0. DocumentExtended /\ DocumentTyped' /\ Current' = Current /\ Current \in Nat /\ history' = history
  BY UnchangedExtends DEF AdminInv, DocumentTyped, Current, document
<1>1. LoadsTyped' /\ Freshness'
  BY <1>0 DEF AdminInv, document, caches, loads, LoadsTyped, Freshness, CachesAreFresh, LoadsAreFresh, ListsAreFresh
<1>2. AdminInv'
  BY <1>0, <1>1, OthersKeepTheirChecks DEF AdminInv
<1>3. DeliveryInv
  BY DEF DeliveryInv
<1>4. CASE Analyse
  <2>1. PICK ok \in SUBSET Bounded(listed) : reports' = [s \in Scopes |-> IF s \in ok THEN s ELSE NoReport]
    BY <1>4 DEF Analyse
  <2>2. stage = "analysing" /\ stage' = "sending" /\ UNCHANGED <<week, listed, sent, delivered, mails, served>>
    BY <1>4 DEF Analyse
  <2>3. reports' \in [Scopes -> Reports] /\ \A s \in Scopes : reports'[s] \in {s, NoReport}
    BY <2>1 DEF Reports
  <2>4. DeliveryTyped'
    BY <1>0, <2>2, <2>3 DEF DeliveryTyped, Kinds
  <2>5. WeekInv'
    BY <1>0, <2>2, <2>3 DEF WeekInv, MailKeepsToScope
  <2>6. WeeksInv'
    BY <2>2 DEF WeeksInv
  <2> QED
    BY <1>2, <2>4, <2>5, <2>6
<1>5. CASE Send
  <2>1. /\ \A m \in mails' : \E e \in List(listed) : m = Mail(e)
        /\ dispatches => \A e \in sent' : Mail(e) \in mails'
    <3>1. sent' \subseteq List(listed)
      BY <1>5 DEF Send
    <3>2. CASE dispatches
      <4>1. PICK unknown \in SUBSET (List(listed) \ sent') :
              mails' = {Mail(e) : e \in sent' \cup unknown}
        BY <1>5, <3>2 DEF Send
      <4> QED
        BY <3>1, <4>1
    <3>3. CASE ~dispatches
      BY <1>5, <3>3 DEF Send
    <3> QED
      BY <3>2, <3>3
  <2>2. /\ stage = "sending" /\ stage' = "counting" /\ sent' \subseteq List(listed)
        /\ UNCHANGED <<week, listed, reports, delivered, served>>
    BY <1>5 DEF Send
  <2>3. listed \in 1 .. Current /\ List(listed)' = List(listed)
        /\ \A e \in Emails : Profile(listed, e)' = Profile(listed, e)
    BY <1>0, <2>2 DEF WeekInv, List, Profile
  <2>4. ASSUME NEW m \in mails'
        PROVE  /\ m.to \in List(listed) /\ m \in Mails
               /\ m.report \in {Profile(listed, m.to), NoReport}
               /\ m.link => Profile(listed, m.to) = Tenant
    <3>1. PICK e \in List(listed) : m = Mail(e)
      BY <2>1, <2>2
    <3>2. e \in Emails /\ Profile(listed, e) \in Scopes
      BY <2>3, ListedHaveScopes
    <3>3. reports[Profile(listed, e)] \in {Profile(listed, e), NoReport}
      BY <3>2 DEF WeekInv
    <3>4. /\ m.to = e /\ m.link = (Profile(listed, e) = Tenant)
          /\ m.report = IF Profile(listed, e) = Tenant THEN Tenant ELSE reports[Profile(listed, e)]
      BY <3>1 DEF Mail, ReportFor
    <3>5. m.report \in {Profile(listed, e), NoReport}
      BY <3>3, <3>4
    <3>6. m \in Mails
      BY <3>1, <3>2, <3>4, <3>5 DEF Mail, Mails, Reports
    <3> QED
      BY <3>1, <3>4, <3>5, <3>6
  <2>5. dispatches => \A e \in sent' : \E m \in mails' : m.to = e
    <3> SUFFICES ASSUME dispatches, NEW e \in sent' PROVE \E m \in mails' : m.to = e
      OBVIOUS
    <3>1. Mail(e) \in mails' /\ Mail(e).to = e
      BY <2>1 DEF Mail
    <3> QED
      BY <3>1
  <2>6. DeliveryTyped'
    <3>1. sent' \subseteq Emails /\ mails' \subseteq Mails
      BY <2>2, <2>4 DEF List
    <3> QED
      BY <1>0, <2>2, <3>1 DEF DeliveryTyped, Kinds
  <2>7. MailKeepsToScope'
    <3> SUFFICES ASSUME NEW m \in mails'
                 PROVE  /\ m.to \in List(listed)'
                        /\ m.report \in {Profile(listed, m.to)', NoReport}
                        /\ (m.link => Profile(listed, m.to)' = Tenant)
      BY DEF MailKeepsToScope
    <3>1. m.to \in Emails
      BY <2>4 DEF List
    <3> QED
      BY <2>3, <2>4, <3>1
  <2>8. WeekInv'
    BY <1>0, <2>2, <2>3, <2>5, <2>7 DEF WeekInv
  <2>9. WeeksInv'
    BY <2>2 DEF WeeksInv
  <2> QED
    BY <1>2, <2>6, <2>8, <2>9
<1>6. CASE WeekSent
  <2>1. stage = "counting" /\ EndWeek(Served, listed) /\ Served \in BOOLEAN
        /\ (Served /\ dispatches => \A e \in List(listed) : \E m \in mails : m.to = e)
    BY <1>6 DEF WeekSent, Served, WeekInv
  <2>2. DeliveryInv'
    BY <1>0, <1>3, <2>1, EndWeekKeepsDelivery
  <2> QED
    BY <1>2, <2>2 DEF DeliveryInv
<1>7. CASE SendDefault
  <2>1. PICK ok \in BOOLEAN : stage = "default" /\ EndWeek(ok, listed)
    BY <1>7 DEF SendDefault
  <2>2. \A e \in List(listed) : \E m \in mails : m.to = e
    BY <2>1 DEF WeekInv
  <2>3. DeliveryInv'
    BY <1>0, <1>3, <2>1, <2>2, EndWeekKeepsDelivery
  <2> QED
    BY <1>2, <2>3 DEF DeliveryInv
<1> QED
  BY <1>4, <1>5, <1>6, <1>7

-----------------------------------------------------------------------------

LEMMA InitIInv == Init => IInv
<1> SUFFICES ASSUME Init PROVE IInv
  OBVIOUS
<1> USE DEF Init, AdminInit
<1>1. DocumentTyped /\ clock \in Nat /\ Current = 1
  BY DocumentAssumption DEF DocumentTyped, Current
<1>2. LoadsTyped /\ RequestsTyped
  BY <1>1, LimitsAssumption DEF LoadsTyped, RequestsTyped
<1>3. Freshness /\ EditsAreChecked
  BY <1>1, LimitsAssumption DEF Freshness, CachesAreFresh, LoadsAreFresh, ListsAreFresh, EditsAreChecked
<1>4. DeliveryTyped
  BY <1>1, DeliveryAssumption DEF DeliveryTyped, Kinds, Reports
<1>5. WeekInv
  BY DEF WeekInv, MailKeepsToScope
<1>6. WeeksInv
  BY DeliveryAssumption DEF WeeksInv
<1> QED
  BY <1>1, <1>2, <1>3, <1>4, <1>5, <1>6 DEF IInv, AdminInv

LEMMA NextIInv == IInv /\ [Next]_vars => IInv'
<1> SUFFICES ASSUME IInv, [Next]_vars PROVE IInv'
  OBVIOUS
<1>1. CASE DeliveryStep
  BY <1>1, ListingKeepsInv, ServingKeepsInv DEF DeliveryStep
<1>2. ASSUME NEW r \in Requests, RequestStep(r), UNCHANGED delivery PROVE IInv'
  <2>1. AdminInv'
    BY <1>2, RequestKeepsAdminInv DEF IInv
  <2>2. DocumentExtended
    <3>1. CASE UNCHANGED document
      BY <3>1, UnchangedExtends DEF IInv
    <3>2. CASE pc[r] = "writing" /\ StoreEdit(r)
      BY <3>2, WritesAreChecked, StoreExtends DEF IInv
    <3> QED
      BY <1>2, <3>1, <3>2 DEF RequestStep, Write, Conflict, EditFails
  <2> QED
    BY <1>2, <2>1, <2>2, OthersKeepDelivery DEF IInv, DeliveryInv
<1>3. CASE ScheduleWrite /\ UNCHANGED delivery
  <2>1. Stored \in Registry!Configurations /\ Store(Stored)
    BY <1>3 DEF IInv, AdminInv, DocumentTyped, Stored, Current, ScheduleWrite
  <2> QED
    BY <1>3, <2>1, StoreExtends, ScheduleKeepsAdminInv, OthersKeepDelivery DEF IInv, DeliveryInv
<1>4. CASE Tick /\ UNCHANGED delivery
  <2>1. DocumentExtended
    BY <1>4, UnchangedExtends DEF IInv, Tick
  <2> QED
    BY <1>4, <2>1, TickKeepsAdminInv, OthersKeepDelivery DEF IInv, DeliveryInv
<1>5. CASE UNCHANGED vars
  <2>1. /\ UNCHANGED <<clock, document, caches, loads, requests, delivery>>
        /\ DocumentExtended /\ DocumentTyped' /\ Current' = Current
    BY <1>5, UnchangedExtends DEF IInv, vars, adminVars
  <2>2. LoadsTyped' /\ Freshness'
    BY <2>1 DEF IInv, AdminInv, document, caches, loads, LoadsTyped, Freshness, CachesAreFresh, LoadsAreFresh, ListsAreFresh
  <2> QED
    BY <2>1, <2>2, OthersKeepTheirChecks, OthersKeepDelivery DEF IInv, AdminInv, DeliveryInv
<1> QED
  BY <1>1, <1>2, <1>3, <1>4, <1>5 DEF Next

(* The inductive invariant holds in every behaviour of the digest stage    *)
(* among the edits of administrators.                                      *)
THEOREM Invariance == Spec => []IInv
  BY InitIInv, NextIInv, PTL DEF Spec

(* The types of the document, its caches and the digest hold in every      *)
(* behaviour.                                                              *)
THEOREM TypeCorrect == Spec => []TypeOK
<1>1. IInv => TypeOK
  BY DEF IInv, AdminInv, TypeOK, AdminTypeOK, DocumentTyped, LoadsTyped, RequestsTyped,
         DeliveryTyped, Freshness, ListsAreFresh
<1> QED
  BY <1>1, Invariance, PTL

(* Nobody acts on a list older than the time-out of the cache, for any     *)
(* number of processes and readers and however long a read takes.          *)
THEOREM CachedListsAreFresh == Spec => []ListsAreFresh
<1>1. IInv => ListsAreFresh
  BY DEF IInv, AdminInv, Freshness
<1> QED
  BY <1>1, Invariance, PTL

(* A mail of the digest keeps to the scope its recipient had on the list   *)
(* the week was served from, for any edits and failures meanwhile.         *)
THEOREM NoMailBeyondScope == Spec => []MailKeepsToScope
<1>1. IInv => MailKeepsToScope
  BY DEF IInv, WeekInv
<1> QED
  BY <1>1, Invariance, PTL

(* Where mails leave at all, a digest that is called delivered has gone to *)
(* everyone on every week's list, for any number of weeks.                 *)
THEOREM DeliveredToEveryone == Spec => []SentMeansEveryone
<1>1. IInv => SentMeansEveryone
  <2> SUFFICES ASSUME IInv, stage = "ended", delivered, dispatches PROVE served = 1 .. Weeks
    BY DEF SentMeansEveryone
  <2>1. week - 1 = Weeks
    BY DeliveryAssumption DEF IInv, WeeksInv
  <2>2. 1 .. Weeks \subseteq served /\ served \subseteq 1 .. Weeks
    BY <2>1 DEF IInv, WeeksInv, DeliveryTyped
  <2> QED
    BY <2>2
<1> QED
  BY <1>1, Invariance, PTL

(* Console requests in several processes, with their retries and lost      *)
(* answers, implement one configuration edited by one valid edit at a time. *)
THEOREM EditsImplementRegistry == Spec => EditsAreAtomic
<1>1. Init => Registry!Init
  BY DEF Init, AdminInit, Registry!Init
<1>2. IInv /\ [Next]_vars => [Registry!Next]_(history[Len(history)])
  <2> SUFFICES ASSUME IInv, [Next]_vars, Stored' # Stored
               PROVE  Registry!Next
    BY DEF Stored, Current
  <2>1. ~UNCHANGED document
    BY DEF document, Stored, Current
  <2>2. \E r \in Requests : pc[r] = "writing" /\ StoreEdit(r)
    <3>1. ~ScheduleWrite
      <4> SUFFICES ASSUME ScheduleWrite PROVE FALSE
        OBVIOUS
      <4>1. Stored \in Registry!Configurations /\ Store(Stored)
        BY DEF IInv, AdminInv, DocumentTyped, Stored, Current, ScheduleWrite
      <4>2. Stored' = Stored
        BY <4>1, StoreAppends DEF IInv, AdminInv, Stored
      <4> QED
        BY <4>2
    <3> QED
      BY <2>1, <3>1 DEF Next, DeliveryStep, RequestStep, Write, Conflict, EditFails, Tick, vars, adminVars
  <2>3. PICK r \in Requests : pc[r] = "writing" /\ StoreEdit(r)
    BY <2>2
  <2> DEFINE edit == ask[r].edit
  <2>4. /\ edit \in Registry!Edits /\ Registry!Valid(edit, Stored)
        /\ Registry!Applied(edit, Stored) \in Registry!Configurations
        /\ Store(Registry!Applied(edit, Stored))
    BY <2>3, WritesAreChecked DEF IInv
  <2>5. Stored' = Registry!Applied(edit, Stored)
    BY <2>4, StoreAppends DEF IInv, AdminInv, Stored
  <2> QED
    BY <2>4, <2>5 DEF Registry!Next, Stored, Current
<1> QED
  BY <1>1, <1>2, Invariance, PTL DEF Spec, EditsAreAtomic, Registry!Spec

-----------------------------------------------------------------------------
(* The deployment's own entries.                                            *)

(* In every version of the document the deployment's addresses have the    *)
(* profiles, and its administrators the places, they had in the first.     *)
DeploymentIsUntouched ==
    \A i \in 1 .. Current :
        /\ \A e \in Emails : Registry!Owned(e) => history[i].profile[e] = First.profile[e]
        /\ history[i].admins \cap DeployedAdmins = First.admins \cap DeployedAdmins

(* A valid edit touches neither.                                            *)
LEMMA ValidEditsSpareDeployment ==
    ASSUME NEW c \in Registry!Configurations, NEW edit \in Registry!Edits, Registry!Valid(edit, c)
    PROVE  LET d == Registry!Applied(edit, c) IN
           /\ \A e \in Emails : Registry!Owned(e) => d.profile[e] = c.profile[e]
           /\ d.admins \cap DeployedAdmins = c.admins \cap DeployedAdmins
<1> DEFINE d == Registry!Applied(edit, c)
<1>0. c.profile \in [Emails -> Scopes \cup {Absent}] /\ c.admins \subseteq Principals
      /\ c = [profile |-> c.profile, admins |-> c.admins]
  BY DEF Registry!Configurations
<1>1. CASE edit.op = "add"
  <2>1. d.admins = c.admins /\ d.profile = [c.profile EXCEPT ![edit.email] = edit.scope]
    BY <1>0, <1>1 DEF Registry!Applied
  <2>2. ~Registry!Owned(edit.email)
    BY <1>1 DEF Registry!Valid
  <2> QED
    BY <1>0, <2>1, <2>2
<1>2. CASE edit.op = "update"
  <2>1. d.admins = c.admins
        /\ d.profile = [c.profile EXCEPT ![edit.old] = Absent, ![edit.email] = edit.scope]
    BY <1>0, <1>2 DEF Registry!Applied
  <2>2. ~Registry!Owned(edit.old) /\ ~Registry!Owned(edit.email)
    BY <1>2 DEF Registry!Valid
  <2> QED
    BY <1>0, <2>1, <2>2
<1>3. CASE edit.op = "remove"
  <2>1. d.admins = c.admins /\ d.profile = [c.profile EXCEPT ![edit.email] = Absent]
    BY <1>0, <1>3 DEF Registry!Applied
  <2>2. ~Registry!Owned(edit.email)
    BY <1>3 DEF Registry!Valid
  <2> QED
    BY <1>0, <2>1, <2>2
<1>4. CASE edit.op = "addAdmin"
  <2>1. d.profile = c.profile /\ d.admins = c.admins \cup {edit.principal}
    BY <1>0, <1>4 DEF Registry!Applied
  <2>2. edit.principal \notin DeployedAdmins
    BY <1>4 DEF Registry!Valid
  <2> QED
    BY <2>1, <2>2
<1>5. CASE edit.op = "removeAdmin"
  <2>1. d.profile = c.profile /\ d.admins = c.admins \ {edit.principal}
    BY <1>0, <1>5 DEF Registry!Applied
  <2>2. edit.principal \notin DeployedAdmins
    BY <1>5 DEF Registry!Valid
  <2> QED
    BY <2>1, <2>2
<1> QED
  BY <1>1, <1>2, <1>3, <1>4, <1>5 DEF Registry!Edits

(* How a step changes the document: not at all, by a write of the schedule *)
(* that leaves the configuration alone, or by the edit of one request.     *)
LEMMA HowTheDocumentChanges ==
    ASSUME IInv, [Next]_vars
    PROVE  \/ UNCHANGED document
           \/ Store(Stored) /\ UNCHANGED requests
           \/ \E r \in Requests : RequestStep(r) /\ pc[r] = "writing" /\ StoreEdit(r)
  BY DEF Next, DeliveryStep, ScheduleWrite, RequestStep, Write, Conflict, EditFails, Tick, vars, adminVars

(* No sequence of edits from the console, however they interleave and are  *)
(* retried, shadows or touches what the deployment configures              *)
(* (update_subscriber, "without allowing configuration shadowing";         *)
(* remove_admin, "preserving bootstrap access").                           *)
THEOREM ConsoleSparesDeployment == Spec => []DeploymentIsUntouched
<1>1. Init => DeploymentIsUntouched
  BY DEF Init, AdminInit, DeploymentIsUntouched, Current
<1>2. IInv /\ DeploymentIsUntouched /\ [Next]_vars => DeploymentIsUntouched'
  <2> SUFFICES ASSUME IInv, DeploymentIsUntouched, [Next]_vars PROVE DeploymentIsUntouched'
    OBVIOUS
  <2>0. DocumentTyped /\ clock \in Nat /\ Current \in Nat \ {0} /\ Stored \in Registry!Configurations
    BY DEF IInv, AdminInv, DocumentTyped, Stored, Current
  <2>1. CASE UNCHANGED document
    BY <2>1 DEF DeploymentIsUntouched, document, Current
  <2>2. ASSUME NEW c \in Registry!Configurations, Store(c),
               \A e \in Emails : Registry!Owned(e) => c.profile[e] = Stored.profile[e],
               c.admins \cap DeployedAdmins = Stored.admins \cap DeployedAdmins
        PROVE  DeploymentIsUntouched'
    <3>1. /\ Current' = Current + 1 /\ history'[Current + 1] = c
          /\ \A i \in 1 .. Current : history'[i] = history[i]
      BY <2>0, <2>2, StoreAppends
    <3>2. /\ \A e \in Emails : Registry!Owned(e) => c.profile[e] = First.profile[e]
          /\ c.admins \cap DeployedAdmins = First.admins \cap DeployedAdmins
      BY <2>0, <2>2 DEF DeploymentIsUntouched, Stored
    <3>3. \A i \in 1 .. Current' : i \in 1 .. Current \/ i = Current + 1
      BY <2>0, <3>1
    <3>4. \A e \in Emails : Registry!Owned(e)' <=> Registry!Owned(e)
      BY DEF Registry!Owned
    <3> QED
      BY <3>1, <3>2, <3>3, <3>4 DEF DeploymentIsUntouched
  <2>3. CASE Store(Stored)
    BY <2>0, <2>2, <2>3
  <2>4. ASSUME NEW r \in Requests, pc[r] = "writing", StoreEdit(r) PROVE DeploymentIsUntouched'
    BY <2>0, <2>2, <2>4, WritesAreChecked, ValidEditsSpareDeployment DEF IInv
  <2> QED
    BY <2>1, <2>3, <2>4, HowTheDocumentChanges
<1> QED
  BY <1>1, <1>2, Invariance, PTL DEF Spec

-----------------------------------------------------------------------------
(* Who may edit.                                                            *)

(* The principal is an administrator of the deployment, or was one of the  *)
(* document in some version of it.                                         *)
WasAdmin(r) ==
    ask[r].who \in DeployedAdmins \/ \E i \in 1 .. Current : ask[r].who \in history[i].admins

(* A request that edits was let in, and does not remove its own principal. *)
EditorsWereLetIn ==
    \A r \in Requests : pc[r] \in {"reading", "writing"} => WasAdmin(r) /\ ~OwnRemoval(r)

(* Every change of the configuration is the edit some administrator asked  *)
(* for, applied to what is stored; and never the removal of himself.       *)
AdminsEdit ==
    Stored' = Stored \/ \E r \in Requests :
        /\ WasAdmin(r) /\ ~OwnRemoval(r)
        /\ Stored' = Registry!Applied(ask[r].edit, Stored)
EditsAreAuthorized == [][AdminsEdit]_vars

LEMMA DocumentOnlyExtends ==
    ASSUME IInv, [Next]_vars
    PROVE  DocumentExtended
<1>1. CASE UNCHANGED document
  BY <1>1, UnchangedExtends DEF IInv
<1>2. CASE Store(Stored)
  BY <1>2, StoreExtends DEF IInv, AdminInv, DocumentTyped, Stored, Current
<1>3. ASSUME NEW r \in Requests, pc[r] = "writing", StoreEdit(r) PROVE DocumentExtended
  BY <1>3, WritesAreChecked, StoreExtends DEF IInv
<1> QED
  BY <1>1, <1>2, <1>3, HowTheDocumentChanges

(* A request begins to edit only when it is let in by the version it looks *)
(* its principal up in.                                                    *)
LEMMA EntersByAuthorization ==
    ASSUME IInv, NEW r \in Requests, RequestStep(r), pc'[r] \in {"reading", "writing"}
    PROVE  pc[r] \in {"reading", "writing"} \/ (WasAdmin(r) /\ ~OwnRemoval(r))
<1>0. pc \in [Requests -> {"idle", "loading", "reading", "writing", "ended"}]
  BY DEF IInv, AdminInv, RequestsTyped
<1>1. ASSUME NEW allowed, Proceed(r, allowed) PROVE allowed /\ ~OwnRemoval(r)
  BY <1>0, <1>1 DEF Proceed, Reply, Goto
<1>2. CASE Enter(r)
  <2>1. CASE ask[r].who \in DeployedAdmins
    BY <1>1, <1>2, <2>1 DEF Enter, WasAdmin
  <2>2. CASE ask[r].who \notin DeployedAdmins
    <3>1. LoadCached(r) /\ Proceed(r, Listed(r, cached[Home[r]]))
      BY <1>0, <1>2, <2>2 DEF Enter, Goto
    <3>2. cached[Home[r]] \in 1 .. Current
      BY <3>1, ReadersAssumption DEF LoadCached, Fresh, IInv, AdminInv, LoadsTyped, DocumentTyped, Current, Readers
    <3>3. Listed(r, cached[Home[r]]) /\ ~OwnRemoval(r)
      BY <1>1, <3>1
    <3> QED
      BY <3>2, <3>3 DEF Listed, WasAdmin
  <2> QED
    BY <2>1, <2>2
<1>3. CASE Authorize(r)
  <2>1. PICK v \in 1 .. Current : Proceed(r, Listed(r, v))
    BY <1>3 DEF Authorize
  <2>2. Listed(r, v) /\ ~OwnRemoval(r)
    BY <1>1, <2>1
  <2> QED
    BY <2>1, <2>2 DEF Listed, WasAdmin
<1>4. CASE Unauthorized(r)
  BY <1>0, <1>4 DEF Unauthorized, Reply, Goto
<1>5. CASE Read(r) \/ Write(r) \/ Conflict(r) \/ EditFails(r)
  BY <1>5 DEF Read, Write, Conflict, EditFails
<1> QED
  BY <1>2, <1>3, <1>4, <1>5 DEF RequestStep

LEMMA NextLetIn ==
    ASSUME IInv, EditorsWereLetIn, [Next]_vars
    PROVE  EditorsWereLetIn'
<1> SUFFICES ASSUME NEW r \in Requests, pc'[r] \in {"reading", "writing"}
             PROVE  WasAdmin(r)' /\ ~OwnRemoval(r)'
  BY DEF EditorsWereLetIn
<1>0. /\ DocumentExtended /\ Current \in Nat
      /\ pc \in [Requests -> {"idle", "loading", "reading", "writing", "ended"}]
  BY DocumentOnlyExtends DEF IInv, AdminInv, DocumentTyped, RequestsTyped, Current
<1>1. ask' = ask
  BY DEF Next, DeliveryStep, RequestStep, ScheduleWrite, Tick, requests, vars, adminVars
<1>2. WasAdmin(r) => WasAdmin(r)'
  <2>1. \A i \in 1 .. Current : i \in 1 .. Current' /\ history'[i] = history[i]
    BY <1>0 DEF DocumentExtended
  <2> QED
    BY <1>1, <2>1 DEF WasAdmin
<1>3. ~OwnRemoval(r) => ~OwnRemoval(r)'
  BY <1>1 DEF OwnRemoval
<1>4. WasAdmin(r) /\ ~OwnRemoval(r)
  <2>1. CASE pc[r] \in {"reading", "writing"}
    BY <2>1 DEF EditorsWereLetIn
  <2>2. CASE RequestStep(r)
    BY <2>1, <2>2, EntersByAuthorization
  <2>3. CASE ~RequestStep(r)
    <3>1. pc' = pc \/ \E q \in Requests \ {r} : RequestStep(q)
      BY <2>3 DEF Next, DeliveryStep, ScheduleWrite, Tick, requests, vars, adminVars
    <3>2. ASSUME NEW q \in Requests \ {r}, RequestStep(q) PROVE pc'[r] = pc[r]
      <4>1. pc' = pc \/ \E place : Goto(q, place)
        BY <3>2 DEF RequestStep, Enter, Authorize, Unauthorized, Read, Write, Conflict, EditFails, Proceed, Reply
      <4> QED
        BY <1>0, <4>1 DEF Goto
    <3> QED
      BY <2>1, <3>1, <3>2
  <2> QED
    BY <2>2, <2>3
<1> QED
  BY <1>2, <1>3, <1>4

(* Whatever is cached where, and however requests interleave and are       *)
(* retried, the configuration is only changed as somebody asked who was    *)
(* let in as an administrator, and nobody takes himself off the list       *)
(* (require_admin, admin_remove_administrator).                            *)
THEOREM OnlyAdminsEdit == Spec => EditsAreAuthorized
<1>1. Init => EditorsWereLetIn
  BY DEF Init, AdminInit, EditorsWereLetIn
<1>2. IInv /\ EditorsWereLetIn /\ [Next]_vars => EditorsWereLetIn'
  BY NextLetIn
<1>3. IInv /\ EditorsWereLetIn /\ [Next]_vars => [AdminsEdit]_vars
  <2> SUFFICES ASSUME IInv, EditorsWereLetIn, [Next]_vars PROVE AdminsEdit
    OBVIOUS
  <2>1. CASE UNCHANGED document
    BY <2>1 DEF document, Stored, Current, AdminsEdit
  <2>2. CASE Store(Stored)
    <3>1. Stored \in Registry!Configurations
      BY DEF IInv, AdminInv, DocumentTyped, Stored, Current
    <3>2. Stored' = Stored
      BY <2>2, <3>1, StoreAppends DEF IInv, AdminInv, Stored
    <3> QED
      BY <3>2 DEF AdminsEdit
  <2>3. ASSUME NEW r \in Requests, pc[r] = "writing", StoreEdit(r) PROVE AdminsEdit
    <3>1. Stored' = Registry!Applied(ask[r].edit, Stored)
      BY <2>3, WritesAreChecked, StoreAppends DEF IInv, AdminInv, Stored
    <3>2. WasAdmin(r) /\ ~OwnRemoval(r)
      BY <2>3 DEF EditorsWereLetIn
    <3> QED
      BY <3>1, <3>2 DEF AdminsEdit
  <2> QED
    BY <2>1, <2>2, <2>3, HowTheDocumentChanges
<1> QED
  BY <1>1, <1>2, <1>3, Invariance, PTL DEF Spec, EditsAreAuthorized

-----------------------------------------------------------------------------
(* The stage ends.                                                          *)

(* Steps a week has at most left.                                          *)
StepsLeft ==
    CASE stage = "list" -> 5
      [] stage = "loading" -> 4
      [] stage \in {"default", "analysing"} -> 3
      [] stage = "sending" -> 2
      [] stage = "counting" -> 1
      [] OTHER -> 0

(* A step of the stage comes nearer to the end of its week, or begins the  *)
(* next one.                                                               *)
Nearer ==
    \/ week' = week + 1 /\ week <= Weeks
    \/ week' = week /\ StepsLeft' < StepsLeft
DeliveryIsBounded == [][Nearer]_delivery

(* The digest stage takes at most five steps for each release week,        *)
(* whatever it finds on the lists and whichever analyses and mails fail.   *)
THEOREM DeliveriesAreBounded == Spec => DeliveryIsBounded
<1>1. IInv /\ [Next]_vars => [Nearer]_delivery
  <2> SUFFICES ASSUME IInv, [Next]_vars, delivery' # delivery PROVE Nearer
    OBVIOUS
  <2>0. week \in Nat /\ Weeks \in Nat /\ (stage # "ended" => week <= Weeks)
    BY DeliveryAssumption DEF IInv, DeliveryTyped, WeeksInv
  <2>1. DeliveryStep
    BY DEF Next, vars
  <2>2. ASSUME NEW ok, NEW v, EndWeek(ok, v), stage # "ended" PROVE Nearer
    BY <2>0, <2>2 DEF EndWeek, Nearer
  <2>3. ASSUME NEW v, ServeWeek(v), stage \in {"list", "loading"} PROVE Nearer
    <3>1. CASE EndWeek(FALSE, v)
      BY <2>2, <2>3, <3>1
    <3>2. CASE stage' \in {"default", "analysing"} /\ week' = week
      BY <2>3, <3>2 DEF Nearer, StepsLeft
    <3> QED
      BY <2>3, <3>1, <3>2 DEF ServeWeek
  <2>4. CASE AskList
    BY <2>3, <2>4 DEF AskList, Nearer, StepsLeft
  <2>5. CASE ListRead
    BY <2>3, <2>5 DEF ListRead
  <2>6. CASE ListFails \/ Analyse \/ Send
    BY <2>6 DEF ListFails, Analyse, Send, Nearer, StepsLeft
  <2>7. CASE WeekSent \/ SendDefault
    BY <2>2, <2>7 DEF WeekSent, SendDefault
  <2> QED
    BY <2>1, <2>4, <2>5, <2>6, <2>7 DEF DeliveryStep
<1> QED
  BY <1>1, Invariance, PTL DEF Spec, DeliveryIsBounded
=============================================================================
