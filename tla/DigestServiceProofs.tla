------------------------- MODULE DigestServiceProofs -------------------------
(***************************************************************************)
(* Proofs about DigestService, for any feed, any dates (ties included),    *)
(* any number of overlapping jobs and API runs and any number of faults:   *)
(* the window moves past an update only in one of the ways Excuses names,  *)
(* each of which is as narrow as it says, and every run moves it on.       *)
(***************************************************************************)
EXTENDS DigestService, WellFoundedInduction, TLAPS

(* An update nobody has to care for any more: it is settled or excused, or *)
(* will be excused as late when it is published.                           *)
Gone(u) == fate[u] # "open" \/ Behind(u)

InWindow == {"fetching", "working", "reported"}
Selecting == {"working", "reported"}

(* Nothing at or below the checkpoint, or a run's start, is waiting.       *)
CheckpointIsSettled == \A u \in Updates : Date[u] <= checkpoint => Gone(u)

SinceIsSettled(r) ==
    stage[r] \in InWindow => \A u \in Updates : Date[u] <= since[r] => Gone(u)

(* What a run's window leaves out is gone, or newer than all it selected.  *)
TargetsAreTheWindow(r) ==
    stage[r] \in Selecting =>
        \A u \in Updates \ targets[r] :
            \/ Date[u] <= since[r]
            \/ Gone(u)
            \/ \A t \in targets[r] : Date[t] < Date[u]

(* A finished target has a result, or is settled; after the digest stage   *)
(* every one is.                                                           *)
FinishedIsSettled(r) ==
    /\ finished[r] \subseteq targets[r]
    /\ stage[r] \notin Selecting => finished[r] = {}
    /\ \A u \in finished[r] : u \in items[r] \/ fate[u] # "open"
    /\ stage[r] = "reported" => \A u \in finished[r] : fate[u] # "open"

RunInv(r) == SinceIsSettled(r) /\ TargetsAreTheWindow(r) /\ FinishedIsSettled(r)

IInv == TypeOK /\ CheckpointIsSettled /\ \A r \in Runs : RunInv(r)

-----------------------------------------------------------------------------
(* Types *)

LEMMA DatesAreNat == \A u \in Updates : Date[u] \in Nat /\ Date[u] > 0
  BY DateAssumption

LEMMA ExcuseType ==
  ASSUME TypeOK, NEW S, NEW c \in Excuses, Excuse(S, c)
  PROVE  /\ fate' \in [Updates -> {"open", "settled"} \cup Excuses]
         /\ \A u \in Updates : fate[u] # "open" => fate'[u] = fate[u]
         /\ \A u \in Updates : u \in S => fate'[u] # "open"
  BY DEF TypeOK, Excuse, Excuses

LEMMA SettleType ==
  ASSUME TypeOK, NEW S, Settle(S)
  PROVE  /\ fate' \in [Updates -> {"open", "settled"} \cup Excuses]
         /\ \A u \in Updates : fate[u] # "open" => fate'[u] # "open"
         /\ \A u \in Updates : u \in S => fate'[u] # "open"
  BY DEF TypeOK, Settle

LEMMA InitType == Init => TypeOK
  BY DEF Init, TypeOK, ItemsAreFinished

LEMMA NextItems ==
  ASSUME TypeOK, [Next]_vars
  PROVE  ItemsAreFinished'
<1> USE DEF external, register, runs, counts
<1>1. CASE Tick \/ Publish \/ ResetWindow \/ UNCHANGED vars
  BY <1>1 DEF TypeOK, ItemsAreFinished, Tick, Publish, ResetWindow, vars
<1>2. ASSUME NEW r \in Runs,
             StartJob(r) \/ StartExplicit(r) \/ Resolve(r) \/ ResolveBlind(r) \/ Report(r)
      PROVE  ItemsAreFinished'
  BY <1>2 DEF TypeOK, ItemsAreFinished, StartJob, StartExplicit, Resolve, ResolveBlind, Report, Move
<1>3. ASSUME NEW r \in Runs, Forget(r) PROVE ItemsAreFinished'
  BY <1>3 DEF TypeOK, ItemsAreFinished, Forget
<1>4. ASSUME NEW r \in Runs, Fetch(r) PROVE ItemsAreFinished'
  <2>1. CASE Forget(r)
    BY <1>3, <2>1
  <2>2. CASE ~Forget(r)
    <3>1. /\ Move(r, "fetching", "working")
          /\ targets' = [targets EXCEPT ![r] = Selected(since[r])]
          /\ UNCHANGED <<finished, items>>
      BY <1>4, <2>2 DEF Fetch
    <3>2. finished[r] = {}
      BY <3>1 DEF ItemsAreFinished, TypeOK, Move
    <3> QED
      BY <3>1, <3>2 DEF TypeOK, ItemsAreFinished, Move
  <2> QED
    BY <2>1, <2>2
<1>5. ASSUME NEW r \in Runs, Finish(r) PROVE ItemsAreFinished'
  <2>1. PICK u \in targets[r] \ finished[r] :
          /\ finished' = [finished EXCEPT ![r] = @ \cup {u}]
          /\ items' = [items EXCEPT ![r] = @ \cup {u}] \/ UNCHANGED items
    BY <1>5 DEF Finish
  <2> QED
    BY <1>5, <2>1 DEF TypeOK, ItemsAreFinished, Finish
<1>6. ASSUME NEW r \in Runs, Commit(r) \/ Abort(r) PROVE ItemsAreFinished'
  BY <1>3, <1>6 DEF Commit, Abort
<1> QED
  BY <1>1, <1>2, <1>4, <1>5, <1>6 DEF Next, Run

LEMMA NextType == TypeOK /\ [Next]_vars => TypeOK'
<1> SUFFICES ASSUME TypeOK, [Next]_vars PROVE TypeOK'
  OBVIOUS
<1> USE DEF external, register, runs, counts
<1>0. ItemsAreFinished'
  BY NextItems
<1>1. CASE Tick \/ ResetWindow
  BY <1>0, <1>1 DEF TypeOK, Tick, ResetWindow, Register!Reset
<1>2. CASE Publish
  <2>1. PICK new \in SUBSET (Updates \ feed) :
          feed' = feed \cup new /\ Excuse({u \in new : Behind(u)}, "late")
    BY <1>0, <1>2 DEF Publish
  <2> QED
    BY <1>0, <1>2, <2>1, ExcuseType DEF TypeOK, Publish, Excuses
<1>3. ASSUME NEW r \in Runs, StartJob(r) PROVE TypeOK'
  BY <1>0, <1>3 DEF TypeOK, StartJob, Move
<1>4. ASSUME NEW r \in Runs, StartExplicit(r) PROVE TypeOK'
  <2>1. PICK s \in 0..now : StartFrom(r, s, "explicit")
    BY <1>0, <1>4 DEF StartExplicit
  <2>2. fate' \in [Updates -> {"open", "settled"} \cup Excuses]
    BY <2>1, ExcuseType DEF StartFrom, Excuses
  <2> QED
    BY <1>0, <1>4, <2>1, <2>2 DEF TypeOK, StartExplicit, StartFrom, Move
<1>5. ASSUME NEW r \in Runs, Resolve(r) PROVE TypeOK'
  <2>1. CASE checkpoint # 0
    BY <1>0, <1>5, <2>1 DEF TypeOK, Resolve, Move
  <2>2. CASE checkpoint = 0
    <3>1. fate' \in [Updates -> {"open", "settled"} \cup Excuses]
      BY <1>0, <1>5, <2>2, ExcuseType DEF Resolve, StartFrom, Excuses
    <3>2. DefaultSince \in Nat
      BY BoundsAssumption DEF TypeOK, DefaultSince
    <3> QED
      BY <1>0, <1>5, <2>2, <3>1, <3>2 DEF TypeOK, Resolve, StartFrom, Move
  <2> QED
    BY <2>1, <2>2
<1>6. ASSUME NEW r \in Runs, ResolveBlind(r) PROVE TypeOK'
  <2>1. fate' \in [Updates -> {"open", "settled"} \cup Excuses]
    BY <1>0, <1>6, ExcuseType DEF ResolveBlind, StartFrom, Excuses
  <2>2. DefaultSince \in Nat
    BY BoundsAssumption DEF TypeOK, DefaultSince
  <2> QED
    BY <1>0, <1>6, <2>1, <2>2 DEF TypeOK, ResolveBlind, StartFrom, Move
<1>7. ASSUME NEW r \in Runs, Fetch(r) PROVE TypeOK'
  BY <1>0, <1>7 DEF TypeOK, Fetch, Forget, Move, Selected
<1>8. ASSUME NEW r \in Runs, Finish(r) PROVE TypeOK'
  <2>1. PICK u \in targets[r] \ finished[r] :
          /\ finished' = [finished EXCEPT ![r] = @ \cup {u}]
          /\ \/ items' = [items EXCEPT ![r] = @ \cup {u}] /\ UNCHANGED fate
             \/ Settle({u}) /\ UNCHANGED items
    BY <1>0, <1>8 DEF Finish
  <2>2. u \in Updates
    BY DEF TypeOK
  <2>3. fate' \in [Updates -> {"open", "settled"} \cup Excuses]
    BY <2>1, SettleType DEF TypeOK
  <2> QED
    BY <1>0, <1>8, <2>1, <2>2, <2>3 DEF TypeOK, Finish
<1>9. ASSUME NEW r \in Runs, Report(r) PROVE TypeOK'
  BY <1>0, <1>9, SettleType DEF TypeOK, Report, Move
<1>10. ASSUME NEW r \in Runs, Commit(r) PROVE TypeOK'
  <2>1. PICK t \in Prefix(r) :
          IF Date[t] > checkpoint
          THEN /\ checkpoint' = Date[t] /\ Register!Raise
               /\ Excuse({u \in targets[r] \ finished[r] : Date[u] = Date[t]}, "tied")
          ELSE UNCHANGED <<register, fate>>
    BY <1>0, <1>10 DEF Commit
  <2>2. fate' \in [Updates -> {"open", "settled"} \cup Excuses]
    BY <2>1, ExcuseType DEF TypeOK, Excuses
  <2>3. checkpoint' \in Nat /\ resets' \in Nat
    BY <2>1 DEF TypeOK, Register!Raise
  <2> QED
    BY <1>0, <1>10, <2>2, <2>3 DEF TypeOK, Commit, Forget
<1>11. ASSUME NEW r \in Runs, Abort(r) PROVE TypeOK'
  BY <1>0, <1>11 DEF TypeOK, Abort, Forget
<1>12. CASE UNCHANGED vars
  BY <1>0, <1>12 DEF TypeOK, vars
<1> QED
  BY <1>1, <1>2, <1>3, <1>4, <1>5, <1>6, <1>7, <1>8, <1>9, <1>10, <1>11, <1>12
     DEF Next, Run

THEOREM TypeCorrect == Spec => []TypeOK
<1>1. Init => TypeOK
  BY InitType
<1>2. TypeOK /\ [Next]_vars => TypeOK'
  BY NextType
<1> QED
  BY <1>1, <1>2, PTL DEF Spec
-----------------------------------------------------------------------------
(* What no step undoes *)

LEMMA FateKept ==
  ASSUME TypeOK, [Next]_vars
  PROVE  \A u \in Updates : fate[u] # "open" => fate'[u] # "open"
<1> USE DEF external, register, runs, counts
<1>1. CASE Publish
  BY <1>1, ExcuseType DEF Publish, Excuses
<1>2. CASE Tick \/ ResetWindow \/ UNCHANGED vars
  BY <1>2 DEF Tick, ResetWindow, vars
<1>3. ASSUME NEW r \in Runs, StartExplicit(r) \/ Resolve(r) \/ ResolveBlind(r)
      PROVE  \A u \in Updates : fate[u] # "open" => fate'[u] # "open"
  BY <1>3, ExcuseType DEF StartExplicit, Resolve, ResolveBlind, StartFrom, Excuses
<1>4. ASSUME NEW r \in Runs, StartJob(r) \/ Fetch(r) \/ Abort(r) PROVE UNCHANGED fate
  BY <1>4 DEF StartJob, Fetch, Abort
<1>5. ASSUME NEW r \in Runs, Finish(r) \/ Report(r)
      PROVE  \A u \in Updates : fate[u] # "open" => fate'[u] # "open"
  BY <1>5, SettleType DEF Finish, Report
<1>6. ASSUME NEW r \in Runs, Commit(r)
      PROVE  \A u \in Updates : fate[u] # "open" => fate'[u] # "open"
  BY <1>6, ExcuseType DEF Commit, Excuses
<1> QED
  BY <1>1, <1>2, <1>3, <1>4, <1>5, <1>6 DEF Next, Run

(* An update that is behind the feed stays so until it is published late.  *)
LEMMA GoneKept ==
  ASSUME TypeOK, [Next]_vars
  PROVE  \A u \in Updates : Gone(u) => Gone(u)'
<1>1. CASE Publish
  <2>1. PICK new \in SUBSET (Updates \ feed) :
          feed' = feed \cup new /\ Excuse({u \in new : Behind(u)}, "late")
    BY <1>1 DEF Publish
  <2>2. \A u \in Updates : u \in new /\ Behind(u) => fate'[u] # "open"
    BY <2>1, ExcuseType DEF Excuses
  <2>3. \A u \in Updates : u \notin new /\ Behind(u) => Behind(u)'
    BY <2>1 DEF Behind
  <2> QED
    BY <2>2, <2>3, FateKept DEF Gone
<1>2. CASE UNCHANGED feed
  BY <1>2, FateKept DEF Gone, Behind
<1>3. Publish \/ UNCHANGED feed
  BY DEF Next, Run, Tick, ResetWindow, StartJob, StartExplicit, Resolve, ResolveBlind,
         Fetch, Finish, Report, Commit, Abort, external, vars
<1> QED
  BY <1>1, <1>2, <1>3

(* So a run nobody touches keeps what was true of it,                      *)
LEMMA RunKept ==
  ASSUME TypeOK, [Next]_vars, NEW q \in Runs, RunInv(q),
         stage'[q] = stage[q], since'[q] = since[q], targets'[q] = targets[q],
         finished'[q] = finished[q], items'[q] = items[q]
  PROVE  RunInv(q)'
<1>1. SinceIsSettled(q)'
  BY GoneKept DEF RunInv, SinceIsSettled
<1>2. TargetsAreTheWindow(q)'
  BY GoneKept DEF RunInv, TargetsAreTheWindow
<1>3. FinishedIsSettled(q)'
  BY FateKept DEF RunInv, FinishedIsSettled, TypeOK
<1> QED
  BY <1>1, <1>2, <1>3 DEF RunInv

(* and a run that is over has nothing to keep.                             *)
LEMMA RunForgotten ==
  ASSUME TypeOK, NEW q \in Runs, Forget(q) PROVE RunInv(q)'
  BY DEF TypeOK, Forget, RunInv, SinceIsSettled, TargetsAreTheWindow, FinishedIsSettled,
         InWindow, Selecting

(* The checkpoint only needs care where it is raised.                      *)
LEMMA CheckpointKept ==
  ASSUME TypeOK, CheckpointIsSettled, [Next]_vars, checkpoint' = checkpoint \/ checkpoint' = 0
  PROVE  CheckpointIsSettled'
  BY GoneKept, DatesAreNat DEF CheckpointIsSettled

-----------------------------------------------------------------------------
(* Where a run starts *)

(* Starting from s excuses all that s leaves out beyond the checkpoint.    *)
LEMMA StartSettles ==
  ASSUME IInv, [Next]_vars, NEW r \in Runs, NEW s \in Nat, NEW c \in Excuses,
         StartFrom(r, s, c), stage'[r] = "fetching", UNCHANGED <<finished, items, targets>>,
         UNCHANGED feed, finished[r] = {}
  PROVE  RunInv(r)'
<1>1. since'[r] = s
  BY DEF IInv, TypeOK, StartFrom
<1>2. ASSUME NEW u \in Updates, Date[u] <= s PROVE Gone(u)'
  <2>1. CASE checkpoint < Date[u]
    BY <1>2, <2>1, ExcuseType DEF IInv, StartFrom, Gone
  <2>2. CASE Date[u] <= checkpoint
    BY <2>2, GoneKept DEF IInv, CheckpointIsSettled
  <2> QED
    BY <2>1, <2>2, DatesAreNat DEF IInv, TypeOK
<1> QED
  BY <1>1, <1>2 DEF RunInv, SinceIsSettled, TargetsAreTheWindow, FinishedIsSettled,
                    InWindow, Selecting

-----------------------------------------------------------------------------
(* The inductive step *)

(* Fetch: what was not selected is too old, behind the feed, or newer than *)
(* the whole feed of that moment.                                          *)
LEMMA FetchKeeps ==
  ASSUME IInv, [Next]_vars, NEW r \in Runs, Fetch(r) PROVE RunInv(r)'
<1>1. CASE Selected(since[r]) = {}
  BY <1>1, RunForgotten DEF Fetch, IInv
<1>2. CASE Selected(since[r]) # {}
  <2>1. /\ stage[r] = "fetching" /\ stage' = [stage EXCEPT ![r] = "working"]
        /\ targets' = [targets EXCEPT ![r] = Selected(since[r])]
        /\ UNCHANGED <<since, finished, items, feed, fate>>
    BY <1>2 DEF Fetch, Move, external
  <2>2. SinceIsSettled(r)'
    BY <2>1, GoneKept DEF IInv, TypeOK, RunInv, SinceIsSettled, InWindow
  <2>3. TargetsAreTheWindow(r)'
    <3>1. ASSUME NEW u \in Updates \ Selected(since[r]), Date[u] > since[r],
                 ~ Behind(u), NEW t \in Selected(since[r])
          PROVE  Date[t] < Date[u]
      BY <3>1, DatesAreNat DEF Selected, Behind, IInv, TypeOK
    <3> QED
      BY <2>1, <3>1, DatesAreNat DEF TargetsAreTheWindow, IInv, TypeOK, Gone, Behind, Selecting
  <2>4. FinishedIsSettled(r)'
    BY <2>1 DEF IInv, TypeOK, RunInv, FinishedIsSettled, Selecting
  <2> QED
    BY <2>2, <2>3, <2>4 DEF RunInv
<1> QED
  BY <1>1, <1>2

LEMMA FinishKeeps ==
  ASSUME IInv, [Next]_vars, NEW r \in Runs, Finish(r) PROVE RunInv(r)'
<1>1. PICK u \in targets[r] \ finished[r] :
        /\ finished' = [finished EXCEPT ![r] = @ \cup {u}]
        /\ \/ items' = [items EXCEPT ![r] = @ \cup {u}] /\ UNCHANGED fate
           \/ Settle({u}) /\ UNCHANGED items
  BY DEF Finish
<1>2. stage[r] = "working" /\ UNCHANGED <<stage, since, targets>>
  BY DEF Finish
<1>3. u \in Updates /\ finished[r] \in SUBSET Updates
  BY DEF IInv, TypeOK
<1>4. SinceIsSettled(r)' /\ TargetsAreTheWindow(r)'
  BY <1>2, GoneKept DEF IInv, RunInv, SinceIsSettled, TargetsAreTheWindow
<1>5. FinishedIsSettled(r)'
  <2>1. finished'[r] = finished[r] \cup {u}
    BY <1>1 DEF IInv, TypeOK
  <2>2. u \in items'[r] \/ fate'[u] # "open"
    BY <1>1, <1>3, SettleType DEF IInv, TypeOK
  <2>3. items[r] \subseteq items'[r]
    BY <1>1 DEF IInv, TypeOK
  <2> QED
    BY <1>2, <1>3, <2>1, <2>2, <2>3, FateKept
       DEF IInv, RunInv, FinishedIsSettled, Selecting
<1> QED
  BY <1>4, <1>5 DEF RunInv

LEMMA ReportKeeps ==
  ASSUME IInv, [Next]_vars, NEW r \in Runs, Report(r) PROVE RunInv(r)'
<1>1. /\ stage[r] = "working" /\ stage' = [stage EXCEPT ![r] = "reported"]
      /\ UNCHANGED <<since, targets, finished, items>> /\ Settle(items[r])
  BY DEF Report, Move
<1>2. SinceIsSettled(r)' /\ TargetsAreTheWindow(r)'
  BY <1>1, GoneKept DEF IInv, TypeOK, RunInv, SinceIsSettled, TargetsAreTheWindow,
                        InWindow, Selecting
<1>3. FinishedIsSettled(r)'
  BY <1>1, SettleType, FateKept DEF IInv, TypeOK, RunInv, FinishedIsSettled, Selecting
<1> QED
  BY <1>2, <1>3 DEF RunInv

(* Commit: the heart of the matter.  Up to the date of the prefix, an      *)
(* update is outside the window and gone, or finished, or tied.            *)
LEMMA CommitKeeps ==
  ASSUME IInv, [Next]_vars, NEW r \in Runs, Commit(r) PROVE CheckpointIsSettled'
<1>1. PICK t \in Prefix(r) :
        IF Date[t] > checkpoint
        THEN /\ checkpoint' = Date[t]
             /\ Excuse({u \in targets[r] \ finished[r] : Date[u] = Date[t]}, "tied")
        ELSE UNCHANGED <<register, fate>>
  BY DEF Commit
<1>2. /\ stage[r] = "reported" /\ stage[r] \in InWindow /\ stage[r] \in Selecting
      /\ t \in finished[r] /\ t \in targets[r] /\ t \in Updates
      /\ finished[r] \subseteq Updates /\ targets[r] \subseteq Updates
      /\ since[r] \in Nat /\ checkpoint \in Nat
  BY <1>1 DEF Commit, Prefix, IInv, TypeOK, RunInv, FinishedIsSettled, InWindow, Selecting
<1>3. CASE Date[t] > checkpoint
  <2> SUFFICES ASSUME NEW u \in Updates, Date[u] <= Date[t] PROVE Gone(u)'
    BY <1>1, <1>3 DEF CheckpointIsSettled
  <2>1. CASE Date[u] <= since[r]
    BY <1>2, <2>1, GoneKept DEF IInv, RunInv, SinceIsSettled
  <2>2. CASE u \notin targets[r] /\ ~(Date[u] <= since[r])
    <3>1. Gone(u) \/ Date[t] < Date[u]
      BY <1>2, <2>2 DEF IInv, RunInv, TargetsAreTheWindow
    <3> QED
      BY <1>2, <3>1, GoneKept, DatesAreNat DEF IInv
  <2>3. CASE u \in finished[r]
    BY <1>2, <2>3, FateKept DEF IInv, RunInv, FinishedIsSettled, Gone
  <2>4. CASE u \in targets[r] \ finished[r]
    <3>1. Date[u] = Date[t]
      BY <1>1, <1>2, <2>4, DatesAreNat DEF Prefix, Before
    <3>2. fate'[u] # "open"
      BY <1>1, <1>3, <2>4, <3>1, ExcuseType DEF IInv, Excuses
    <3> QED
      BY <3>2 DEF Gone
  <2> QED
    BY <1>2, <2>1, <2>2, <2>3, <2>4
<1>4. CASE ~(Date[t] > checkpoint)
  BY <1>1, <1>4, CheckpointKept DEF IInv, register
<1> QED
  BY <1>3, <1>4

LEMMA InitIInv == Init => IInv
  BY InitType, DatesAreNat
     DEF Init, IInv, CheckpointIsSettled, RunInv, SinceIsSettled, TargetsAreTheWindow,
         FinishedIsSettled, InWindow, Selecting

LEMMA NextIInv == IInv /\ [Next]_vars => IInv'
<1> SUFFICES ASSUME IInv, [Next]_vars PROVE IInv'
  OBVIOUS
<1>0. TypeOK /\ TypeOK'
  BY NextType DEF IInv
<1> USE DEF external, register, runs, counts
<1>1. CASE Tick \/ Publish \/ ResetWindow \/ UNCHANGED vars
  <2>1. UNCHANGED runs /\ (checkpoint' = checkpoint \/ checkpoint' = 0)
    BY <1>1 DEF Tick, Publish, ResetWindow, Register!Reset, vars
  <2> QED
    BY <1>0, <2>1, RunKept, CheckpointKept DEF IInv
<1>2. ASSUME NEW r \in Runs, NEW q \in Runs \ {r},
             StartJob(r) \/ StartExplicit(r) \/ Run(r) \/ Abort(r)
      PROVE  RunInv(q)'
  <2>1. /\ stage'[q] = stage[q] /\ since'[q] = since[q] /\ targets'[q] = targets[q]
        /\ finished'[q] = finished[q] /\ items'[q] = items[q]
    <3>1. CASE StartJob(r)
      BY <1>0, <1>2, <3>1 DEF TypeOK, StartJob, Move
    <3>2. CASE StartExplicit(r) \/ Resolve(r) \/ ResolveBlind(r)
      BY <1>0, <1>2, <3>2 DEF TypeOK, StartExplicit, Resolve, ResolveBlind, StartFrom, Move
    <3>3. CASE Fetch(r) \/ Commit(r) \/ Abort(r)
      BY <1>0, <1>2, <3>3 DEF TypeOK, Fetch, Commit, Abort, Forget, Move
    <3>4. CASE Finish(r) \/ Report(r)
      BY <1>0, <1>2, <3>4 DEF TypeOK, Finish, Report, Move
    <3> QED
      BY <1>2, <3>1, <3>2, <3>3, <3>4 DEF Run
  <2> QED
    BY <1>0, <2>1, RunKept DEF IInv
<1>3. ASSUME NEW r \in Runs, StartJob(r) PROVE RunInv(r)' /\ checkpoint' = checkpoint
  <2>1. /\ stage[r] = "idle" /\ stage'[r] = "resolving" /\ UNCHANGED <<finished, targets, items>>
    BY <1>0, <1>3 DEF TypeOK, StartJob, Move
  <2> QED
    BY <1>3, <2>1 DEF StartJob, IInv, RunInv, SinceIsSettled, TargetsAreTheWindow,
                      FinishedIsSettled, InWindow, Selecting
<1>4. ASSUME NEW r \in Runs, StartExplicit(r) PROVE RunInv(r)' /\ checkpoint' = checkpoint
  <2>1. PICK s \in 0..now : StartFrom(r, s, "explicit")
    BY <1>4 DEF StartExplicit
  <2>2. s \in Nat /\ finished[r] = {} /\ stage'[r] = "fetching"
    BY <1>0, <1>4 DEF TypeOK, StartExplicit, Move, IInv, RunInv, FinishedIsSettled, Selecting
  <2> QED
    BY <1>4, <2>1, <2>2, StartSettles DEF StartExplicit, Excuses
<1>5. ASSUME NEW r \in Runs, Resolve(r) PROVE RunInv(r)' /\ checkpoint' = checkpoint
  <2>1. /\ stage[r] = "resolving" /\ stage'[r] = "fetching" /\ finished[r] = {}
        /\ UNCHANGED <<finished, targets, items, feed, checkpoint>>
    BY <1>0, <1>5 DEF TypeOK, Resolve, Move, IInv, RunInv, FinishedIsSettled, Selecting
  <2>2. CASE checkpoint # 0
    <3>1. since'[r] = checkpoint
      BY <1>0, <1>5, <2>2 DEF TypeOK, Resolve
    <3> QED
      BY <2>1, <3>1, GoneKept DEF IInv, CheckpointIsSettled, RunInv, SinceIsSettled,
         TargetsAreTheWindow, FinishedIsSettled, InWindow, Selecting
  <2>3. CASE checkpoint = 0
    <3>1. DefaultSince \in Nat
      BY <1>0, BoundsAssumption DEF TypeOK, DefaultSince
    <3> QED
      BY <1>5, <2>1, <2>3, <3>1, StartSettles DEF Resolve, Excuses
  <2> QED
    BY <2>1, <2>2, <2>3
<1>6. ASSUME NEW r \in Runs, ResolveBlind(r) PROVE RunInv(r)' /\ checkpoint' = checkpoint
  <2>1. /\ stage'[r] = "fetching" /\ finished[r] = {}
        /\ UNCHANGED <<finished, targets, items, feed, checkpoint>>
    BY <1>0, <1>6 DEF TypeOK, ResolveBlind, Move, IInv, RunInv, FinishedIsSettled, Selecting
  <2>2. DefaultSince \in Nat
    BY <1>0, BoundsAssumption DEF TypeOK, DefaultSince
  <2> QED
    BY <1>6, <2>1, <2>2, StartSettles DEF ResolveBlind, Excuses
<1>7. ASSUME NEW r \in Runs, Fetch(r) \/ Finish(r) \/ Report(r) \/ Abort(r)
      PROVE  RunInv(r)' /\ checkpoint' = checkpoint
  BY <1>0, <1>7, FetchKeeps, FinishKeeps, ReportKeeps, RunForgotten
     DEF Fetch, Finish, Report, Abort
<1>8. ASSUME NEW r \in Runs, Commit(r) PROVE RunInv(r)' /\ CheckpointIsSettled'
  BY <1>0, <1>8, CommitKeeps, RunForgotten DEF Commit
<1>9. ASSUME NEW r \in Runs, StartJob(r) \/ StartExplicit(r) \/ Run(r) \/ Abort(r)
      PROVE  IInv'
  <2>1. RunInv(r)'
    BY <1>3, <1>4, <1>5, <1>6, <1>7, <1>8, <1>9 DEF Run
  <2>2. CheckpointIsSettled'
    BY <1>0, <1>3, <1>4, <1>5, <1>6, <1>7, <1>8, <1>9, CheckpointKept DEF Run, IInv
  <2>3. \A q \in Runs : RunInv(q)'
    BY <1>2, <1>9, <2>1
  <2> QED
    BY <1>0, <2>2, <2>3 DEF IInv
<1> QED
  BY <1>1, <1>9 DEF Next

-----------------------------------------------------------------------------

THEOREM Invariance == Spec => []IInv
<1>1. Init => IInv
  BY InitIInv
<1>2. IInv /\ [Next]_vars => IInv'
  BY NextIInv
<1> QED
  BY <1>1, <1>2, PTL DEF Spec

LEMMA GoneIsAccounted ==
  ASSUME TypeOK, NEW u \in feed, Gone(u) PROVE u \in Accounted(Excuses)
  BY DEF TypeOK, Gone, Behind, Accounted

(* The window skips no published update, except as Excuses says.           *)
THEOREM WindowSkipsNothing == Spec => []NothingSkipped
<1>1. IInv => NothingSkipped
  BY GoneIsAccounted DEF IInv, TypeOK, CheckpointIsSettled, NothingSkipped
<1> QED
  BY <1>1, Invariance, PTL

(* Nor does any run start past one.                                        *)
THEOREM StartsAreSettled == Spec => []StartIsSettled
<1>1. IInv => StartIsSettled
  BY GoneIsAccounted DEF IInv, TypeOK, RunInv, SinceIsSettled, StartIsSettled, InWindow
<1> QED
  BY <1>1, Invariance, PTL

(* And the checkpoint is only raised by runs, whatever their order.        *)
THEOREM CheckpointOnlyForward == Spec => CheckpointIsRegister
<1>1. Init => Register!Init
  BY DEF Init, Register!Init
<1>2. [Next]_vars => [Register!Next]_(Register!vars)
  BY DEF Next, Run, Tick, Publish, ResetWindow, StartJob, StartExplicit, Resolve,
         ResolveBlind, Fetch, Finish, Report, Commit, Abort, vars, register,
         Register!Next, Register!vars
<1> QED
  BY <1>1, <1>2, PTL DEF Spec, CheckpointIsRegister, Register!Spec
-----------------------------------------------------------------------------
(* Why every update settles: what EveryUpdateSettles needs besides         *)
(* fairness.  Runs select what is pending, settle the oldest of it, leave  *)
(* the window beyond their own start, and are never without a way on.      *)

FeedIsPast == \A u \in feed : Date[u] <= now

(* A run's targets were published after its start, and there are some; one *)
(* that reported has finished its oldest.                                  *)
TargetsAreNewer(r) ==
    /\ stage[r] \in Selecting =>
         /\ targets[r] # {} /\ targets[r] \subseteq feed
         /\ \A t \in targets[r] : Date[t] > since[r]
    /\ stage[r] = "reported" => Prefix(r) # {}

Windows == FeedIsPast /\ \A r \in Runs : TargetsAreNewer(r)

Oldest(u, r) == u \in targets[r] /\ \A s \in targets[r] \ {u} : Before(u, s)

(* What is published and pending when a run selects is among its targets.  *)
PendingIsTaken ==
    [][\A r \in Runs : Fetch(r) =>
          {u \in feed : fate[u] = "open"} \subseteq Selected(since[r])]_vars

(* A run that gives its results to the digest stage has settled the oldest *)
(* of its targets, whatever stopped the others.                            *)
OldestIsTakenCareOf ==
    [][\A r \in Runs : Report(r) => \E u \in Updates : Oldest(u, r) /\ fate'[u] # "open"]_vars

(* A run that commits leaves the checkpoint at or beyond its oldest target,*)
(* which is beyond its start: no later job starts where it did.            *)
WindowMovesOn ==
    [][\A r \in Runs : Commit(r) =>
          \E u \in Updates : Oldest(u, r) /\ since[r] < Date[u] /\ Date[u] <= checkpoint']_vars

(* A working run has a target to finish or may report, and one that has    *)
(* reported has a watermark to commit.                                     *)
RunsGoOn ==
    \A r \in Runs :
        /\ stage[r] = "working" => targets[r] \ finished[r] # {} \/ Prefix(r) # {}
        /\ stage[r] = "reported" => \E t \in Prefix(r) : \A s \in Prefix(r) : Date[s] <= Date[t]

LEMMA InitWindows == Init => Windows
  BY DEF Init, Windows, FeedIsPast, TargetsAreNewer, Selecting

(* What a run selected stays published and newer than its start.           *)
LEMMA WindowKept ==
  ASSUME TypeOK, NEW q \in Runs, TargetsAreNewer(q), feed \subseteq feed',
         stage'[q] = stage[q], since'[q] = since[q], targets'[q] = targets[q],
         finished'[q] = finished[q]
  PROVE  TargetsAreNewer(q)'
<1>1. Prefix(q)' = Prefix(q)
  BY DEF Prefix
<1> QED
  BY <1>1 DEF TargetsAreNewer

LEMMA NextWindows == TypeOK /\ Windows /\ [Next]_vars => Windows'
<1> SUFFICES ASSUME TypeOK, Windows, [Next]_vars PROVE Windows'
  OBVIOUS
<1>1. feed \subseteq feed' /\ FeedIsPast'
  <2>1. CASE Publish
    <3>1. PICK new \in SUBSET (Updates \ feed) :
            (\A u \in new : Date[u] <= now) /\ feed' = feed \cup new /\ now' = now
      BY <2>1 DEF Publish
    <3> QED
      BY <3>1 DEF Windows, FeedIsPast
  <2>2. CASE Tick
    <3>1. now' = now + 1 /\ feed' = feed
      BY <2>2 DEF Tick
    <3>2. \A u \in feed : Date[u] \in Nat /\ now \in Nat
      BY DatesAreNat DEF TypeOK
    <3> QED
      BY <3>1, <3>2 DEF Windows, FeedIsPast
  <2>3. CASE UNCHANGED external
    BY <2>3 DEF Windows, FeedIsPast, external
  <2> QED
    BY <2>1, <2>2, <2>3
       DEF Next, Run, ResetWindow, StartJob, StartExplicit, Resolve, ResolveBlind, Fetch,
           Finish, Report, Commit, Abort, vars
<1>2. ASSUME UNCHANGED runs PROVE Windows'
  BY <1>1, <1>2, WindowKept DEF Windows, runs
<1>3. ASSUME NEW r \in Runs, StartJob(r) \/ StartExplicit(r) \/ Run(r) \/ Abort(r),
             NEW q \in Runs \ {r}
      PROVE  TargetsAreNewer(q)'
  <2>1. /\ stage'[q] = stage[q] /\ since'[q] = since[q] /\ targets'[q] = targets[q]
        /\ finished'[q] = finished[q]
    <3>1. CASE StartJob(r) \/ StartExplicit(r) \/ Resolve(r) \/ ResolveBlind(r)
      BY <1>3, <3>1 DEF TypeOK, StartJob, StartExplicit, Resolve, ResolveBlind, StartFrom, Move
    <3>2. CASE Fetch(r) \/ Commit(r) \/ Abort(r)
      BY <1>3, <3>2 DEF TypeOK, Fetch, Commit, Abort, Forget, Move
    <3>3. CASE Finish(r) \/ Report(r)
      BY <1>3, <3>3 DEF TypeOK, Finish, Report, Move
    <3> QED
      BY <1>3, <3>1, <3>2, <3>3 DEF Run
  <2> QED
    BY <1>1, <2>1, WindowKept DEF Windows
<1>4. ASSUME NEW r \in Runs, stage'[r] \notin Selecting PROVE TargetsAreNewer(r)'
  BY <1>4 DEF TargetsAreNewer, Selecting
<1>5. ASSUME NEW r \in Runs, StartJob(r) \/ StartExplicit(r) \/ Run(r) \/ Abort(r)
      PROVE  TargetsAreNewer(r)'
  <2>1. CASE StartJob(r) \/ StartExplicit(r) \/ Resolve(r) \/ ResolveBlind(r)
    <3>1. stage'[r] \in {"resolving", "fetching"}
      BY <2>1 DEF TypeOK, StartJob, StartExplicit, Resolve, ResolveBlind, Move
    <3> QED
      BY <1>4, <3>1 DEF Selecting
  <2>2. CASE Commit(r) \/ Abort(r) \/ (Fetch(r) /\ Forget(r))
    <3>1. stage'[r] = "idle"
      BY <2>2 DEF TypeOK, Commit, Abort, Forget
    <3> QED
      BY <1>4, <3>1 DEF Selecting
  <2>3. CASE Fetch(r) /\ ~Forget(r)
    <3>1. /\ stage'[r] = "working" /\ targets'[r] = Selected(since[r]) /\ since' = since
          /\ Selected(since[r]) # {}
      BY <2>3 DEF TypeOK, Fetch, Move
    <3> QED
      BY <1>1, <3>1 DEF TargetsAreNewer, Selected
  <2>4. CASE Finish(r)
    <3>1. stage[r] = "working" /\ UNCHANGED <<stage, since, targets>>
      BY <2>4 DEF Finish
    <3> QED
      BY <1>1, <3>1 DEF Windows, TargetsAreNewer, Selecting
  <2>5. CASE Report(r)
    <3>1. /\ stage[r] = "working" /\ stage'[r] = "reported" /\ Prefix(r) # {}
          /\ UNCHANGED <<since, targets, finished>>
      BY <2>5 DEF TypeOK, Report, Move
    <3>2. Prefix(r)' = Prefix(r)
      BY <3>1 DEF Prefix
    <3> QED
      BY <1>1, <3>1, <3>2 DEF Windows, TargetsAreNewer, Selecting
  <2> QED
    BY <1>5, <2>1, <2>2, <2>3, <2>4, <2>5 DEF Run
<1>6. ASSUME NEW r \in Runs, StartJob(r) \/ StartExplicit(r) \/ Run(r) \/ Abort(r)
      PROVE  Windows'
  BY <1>1, <1>3, <1>5, <1>6 DEF Windows
<1> QED
  BY <1>2, <1>6 DEF Next, Tick, Publish, ResetWindow, vars

(* A set of natural numbers that is not empty has a smallest one, and a    *)
(* largest one if it is bounded.                                           *)
LEMMA SmallestExists ==
  ASSUME NEW S, S \subseteq Nat, S # {}
  PROVE  \E n \in S : \A m \in S : n <= m
<1> DEFINE R == {ss \in Nat \X Nat : ss[1] < ss[2]}
<1>1. IsWellFoundedOn(R, Nat)
  BY NatLessThanWellFounded DEF OpToRel
<1>2. PICK n \in S : \A m \in S : <<m, n>> \notin R
  <2> HIDE DEF R
  <2> QED
    BY <1>1, WFMin
<1>3. \A m \in S : ~(m < n)
  BY <1>2
<1> QED
  BY <1>3

LEMMA LargestExists ==
  ASSUME NEW k \in Nat, NEW S, S \subseteq 0..k, S # {}
  PROVE  \E n \in S : \A m \in S : m <= n
<1> DEFINE T == {i \in Nat : k - i \in S}
<1>1. T # {}
  <2>1. PICK n : n \in S
    OBVIOUS
  <2>2. n \in Nat /\ k - n \in Nat /\ k - (k - n) = n
    BY <2>1
  <2> QED
    BY <2>1, <2>2
<1>2. PICK i \in T : \A j \in T : i <= j
  <2> HIDE DEF T
  <2>1. T \subseteq Nat
    BY DEF T
  <2> QED
    BY <1>1, <2>1, SmallestExists
<1>3. \A m \in S : m <= k - i
  <2> TAKE m \in S
  <2>1. k - m \in T
    <3>1. m \in Nat /\ k - m \in Nat /\ k - (k - m) = m
      OBVIOUS
    <3> QED
      BY <3>1
  <2> QED
    BY <1>2, <2>1
<1> QED
  BY <1>2, <1>3

(* Some update of a window comes before all its others.                    *)
LEMMA FirstExists ==
  ASSUME NEW S, S \subseteq Updates, S # {}
  PROVE  \E u \in S : \A s \in S \ {u} : Before(u, s)
<1> DEFINE D == {Date[u] : u \in S}
<1>1. D \subseteq Nat /\ D # {}
  BY DatesAreNat
<1>2. PICK d \in D : \A e \in D : d <= e
  <2> HIDE DEF D
  <2> QED
    BY <1>1, SmallestExists
<1> DEFINE E == {u \in S : Date[u] = d}
<1>3. E \subseteq Nat /\ E # {}
  BY <1>2, UpdatesAssumption
<1>4. PICK u \in E : \A s \in E : u <= s
  <2> HIDE DEF E
  <2> QED
    BY <1>3, SmallestExists
<1>5. ASSUME NEW s \in S \ {u} PROVE Before(u, s)
  <2>1. Date[s] \in D /\ Date[u] = d /\ Date[s] \in Nat /\ d \in Nat
    BY <1>1, <1>2, <1>4
  <2>2. d <= Date[s]
    BY <1>2, <2>1
  <2>3. CASE Date[s] = d
    <3>1. s \in E /\ u \in Nat /\ s \in Nat /\ u # s
      BY <1>3, <1>4, <2>3
    <3>2. u <= s
      BY <1>4, <3>1
    <3> QED
      BY <2>1, <2>3, <3>1, <3>2 DEF Before
  <2>4. CASE Date[s] # d
    BY <2>1, <2>2, <2>4 DEF Before
  <2> QED
    BY <2>3, <2>4
<1> QED
  BY <1>4, <1>5

LEMMA OldestExists ==
  ASSUME TypeOK, NEW r \in Runs, targets[r] # {}
  PROVE  \E u \in Updates : Oldest(u, r)
  BY FirstExists DEF TypeOK, Oldest

(* An unbroken prefix begins with the oldest target.                       *)
LEMMA PrefixHasOldest ==
  ASSUME IInv, NEW r \in Runs, NEW u \in Updates, Oldest(u, r), Prefix(r) # {}
  PROVE  u \in Prefix(r)
<1>1. PICK t \in finished[r] : \A s \in targets[r] : Before(s, t) => s \in finished[r]
  BY DEF Prefix
<1>2. finished[r] \subseteq targets[r] /\ targets[r] \subseteq Updates
  BY DEF IInv, TypeOK, RunInv, FinishedIsSettled
<1>3. u \in finished[r]
  BY <1>1, <1>2 DEF Oldest
<1>4. ASSUME NEW s \in targets[r], Before(s, u) PROVE s \in finished[r]
  <2>1. s # u => Before(u, s)
    BY DEF Oldest
  <2>2. Date[s] \in Nat /\ Date[u] \in Nat /\ s \in Nat /\ u \in Nat
    BY <1>2, DatesAreNat, UpdatesAssumption
  <2> QED
    BY <1>3, <1>4, <2>1, <2>2 DEF Before
<1> QED
  BY <1>3, <1>4 DEF Prefix

(* DigestService loses no update between two windows: whatever is pending  *)
(* is selected by every run that starts.                                   *)
THEOREM PendingIsSelected == Spec => PendingIsTaken
<1> DEFINE Taken(r) == {u \in feed : fate[u] = "open"} \subseteq Selected(since[r])
<1>1. ASSUME IInv, NEW r \in Runs, Fetch(r) PROVE Taken(r)
  <2> SUFFICES ASSUME NEW u \in feed, fate[u] = "open" PROVE Date[u] > since[r]
    BY DEF Selected
  <2>1. u \in Updates /\ Date[u] \in Nat /\ since[r] \in Nat
    BY <1>1, DatesAreNat DEF IInv, TypeOK
  <2>2. ~Gone(u)
    BY DEF Gone, Behind
  <2>3. ~(Date[u] <= since[r])
    BY <1>1, <2>1, <2>2 DEF IInv, RunInv, SinceIsSettled, InWindow, Fetch
  <2> QED
    BY <2>1, <2>3
<1>2. IInv /\ [Next]_vars => [\A r \in Runs : Fetch(r) => Taken(r)]_vars
  BY <1>1
<1> QED
  BY <1>2, Invariance, PTL DEF Spec, PendingIsTaken

LEMMA WindowsHold == Spec => [](IInv /\ Windows)
<1>1. IInv /\ Windows /\ [Next]_vars => Windows'
  BY NextWindows DEF IInv
<1> QED
  BY <1>1, InitWindows, Invariance, PTL DEF Spec

(* And every run that ends well is one step on: it has settled its oldest  *)
(* target and moved the checkpoint past its start, whatever other runs and *)
(* operators do.                                                           *)
THEOREM RunsMoveTheWindow == Spec => OldestIsTakenCareOf /\ WindowMovesOn
<1> DEFINE Settled(r) == \E u \in Updates : Oldest(u, r) /\ fate'[u] # "open"
           Moved(r) == \E u \in Updates :
                          Oldest(u, r) /\ since[r] < Date[u] /\ Date[u] <= checkpoint'
<1>1. ASSUME IInv, Windows, NEW r \in Runs, Report(r) PROVE Settled(r)
  <2>1. Prefix(r) # {} /\ stage[r] = "working" /\ Settle(items[r])
    BY <1>1 DEF Report, Move
  <2>2. PICK u \in Updates : Oldest(u, r)
    BY <1>1, <2>1, OldestExists DEF IInv, Windows, TargetsAreNewer, Selecting
  <2>3. u \in finished[r]
    BY <1>1, <2>1, <2>2, PrefixHasOldest DEF Prefix
  <2>4. u \in items[r] \/ fate[u] # "open"
    BY <1>1, <2>3 DEF IInv, RunInv, FinishedIsSettled
  <2>5. fate'[u] # "open"
    BY <1>1, <2>1, <2>4, SettleType DEF IInv
  <2> QED
    BY <2>2, <2>5
<1>2. ASSUME IInv, Windows, NEW r \in Runs, Commit(r) PROVE Moved(r)
  <2>1. stage[r] = "reported"
    BY <1>2 DEF Commit
  <2>2. /\ targets[r] # {} /\ Prefix(r) # {} /\ targets[r] \subseteq Updates
        /\ \A t \in targets[r] : Date[t] > since[r]
    BY <1>2, <2>1 DEF IInv, TypeOK, Windows, TargetsAreNewer, Selecting
  <2>3. PICK u \in Updates : Oldest(u, r)
    BY <1>2, <2>2, OldestExists DEF IInv
  <2>4. u \in Prefix(r)
    BY <1>2, <2>2, <2>3, PrefixHasOldest
  <2>5. PICK t \in Prefix(r) :
          /\ \A s \in Prefix(r) : Date[s] <= Date[t]
          /\ checkpoint' = IF Date[t] > checkpoint THEN Date[t] ELSE checkpoint
    BY <1>2 DEF Commit, register
  <2>6. t \in Updates /\ Date[t] \in Nat /\ Date[u] \in Nat /\ checkpoint \in Nat
    BY <1>2, DatesAreNat DEF Prefix, IInv, TypeOK
  <2>7. Date[u] <= checkpoint'
    BY <2>4, <2>5, <2>6
  <2>8. since[r] < Date[u]
    BY <1>2, <2>2, <2>3, <2>6 DEF Oldest, IInv, TypeOK
  <2> QED
    BY <2>3, <2>7, <2>8
<1>3. IInv /\ Windows /\ [Next]_vars => [\A r \in Runs : Report(r) => Settled(r)]_vars
  BY <1>1
<1>4. IInv /\ Windows /\ [Next]_vars => [\A r \in Runs : Commit(r) => Moved(r)]_vars
  BY <1>2
<1> QED
  BY <1>3, <1>4, WindowsHold, PTL DEF Spec, OldestIsTakenCareOf, WindowMovesOn

(* No run is ever without a next step, for any targets it finished.        *)
THEOREM NoRunIsStuck == Spec => []RunsGoOn
<1>1. ASSUME IInv, Windows PROVE RunsGoOn
  <2> SUFFICES ASSUME NEW r \in Runs
               PROVE  /\ stage[r] = "working" => targets[r] \ finished[r] # {} \/ Prefix(r) # {}
                      /\ stage[r] = "reported" =>
                           \E t \in Prefix(r) : \A s \in Prefix(r) : Date[s] <= Date[t]
    BY DEF RunsGoOn
  <2>1. ASSUME stage[r] = "working", targets[r] \subseteq finished[r] PROVE Prefix(r) # {}
    <3>1. targets[r] # {}
      BY <1>1, <2>1 DEF Windows, TargetsAreNewer, Selecting
    <3>2. PICK t \in targets[r] : TRUE
      BY <3>1
    <3>3. t \in Prefix(r)
      BY <2>1, <3>2 DEF Prefix
    <3> QED
      BY <3>3
  <2>2. ASSUME stage[r] = "reported"
        PROVE  \E t \in Prefix(r) : \A s \in Prefix(r) : Date[s] <= Date[t]
    <3>1. Prefix(r) # {} /\ Prefix(r) \subseteq feed
      BY <1>1, <2>2 DEF Windows, TargetsAreNewer, Selecting, Prefix, IInv, RunInv, FinishedIsSettled
    <3> DEFINE D == {Date[t] : t \in Prefix(r)}
    <3>2. \A t \in Prefix(r) : Date[t] \in Nat /\ Date[t] <= now
      BY <1>1, <3>1, DatesAreNat DEF Windows, FeedIsPast, IInv, TypeOK
    <3>3. now \in Nat /\ D \subseteq 0..now /\ D # {}
      BY <1>1, <3>1, <3>2 DEF IInv, TypeOK
    <3>4. PICK d \in D : \A e \in D : e <= d
      <4> HIDE DEF D
      <4> QED
        BY <3>3, LargestExists
    <3> QED
      BY <3>4
  <2> QED
    BY <2>1, <2>2
<1> QED
  BY <1>1, WindowsHold, PTL

-----------------------------------------------------------------------------
(* When updates are skipped: how far each of the excuses reaches.          *)

(* Whether, with this feed published and at this time, an update may have  *)
(* the excuse: a missing or unreadable checkpoint costs only updates older *)
(* than the default start; a tie needs another update of the very same     *)
(* date, a late one another at least as new; and only API callers name a   *)
(* start.                                                                  *)
Warranted(u, cause, published, time) ==
    /\ cause \in {"noCheckpoint", "readFailed"} => Date[u] + Lookback <= time
    /\ cause = "explicit" => ApiRuns # {}
    /\ cause = "tied" => \E v \in published : v # u /\ Date[v] = Date[u]
    /\ cause = "late" => \E v \in published : v # u /\ Date[u] <= Date[v]

ExcusesAreNarrow == \A u \in Updates : Warranted(u, fate[u], feed, now)

(* Runs that overlap, fail or read badly lose no update within the default *)
(* lookback of its publication, unless it shares its date with another or  *)
(* comes behind one, or an API caller chose to start later.                *)
RecentIsKept ==
    \A u \in feed : Date[u] <= checkpoint /\ now < Date[u] + Lookback
        => u \in Accounted({"late", "explicit", "tied"})

DistinctDates == \A u, v \in Updates : Date[u] = Date[v] => u = v

LEMMA OpenAndSettledNeedNoWarrant ==
  ASSUME NEW u, NEW cause \in {"open", "settled"}, NEW published, NEW time
  PROVE  Warranted(u, cause, published, time)
  BY DEF Warranted

(* A warrant stays good while time and feed go on.                         *)
LEMMA WarrantsLast ==
  ASSUME NEW u \in Updates, NEW cause, NEW published, NEW more, NEW time \in Nat, NEW later \in Nat,
         published \subseteq more, time <= later, Warranted(u, cause, published, time)
  PROVE  Warranted(u, cause, more, later)
<1>1. cause \in {"noCheckpoint", "readFailed"} => Date[u] + Lookback <= later
  <2>1. Date[u] \in Nat /\ Lookback \in Nat
    BY DatesAreNat, BoundsAssumption
  <2> QED
    BY <2>1 DEF Warranted
<1> QED
  BY <1>1 DEF Warranted

(* An excuse that is warranted for all it is given to.                     *)
LEMMA ExcuseWarranted ==
  ASSUME TypeOK, ExcusesAreNarrow, NEW S, NEW cause, Excuse(S, cause),
         feed \subseteq feed', now' = now,
         \A u \in Updates : u \in S => Warranted(u, cause, feed', now)
  PROVE  ExcusesAreNarrow'
<1> SUFFICES ASSUME NEW u \in Updates PROVE Warranted(u, fate'[u], feed', now)
  BY DEF ExcusesAreNarrow
<1>1. fate'[u] = IF u \in S /\ fate[u] = "open" THEN cause ELSE fate[u]
  BY DEF Excuse
<1>2. Warranted(u, fate[u], feed', now)
  BY WarrantsLast DEF ExcusesAreNarrow, TypeOK
<1> QED
  BY <1>1, <1>2

(* A run that starts from s gives its excuse to what is not newer than s.  *)
LEMMA StartWarranted ==
  ASSUME TypeOK, ExcusesAreNarrow, NEW r \in Runs, NEW s, NEW cause, StartFrom(r, s, cause),
         UNCHANGED external,
         \A u \in Updates : Date[u] <= s => Warranted(u, cause, feed, now)
  PROVE  ExcusesAreNarrow'
<1>1. Excuse({u \in Updates : checkpoint < Date[u] /\ Date[u] <= s}, cause)
  BY DEF StartFrom
<1>2. feed' = feed /\ now' = now
  BY DEF external
<1>3. \A u \in Updates : u \in {v \in Updates : checkpoint < Date[v] /\ Date[v] <= s}
                            => Warranted(u, cause, feed', now)
  BY <1>2
<1> QED
  BY <1>1, <1>2, <1>3, ExcuseWarranted

LEMMA DefaultStartIsOld ==
  ASSUME TypeOK, NEW u \in Updates, Date[u] <= DefaultSince
  PROVE  Date[u] + Lookback <= now
  BY DatesAreNat, BoundsAssumption DEF TypeOK, DefaultSince

LEMMA NextNarrow ==
  ASSUME IInv, Windows, ExcusesAreNarrow, [Next]_vars
  PROVE  ExcusesAreNarrow'
<1> USE DEF IInv
<1>1. CASE UNCHANGED <<feed, fate>> /\ now' \in Nat /\ now <= now'
  <2> SUFFICES ASSUME NEW u \in Updates PROVE Warranted(u, fate[u], feed, now')
    BY <1>1 DEF ExcusesAreNarrow
  <2> QED
    BY <1>1, WarrantsLast DEF ExcusesAreNarrow, TypeOK
<1>2. CASE Publish
  <2>1. PICK new \in SUBSET (Updates \ feed) :
          feed' = feed \cup new /\ now' = now /\ Excuse({u \in new : Behind(u)}, "late")
    BY <1>2 DEF Publish
  <2>2. ASSUME NEW u \in {w \in new : Behind(w)} PROVE Warranted(u, "late", feed', now)
    BY <2>1, <2>2 DEF Warranted, Behind
  <2> QED
    BY <2>1, <2>2, ExcuseWarranted
<1>3. ASSUME NEW r \in Runs, StartExplicit(r) PROVE ExcusesAreNarrow'
  <2>1. PICK s \in 0..now : StartFrom(r, s, "explicit")
    BY <1>3 DEF StartExplicit
  <2>2. UNCHANGED external /\ ApiRuns # {}
    BY <1>3 DEF StartExplicit
  <2>3. \A u \in Updates : Warranted(u, "explicit", feed, now)
    BY <2>2 DEF Warranted
  <2> QED
    BY <2>1, <2>2, <2>3, StartWarranted
<1>4. ASSUME NEW r \in Runs, NEW cause \in {"noCheckpoint", "readFailed"},
             StartFrom(r, DefaultSince, cause), UNCHANGED external
      PROVE  ExcusesAreNarrow'
  <2>1. ASSUME NEW u \in Updates, Date[u] <= DefaultSince PROVE Warranted(u, cause, feed, now)
    BY <2>1, DefaultStartIsOld DEF Warranted
  <2> QED
    BY <1>4, <2>1, StartWarranted
<1>5. ASSUME NEW r \in Runs, Commit(r) PROVE ExcusesAreNarrow'
  <2>1. feed' = feed /\ now' = now /\ stage[r] = "reported"
    BY <1>5 DEF Commit, external
  <2>2. CASE UNCHANGED fate
    BY <1>1, <2>1, <2>2 DEF TypeOK
  <2>3. ASSUME NEW t \in Prefix(r), Excuse({u \in targets[r] \ finished[r] : Date[u] = Date[t]}, "tied")
        PROVE  ExcusesAreNarrow'
    <3>1. t \in finished[r] /\ t \in feed
      BY <2>1 DEF Prefix, RunInv, FinishedIsSettled, Windows, TargetsAreNewer, Selecting
    <3>2. ASSUME NEW u \in {w \in targets[r] \ finished[r] : Date[w] = Date[t]}
          PROVE  Warranted(u, "tied", feed, now)
      BY <3>1 DEF Warranted
    <3> QED
      BY <2>1, <2>3, <3>2, ExcuseWarranted
  <2> QED
    BY <1>5, <2>2, <2>3 DEF Commit
<1>6. ASSUME NEW S, Settle(S), UNCHANGED external PROVE ExcusesAreNarrow'
  <2> SUFFICES ASSUME NEW u \in Updates PROVE Warranted(u, fate'[u], feed, now)
    BY <1>6 DEF ExcusesAreNarrow, external
  <2>1. fate'[u] = IF u \in S THEN "settled" ELSE fate[u]
    BY <1>6 DEF Settle
  <2> QED
    BY <2>1, OpenAndSettledNeedNoWarrant DEF ExcusesAreNarrow
<1>7. CASE Tick
  BY <1>1, <1>7 DEF Tick, TypeOK
<1>8. CASE UNCHANGED <<external, fate>>
  BY <1>1, <1>8 DEF external, TypeOK
<1>9. ASSUME NEW r \in Runs, Run(r) PROVE ExcusesAreNarrow'
  <2>1. UNCHANGED external
    BY <1>9 DEF Run, Resolve, ResolveBlind, Fetch, Finish, Report, Commit
  <2> QED
    BY <1>4, <1>5, <1>6, <1>8, <1>9, <2>1 DEF Run, Resolve, ResolveBlind, Fetch, Finish, Report
<1> QED
  BY <1>2, <1>3, <1>7, <1>8, <1>9 DEF Next, ResetWindow, StartJob, Abort, vars

(* The excuses are as narrow as they say, for any feed and any number of   *)
(* overlapping runs; so an update is lost to a missing or unreadable       *)
(* checkpoint only when it was pending for longer than the lookback.       *)
THEOREM SkipsAreNarrow == Spec => [](ExcusesAreNarrow /\ RecentIsKept)
<1>1. Init => ExcusesAreNarrow
  BY OpenAndSettledNeedNoWarrant DEF Init, ExcusesAreNarrow
<1>2. (IInv /\ Windows) /\ ExcusesAreNarrow /\ [Next]_vars => ExcusesAreNarrow'
  BY NextNarrow
<1>3. IInv /\ ExcusesAreNarrow => RecentIsKept
  <2> SUFFICES ASSUME IInv, ExcusesAreNarrow, NEW u \in feed, Date[u] <= checkpoint, now < Date[u] + Lookback
               PROVE  u \in Accounted({"late", "explicit", "tied"})
    BY DEF RecentIsKept
  <2>1. u \in Updates /\ fate[u] # "open" /\ fate[u] \in {"open", "settled"} \cup Excuses
    BY DEF IInv, TypeOK, CheckpointIsSettled, Gone, Behind
  <2>2. fate[u] \notin {"noCheckpoint", "readFailed"}
    <3>1. Date[u] \in Nat /\ Lookback \in Nat /\ now \in Nat
      BY <2>1, DatesAreNat, BoundsAssumption DEF IInv, TypeOK
    <3> QED
      BY <2>1, <3>1 DEF ExcusesAreNarrow, Warranted
  <2> QED
    BY <2>1, <2>2 DEF Accounted, Excuses
<1> QED
  BY <1>1, <1>2, <1>3, WindowsHold, Invariance, PTL DEF Spec

(* What src/orchestrator.py says of a run holds whenever no two updates    *)
(* have the same date: an interrupted run can never make the next one skip *)
(* an unanalysed update.                                                   *)
THEOREM DistinctDatesSkipNothing == DistinctDates /\ Spec => []NeverSkipsPending
<1>1. DistinctDates /\ IInv /\ ExcusesAreNarrow => NeverSkipsPending
  <2> SUFFICES ASSUME DistinctDates, IInv, ExcusesAreNarrow, NEW u \in feed, Date[u] <= checkpoint
               PROVE  u \in Accounted({"late", "noCheckpoint", "explicit", "readFailed"})
    BY DEF NeverSkipsPending
  <2>1. u \in Updates /\ feed \subseteq Updates /\ fate[u] # "open"
        /\ fate[u] \in {"open", "settled"} \cup Excuses
    BY DEF IInv, TypeOK, CheckpointIsSettled, Gone, Behind
  <2>2. fate[u] # "tied"
    BY <2>1 DEF DistinctDates, ExcusesAreNarrow, Warranted
  <2> QED
    BY <2>1, <2>2 DEF Accounted, Excuses
<1>2. Spec => [](IInv /\ ExcusesAreNarrow)
  BY SkipsAreNarrow, Invariance, PTL
<1> QED
  <2> SUFFICES ASSUME DistinctDates PROVE Spec => []NeverSkipsPending
    OBVIOUS
  <2>1. IInv /\ ExcusesAreNarrow => NeverSkipsPending
    BY <1>1
  <2> QED
    BY <2>1, <1>2, PTL
=============================================================================
