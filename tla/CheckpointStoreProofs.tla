------------------------ MODULE CheckpointStoreProofs ------------------------
(***************************************************************************)
(* Proofs about CheckpointStore, for any number of writers, watermarks,    *)
(* attempts and interventions: the blob is a monotone register, and an     *)
(* answer of advance is durable.                                           *)
(***************************************************************************)
EXTENDS CheckpointStore, TLAPS

(* No ETag in anybody's hands is newer than the last change, so a fresh    *)
(* one is unknown to all; and an absent blob holds nothing.                *)
EtagsAreOld ==
    /\ blob.etag <= changes
    /\ blob.etag = NoEtag => blob.value = NoValue
    /\ \A w \in Writers : /\ seen[w].etag <= changes
                          /\ seen[w].etag = NoEtag => seen[w].value = NoValue
    /\ \A m \in inflight : m.etag <= changes

(* A writer that has read carries a watermark newer than what it read.     *)
CarriesNewer ==
    \A w \in Writers :
        /\ pc[w] # "idle" => target[w] \in Times
        /\ pc[w] = "writing" => seen[w].value < target[w]

(* A call still in its loop has an attempt left.                           *)
AttemptsLeft ==
    \A w \in Writers :
        pc[w] \in {"reading", "writing"} => attempt[w] < MaxWriteAttempts

IInv == /\ TypeOK
        /\ EtagsAreOld
        /\ CarriesNewer
        /\ AttemptsLeft
        /\ EtagPinsValue

(* Watermarks are natural numbers. *)
LEMMA ValuesAreNat == Values \subseteq Nat /\ Times \subseteq Nat /\ Times \subseteq Values
                      /\ \A t \in Times : t > 0
  BY TimesAssumption DEF Values, NoValue

LEMMA InitIInv == Init => IInv
<1> SUFFICES ASSUME Init PROVE IInv
  OBVIOUS
<1> USE ValuesAreNat DEF Init, NoDocument, NoValue, NoEtag
<1>1. TypeOK
  BY AttemptsAssumption DEF TypeOK, Documents, Outcomes, Values
<1>2. EtagsAreOld
  BY DEF EtagsAreOld
<1>3. CarriesNewer /\ AttemptsLeft /\ EtagPinsValue
  BY AttemptsAssumption DEF CarriesNewer, AttemptsLeft, EtagPinsValue
<1> QED
  BY <1>1, <1>2, <1>3 DEF IInv

LEMMA NextIInv == IInv /\ [Next]_vars => IInv'
<1> SUFFICES ASSUME IInv, [Next]_vars PROVE IInv'
  OBVIOUS
<1> USE ValuesAreNat DEF IInv, store, call, NoDocument, NoValue, NoEtag
<1>1. CASE Land
  <2>1. TypeOK'
    BY <1>1, AttemptsAssumption DEF TypeOK, Documents, Outcomes, Values, Matches, Land, Store
  <2>2. EtagsAreOld'
    BY <1>1 DEF TypeOK, Documents, EtagsAreOld, CarriesNewer, Matches, Land, Store
  <2>3. CarriesNewer' /\ AttemptsLeft'
    BY <1>1, AttemptsAssumption DEF TypeOK, Documents, CarriesNewer, AttemptsLeft, Matches, Land, Store
  <2>4. EtagPinsValue'
    BY <1>1 DEF TypeOK, Documents, EtagsAreOld, CarriesNewer, EtagPinsValue, Matches, Land, Store
  <2> QED
    BY <2>1, <2>2, <2>3, <2>4
<1>2. CASE Delete
  <2>1. TypeOK'
    BY <1>2, AttemptsAssumption DEF TypeOK, Documents, Outcomes, Values, Matches, Delete
  <2>2. EtagsAreOld'
    BY <1>2 DEF TypeOK, Documents, EtagsAreOld, CarriesNewer, Matches, Delete
  <2>3. CarriesNewer' /\ AttemptsLeft'
    BY <1>2, AttemptsAssumption DEF TypeOK, Documents, CarriesNewer, AttemptsLeft, Matches, Delete
  <2>4. EtagPinsValue'
    BY <1>2 DEF TypeOK, Documents, EtagsAreOld, CarriesNewer, EtagPinsValue, Matches, Delete
  <2> QED
    BY <2>1, <2>2, <2>3, <2>4
<1>3. CASE Corrupt
  <2>1. TypeOK'
    BY <1>3, AttemptsAssumption DEF TypeOK, Documents, Outcomes, Values, Matches, Corrupt, Store
  <2>2. EtagsAreOld'
    BY <1>3 DEF TypeOK, Documents, EtagsAreOld, CarriesNewer, Matches, Corrupt, Store
  <2>3. CarriesNewer' /\ AttemptsLeft'
    BY <1>3, AttemptsAssumption DEF TypeOK, Documents, CarriesNewer, AttemptsLeft, Matches, Corrupt, Store
  <2>4. EtagPinsValue'
    BY <1>3 DEF TypeOK, Documents, EtagsAreOld, CarriesNewer, EtagPinsValue, Matches, Corrupt, Store
  <2> QED
    BY <2>1, <2>2, <2>3, <2>4
<1>4. ASSUME NEW w \in Writers, Begin(w) PROVE IInv'
  <2>1. TypeOK'
    BY <1>4, AttemptsAssumption DEF TypeOK, Documents, Outcomes, Values, Matches, Begin
  <2>2. EtagsAreOld'
    BY <1>4 DEF TypeOK, Documents, EtagsAreOld, CarriesNewer, Matches, Begin
  <2>3. CarriesNewer' /\ AttemptsLeft'
    BY <1>4, AttemptsAssumption DEF TypeOK, Documents, CarriesNewer, AttemptsLeft, Matches, Begin
  <2>4. EtagPinsValue'
    BY <1>4 DEF TypeOK, Documents, EtagsAreOld, CarriesNewer, EtagPinsValue, Matches, Begin
  <2> QED
    BY <2>1, <2>2, <2>3, <2>4
<1>5. ASSUME NEW w \in Writers, Read(w) PROVE IInv'
  <2> DEFINE covered == blob.value # NoValue /\ target[w] <= blob.value
  <2>0. /\ blob.value \in Nat /\ target[w] \in Times /\ target[w] \in Nat
        /\ target[w] > 0 /\ pc[w] = "reading"
        /\ UNCHANGED <<blob, changes, resets, calls, target, attempt, begun, inflight>>
    BY <1>5 DEF TypeOK, Documents, CarriesNewer, Read
  <2>1. CASE covered
    <3>0. /\ pc' = [pc EXCEPT ![w] = "returned"]
          /\ outcome' = [outcome EXCEPT ![w] = "stale"]
          /\ seen' = [seen EXCEPT ![w] = NoDocument]
          /\ epoch' = [epoch EXCEPT ![w] = resets]
      BY <1>5, <2>1 DEF Read, Return
    <3>1. TypeOK'
      BY <2>0, <3>0 DEF TypeOK, Documents, Outcomes, Values
    <3>2. EtagsAreOld' /\ CarriesNewer' /\ AttemptsLeft' /\ EtagPinsValue'
      BY <2>0, <3>0 DEF TypeOK, Documents, EtagsAreOld, CarriesNewer,
                        AttemptsLeft, EtagPinsValue, Matches
    <3> QED
      BY <3>1, <3>2
  <2>2. CASE ~covered
    <3>0. /\ pc' = [pc EXCEPT ![w] = "writing"]
          /\ seen' = [seen EXCEPT ![w] = blob]
          /\ epoch' = [epoch EXCEPT ![w] = resets]
          /\ UNCHANGED outcome
          /\ blob.value < target[w]
      BY <1>5, <2>0, <2>2 DEF Read
    <3>1. TypeOK'
      BY <2>0, <3>0 DEF TypeOK
    <3>2. EtagsAreOld' /\ CarriesNewer' /\ AttemptsLeft' /\ EtagPinsValue'
      BY <2>0, <3>0 DEF TypeOK, Documents, EtagsAreOld, CarriesNewer,
                        AttemptsLeft, EtagPinsValue, Matches
    <3> QED
      BY <3>1, <3>2
  <2> QED
    BY <2>1, <2>2
<1>6. ASSUME NEW w \in Writers, ReadFails(w) PROVE IInv'
  <2>1. TypeOK'
    BY <1>6, AttemptsAssumption DEF TypeOK, Documents, Outcomes, Values, Matches, ReadFails, Return
  <2>2. EtagsAreOld'
    BY <1>6 DEF TypeOK, Documents, EtagsAreOld, CarriesNewer, Matches, ReadFails, Return
  <2>3. CarriesNewer' /\ AttemptsLeft'
    BY <1>6, AttemptsAssumption DEF TypeOK, Documents, CarriesNewer, AttemptsLeft, Matches, ReadFails, Return
  <2>4. EtagPinsValue'
    BY <1>6 DEF TypeOK, Documents, EtagsAreOld, CarriesNewer, EtagPinsValue, Matches, ReadFails, Return
  <2> QED
    BY <2>1, <2>2, <2>3, <2>4
<1>7. ASSUME NEW w \in Writers, WriteOk(w) PROVE IInv'
  <2>1. TypeOK'
    BY <1>7, AttemptsAssumption DEF TypeOK, Documents, Outcomes, Values, Matches, WriteOk, Store, Return
  <2>2. EtagsAreOld'
    BY <1>7 DEF TypeOK, Documents, EtagsAreOld, CarriesNewer, Matches, WriteOk, Store, Return
  <2>3. CarriesNewer' /\ AttemptsLeft'
    BY <1>7, AttemptsAssumption DEF TypeOK, Documents, CarriesNewer, AttemptsLeft, Matches, WriteOk, Store, Return
  <2>4. EtagPinsValue'
    BY <1>7 DEF TypeOK, Documents, EtagsAreOld, CarriesNewer, EtagPinsValue, Matches, WriteOk, Store, Return
  <2> QED
    BY <2>1, <2>2, <2>3, <2>4
<1>8. ASSUME NEW w \in Writers, WriteConflict(w) PROVE IInv'
  <2>1. TypeOK'
    <3>1. seen' \in [Writers -> Documents]
      <4>1. seen' = [seen EXCEPT ![w] = NoDocument]
        BY <1>8 DEF WriteConflict, Return
      <4>2. NoDocument \in Documents /\ seen \in [Writers -> Documents]
        BY DEF TypeOK, Documents, NoDocument, NoEtag, Values
      <4> QED
        BY <4>1, <4>2
    <3>2. attempt' \in [Writers -> 0..MaxWriteAttempts]
      BY <1>8, AttemptsAssumption DEF TypeOK, AttemptsLeft, WriteConflict
    <3> QED
      BY <1>8, <3>1, <3>2 DEF TypeOK, Outcomes, WriteConflict, Return
  <2>2. EtagsAreOld'
    BY <1>8 DEF TypeOK, Documents, EtagsAreOld, CarriesNewer, Matches, WriteConflict, Return
  <2>3. CarriesNewer' /\ AttemptsLeft'
    BY <1>8, AttemptsAssumption DEF TypeOK, Documents, CarriesNewer, AttemptsLeft, Matches, WriteConflict, Return
  <2>4. EtagPinsValue'
    BY <1>8 DEF TypeOK, Documents, EtagsAreOld, CarriesNewer, EtagPinsValue, Matches, WriteConflict, Return
  <2> QED
    BY <2>1, <2>2, <2>3, <2>4
<1>9. ASSUME NEW w \in Writers, WriteFails(w) PROVE IInv'
  <2>1. TypeOK'
    <3>1. seen' \in [Writers -> Documents]
      BY <1>9 DEF TypeOK, Documents, Values, WriteFails, Return
    <3>2. inflight' \subseteq [etag : Nat, value : Times]
      BY <1>9 DEF TypeOK, CarriesNewer, Documents, WriteFails
    <3> QED
      BY <1>9, <3>1, <3>2 DEF TypeOK, Outcomes, WriteFails, Return
  <2>2. EtagsAreOld'
    BY <1>9 DEF TypeOK, Documents, EtagsAreOld, CarriesNewer, Matches, WriteFails, Return
  <2>3. CarriesNewer' /\ AttemptsLeft'
    BY <1>9, AttemptsAssumption DEF TypeOK, Documents, CarriesNewer, AttemptsLeft, Matches, WriteFails, Return
  <2>4. EtagPinsValue'
    BY <1>9 DEF TypeOK, Documents, EtagsAreOld, CarriesNewer, EtagPinsValue, Matches, WriteFails, Return
  <2> QED
    BY <2>1, <2>2, <2>3, <2>4
<1>10. CASE UNCHANGED vars
  BY <1>10 DEF vars, TypeOK, EtagsAreOld, CarriesNewer, AttemptsLeft,
                EtagPinsValue, Matches
<1> QED
  BY <1>1, <1>2, <1>3, <1>4, <1>5, <1>6, <1>7, <1>8, <1>9, <1>10 DEF Next, Advance

-----------------------------------------------------------------------------

(* The types hold, and an ETag pins the value read under it, in every      *)
(* reachable state.                                                        *)
THEOREM Invariance == Spec => []IInv
<1>1. Init => IInv
  BY InitIInv
<1>2. IInv /\ [Next]_vars => IInv'
  BY NextIInv
<1> QED
  BY <1>1, <1>2, PTL DEF Spec

THEOREM TypeCorrect == Spec => []TypeOK
<1>1. IInv => TypeOK
  BY DEF IInv
<1> QED
  BY <1>1, Invariance, PTL

THEOREM EtagsPinValues == Spec => []EtagPinsValue
<1>1. IInv => EtagPinsValue
  BY DEF IInv
<1> QED
  BY <1>1, Invariance, PTL

(* Every step of the blob is a step of the abstract register or leaves it  *)
(* alone: the conditional write never lowers the watermark.                *)
LEMMA StepIsRegisterStep ==
  IInv /\ [Next]_vars => [Register!Next]_(Register!vars)
<1> SUFFICES ASSUME IInv, [Next]_vars PROVE [Register!Next]_(Register!vars)
  OBVIOUS
<1> USE ValuesAreNat DEF IInv, Register!Next, Register!vars, Register!Raise, Register!Reset
<1>1. CASE Land
  <2>1. PICK m \in inflight :
          IF Matches(m.etag) THEN Store(m.value) ELSE UNCHANGED <<blob, changes>>
    BY <1>1 DEF Land
  <2>2. m.value \in Nat
    BY DEF TypeOK
  <2>3. CASE Matches(m.etag)
    BY <1>1, <2>1, <2>2, <2>3 DEF EtagPinsValue, Store, Land
  <2>4. CASE ~Matches(m.etag)
    BY <1>1, <2>1, <2>4 DEF Land
  <2> QED
    BY <2>3, <2>4
<1>2. CASE Delete \/ Corrupt
  BY <1>2 DEF Delete, Corrupt, Store, NoDocument, NoValue
<1>3. ASSUME NEW w \in Writers, Begin(w) \/ Read(w) \/ ReadFails(w)
                                 \/ WriteConflict(w) \/ WriteFails(w)
      PROVE  UNCHANGED <<blob, resets>>
  BY <1>3 DEF Begin, Read, ReadFails, WriteConflict, WriteFails, store
<1>4. ASSUME NEW w \in Writers, WriteOk(w) PROVE Register!Raise
  BY <1>4 DEF WriteOk, Store, EtagPinsValue, TypeOK, CarriesNewer
<1>5. CASE UNCHANGED vars
  BY <1>5 DEF vars, store
<1> QED
  BY <1>1, <1>2, <1>3, <1>4, <1>5 DEF Next, Advance

(* CheckpointStore implements MonotoneRegister.                            *)
THEOREM ImplementsRegister == Spec => OnlyForward
<1>1. Init => Register!Init
  BY ValuesAreNat DEF Init, Register!Init, NoDocument, NoValue, NoEtag
<1>2. IInv /\ [Next]_vars => [Register!Next]_(Register!vars)
  BY StepIsRegisterStep
<1> QED
  BY <1>1, <1>2, Invariance, PTL DEF Spec, OnlyForward, Register!Spec

-----------------------------------------------------------------------------

(* AnswerIsDurable needs two more facts to be inductive: nobody has read   *)
(* in an epoch still to come, so a reset ends every claim at once; and a   *)
(* call in progress has no answer yet.                                     *)
Durable ==
    /\ AnswerIsDurable
    /\ \A w \in Writers :
        /\ epoch[w] <= resets
        /\ pc[w] \in {"reading", "writing"} => outcome[w] = "none"

LEMMA NextDurable == IInv /\ Durable /\ [Next]_vars => Durable'
<1> SUFFICES ASSUME IInv, Durable, [Next]_vars PROVE Durable'
  OBVIOUS
<1> USE ValuesAreNat DEF Durable, AnswerIsDurable
<1>0. TypeOK /\ TypeOK'
  BY NextIInv DEF IInv
<1>1. /\ blob.value \in Nat /\ blob'.value \in Nat
      /\ resets \in Nat /\ epoch \in [Writers -> Nat] /\ target \in [Writers -> Nat]
      /\ pc \in [Writers -> {"idle", "reading", "writing", "returned"}]
      /\ outcome \in [Writers -> Outcomes]
  BY <1>0 DEF TypeOK, Documents
<1>2. \/ blob'.value >= blob.value /\ resets' = resets
      \/ resets' = resets + 1
  BY <1>1, StepIsRegisterStep
     DEF Register!Next, Register!vars, Register!Raise, Register!Reset
<1>3. CASE Land \/ Delete \/ Corrupt \/ UNCHANGED vars
  <2>1. UNCHANGED <<pc, outcome, target, epoch>>
    BY <1>3 DEF Land, Delete, Corrupt, call, vars
  <2> QED
    BY <1>1, <1>2, <2>1
<1>4. ASSUME NEW w \in Writers, Begin(w) PROVE Durable'
  BY <1>1, <1>4 DEF Begin, store
<1>5. ASSUME NEW w \in Writers, Read(w) PROVE Durable'
  <2>1. CASE blob.value # NoValue /\ target[w] <= blob.value
    BY <1>1, <1>5, <2>1 DEF Read, Return, store
  <2>2. CASE ~(blob.value # NoValue /\ target[w] <= blob.value)
    BY <1>1, <1>5, <2>2 DEF Read, store
  <2> QED
    BY <2>1, <2>2
<1>6. ASSUME NEW w \in Writers, ReadFails(w) \/ WriteFails(w) \/ WriteConflict(w)
      PROVE  Durable'
  BY <1>1, <1>6 DEF ReadFails, WriteFails, WriteConflict, Return, store
<1>7. ASSUME NEW w \in Writers, WriteOk(w) PROVE Durable'
  BY <1>1, <1>2, <1>7 DEF WriteOk, Store, Return
<1> QED
  BY <1>3, <1>4, <1>5, <1>6, <1>7 DEF Next, Advance

(* What advance answers can be relied on until an outsider resets the blob. *)
THEOREM AnswersAreDurable == Spec => []AnswerIsDurable
<1>1. Init => Durable
  BY ValuesAreNat DEF Init, Durable, AnswerIsDurable
<1>2. IInv /\ Durable /\ [Next]_vars => Durable'
  BY NextDurable
<1>3. Durable => AnswerIsDurable
  BY DEF Durable
<1> QED
  BY <1>1, <1>2, <1>3, Invariance, PTL DEF Spec

-----------------------------------------------------------------------------

(* Every conflict a call has met was a change of the blob since the call   *)
(* began, and the conflict it is about to meet is one more.                *)
ConflictsAreChanges ==
    \A w \in Writers :
        /\ pc[w] \in {"reading", "writing"} => begun[w] + attempt[w] <= changes
        /\ pc[w] = "writing" /\ ~Matches(seen[w].etag) => begun[w] + attempt[w] + 1 <= changes

LEMMA ChangesAreCounted ==
  IInv /\ [Next]_vars => /\ changes \in Nat /\ changes' \in Nat /\ changes <= changes'
                         /\ blob' # blob => changes' = changes + 1
<1> SUFFICES ASSUME IInv, [Next]_vars
             PROVE  /\ changes \in Nat /\ changes' \in Nat /\ changes <= changes'
                    /\ blob' # blob => changes' = changes + 1
  OBVIOUS
<1>0. changes \in Nat
  BY DEF IInv, TypeOK
<1>1. UNCHANGED <<blob, changes>> \/ changes' = changes + 1
  BY DEF Next, Advance, Land, Delete, Corrupt, Begin, Read, ReadFails, WriteOk, WriteConflict,
         WriteFails, Store, store, vars
<1> QED
  BY <1>0, <1>1

LEMMA NextContended ==
  IInv /\ Durable /\ ConflictsAreChanges /\ ContendedMeansOvertaken /\ [Next]_vars
     => ConflictsAreChanges' /\ ContendedMeansOvertaken'
<1> SUFFICES ASSUME IInv, Durable, ConflictsAreChanges, ContendedMeansOvertaken, [Next]_vars
             PROVE  ConflictsAreChanges' /\ ContendedMeansOvertaken'
  OBVIOUS
<1> USE AttemptsAssumption DEF ConflictsAreChanges, ContendedMeansOvertaken
<1>1. /\ changes \in Nat /\ changes' \in Nat /\ changes <= changes'
      /\ blob' # blob => changes' = changes + 1
  BY ChangesAreCounted
<1>2. /\ pc \in [Writers -> {"idle", "reading", "writing", "returned"}]
      /\ begun \in [Writers -> Nat] /\ attempt \in [Writers -> 0..MaxWriteAttempts]
      /\ outcome \in [Writers -> Outcomes] /\ seen \in [Writers -> Documents]
      /\ MaxWriteAttempts \in Nat
  BY DEF IInv, TypeOK
<1>3. \A w \in Writers : pc[w] \in {"reading", "writing"} =>
                           outcome[w] = "none" /\ attempt[w] < MaxWriteAttempts
  BY DEF IInv, Durable, AttemptsLeft
<1>4. CASE Land \/ Delete \/ Corrupt \/ UNCHANGED vars
  <2>1. UNCHANGED <<pc, outcome, begun, attempt, seen>>
    BY <1>4 DEF Land, Delete, Corrupt, call, vars
  <2> QED
    BY <1>1, <1>2, <2>1 DEF Matches
<1>5. ASSUME NEW w \in Writers, Begin(w) PROVE ConflictsAreChanges' /\ ContendedMeansOvertaken'
  BY <1>1, <1>2, <1>5 DEF Begin, store, Matches
<1>6. ASSUME NEW w \in Writers, Read(w) PROVE ConflictsAreChanges' /\ ContendedMeansOvertaken'
  <2>1. CASE blob.value # NoValue /\ target[w] <= blob.value
    BY <1>1, <1>2, <1>6, <2>1 DEF Read, Return, store, Matches
  <2>2. CASE ~(blob.value # NoValue /\ target[w] <= blob.value)
    BY <1>1, <1>2, <1>6, <2>2 DEF Read, store, Matches
  <2> QED
    BY <2>1, <2>2
<1>7. ASSUME NEW w \in Writers, ReadFails(w) \/ WriteFails(w) \/ WriteOk(w)
      PROVE  ConflictsAreChanges' /\ ContendedMeansOvertaken'
  <2>1. /\ pc' = [pc EXCEPT ![w] = "returned"] /\ seen' = [seen EXCEPT ![w] = NoDocument]
        /\ \E how \in {"error", "advanced"} : outcome' = [outcome EXCEPT ![w] = how]
        /\ UNCHANGED <<attempt, begun>>
    BY <1>7 DEF ReadFails, WriteFails, WriteOk, Return
  <2> QED
    BY <1>1, <1>2, <2>1 DEF Matches
<1>8. ASSUME NEW w \in Writers, WriteConflict(w)
      PROVE  ConflictsAreChanges' /\ ContendedMeansOvertaken'
  <2>1. /\ begun[w] + attempt[w] + 1 <= changes /\ attempt[w] < MaxWriteAttempts
        /\ attempt' = [attempt EXCEPT ![w] = @ + 1]
        /\ UNCHANGED <<blob, changes, begun>>
    BY <1>3, <1>8 DEF WriteConflict, store
  <2>2. CASE attempt[w] + 1 < MaxWriteAttempts
    BY <1>1, <1>2, <1>8, <2>1, <2>2 DEF WriteConflict, Matches
  <2>3. CASE ~(attempt[w] + 1 < MaxWriteAttempts)
    BY <1>1, <1>2, <1>8, <2>1, <2>3 DEF WriteConflict, Return, Matches
  <2> QED
    BY <2>2, <2>3
<1> QED
  BY <1>4, <1>5, <1>6, <1>7, <1>8 DEF Next, Advance

(* A call gives up as contended only when the blob was changed once for    *)
(* each of its attempts, for any number of attempts and writers.           *)
THEOREM ContentionIsReal == Spec => []ContendedMeansOvertaken
<1>1. Init => Durable /\ ConflictsAreChanges /\ ContendedMeansOvertaken
  BY ValuesAreNat DEF Init, Durable, AnswerIsDurable, ConflictsAreChanges, ContendedMeansOvertaken
<1>2. IInv /\ Durable /\ [Next]_vars => Durable'
  BY NextDurable
<1> QED
  BY <1>1, <1>2, NextContended, Invariance, PTL DEF Spec
=============================================================================
