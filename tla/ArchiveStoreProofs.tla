------------------------- MODULE ArchiveStoreProofs -------------------------
(***************************************************************************)
(* Proofs about ArchiveStore, for any documents, names, limits and faults: *)
(* what is archived stays, receipts and conflicts are true, the pages of a *)
(* traversal lose nothing and repeat nothing, there are only so many, and  *)
(* where every object can be read their end is the end of the archive.     *)
(***************************************************************************)
EXTENDS ArchiveStore, FiniteSetTheorems, WellFoundedInduction, TLAPS

-----------------------------------------------------------------------------
(* put *)

(* What a 412 told the writer stays true: something has its name. *)
TakenWhileComparing ==
    \A d \in Documents : writing[d] = "comparing" => objects[Name[d]] # Nothing

PutsInv == /\ PutsTypeOK
           /\ ReceiptIsDurable
           /\ NoFalseConflict
           /\ TakenWhileComparing

(* No step changes an object that is there. *)
LEMMA ObjectsStay ==
    ASSUME PutsTypeOK, [Next]_vars
    PROVE  \A n \in Names : objects[n] # Nothing => objects'[n] = objects[n]
<1>1. ASSUME NEW d \in Documents, Put(d)
      PROVE  \A n \in Names : objects[n] # Nothing => objects'[n] = objects[n]
  BY <1>1 DEF PutsTypeOK, Put, Send, Created, Absent, Exists, Compare, NoAnswer, Fails
<1>2. CASE Land
  BY <1>2 DEF PutsTypeOK, Land, Absent
<1>3. CASE List
  BY <1>3 DEF List, StartListing, NextPage, ReadBatch, ListFails, puts
<1>4. CASE UNCHANGED vars
  BY <1>4 DEF vars, puts
<1> QED
  BY <1>1, <1>2, <1>3, <1>4 DEF Next

LEMMA InitPuts == Init => PutsInv
  BY NameAssumption, DocumentsAssumption, LimitsAssumption
  DEF Init, PutsInv, PutsTypeOK, PutStates, ReceiptIsDurable, NoFalseConflict,
      TakenWhileComparing

LEMMA NextPuts == PutsInv /\ [Next]_vars => PutsInv'
<1> SUFFICES ASSUME PutsInv, [Next]_vars PROVE PutsInv'
  OBVIOUS
<1> USE NameAssumption, DocumentsAssumption, LimitsAssumption DEF PutsInv
<1>1. \A n \in Names : objects[n] # Nothing => objects'[n] = objects[n]
  BY ObjectsStay
<1>2. ASSUME NEW d \in Documents, Put(d) PROVE PutsInv'
  <2>1. PutsTypeOK'
    BY <1>2 DEF PutsTypeOK, PutStates, Put, Send, Created, Exists, Compare, NoAnswer, Fails, Step
  <2>2. \A e \in Documents : e # d => writing'[e] = writing[e]
    BY <1>2 DEF PutsTypeOK, Put, Send, Created, Exists, Compare, NoAnswer, Fails, Step
  <2>3. ReceiptIsDurable'
    BY <1>1, <1>2, <2>2
    DEF PutsTypeOK, ReceiptIsDurable, Put, Send, Created, Exists, Compare, NoAnswer, Fails, Step
  <2>4. NoFalseConflict'
    BY <1>1, <1>2, <2>2
    DEF PutsTypeOK, NoFalseConflict, TakenWhileComparing, Put, Send, Created, Exists, Compare,
        NoAnswer, Fails, Step
  <2>5. TakenWhileComparing'
    BY <1>1, <1>2, <2>2
    DEF PutsTypeOK, TakenWhileComparing, Put, Send, Created, Exists, Absent, Compare,
        NoAnswer, Fails, Step
  <2> QED
    BY <2>1, <2>3, <2>4, <2>5
<1>3. CASE Land
  <2>1. PutsTypeOK'
    BY <1>3 DEF PutsTypeOK, Land
  <2> QED
    BY <1>1, <1>3, <2>1
    DEF PutsTypeOK, ReceiptIsDurable, NoFalseConflict, TakenWhileComparing, Land
<1>4. CASE List
  BY <1>4 DEF List, StartListing, NextPage, ReadBatch, ListFails, puts,
              PutsTypeOK, ReceiptIsDurable, NoFalseConflict, TakenWhileComparing
<1>5. CASE UNCHANGED vars
  BY <1>5 DEF vars, puts, PutsTypeOK, ReceiptIsDurable, NoFalseConflict, TakenWhileComparing
<1> QED
  BY <1>2, <1>3, <1>4, <1>5 DEF Next

(* What the runs of put establish, for any number of documents and attempts. *)
THEOREM PutsInvariance == Spec => []PutsInv
  BY InitPuts, NextPuts, PTL DEF Spec

(* A receipt of BlobArchiveStore.put is true for ever. *)
THEOREM ReceiptsAreDurable == Spec => []ReceiptIsDurable
  BY PutsInvariance, PTL DEF PutsInv

(* BlobArchiveStore.put raises ArchiveConflictError only for a real conflict. *)
THEOREM ConflictsAreReal == Spec => []NoFalseConflict
  BY PutsInvariance, PTL DEF PutsInv

(* A stored document is immutable, late PUTs included. *)
THEOREM StoredIsImmutable == Spec => NeverReplaced
<1>1. PutsInv /\ [Next]_vars => [\A n \in Names : objects[n] # Nothing => objects'[n] = objects[n]]_vars
  BY ObjectsStay DEF PutsInv
<1> QED
  BY <1>1, PutsInvariance, PTL DEF Spec, NeverReplaced
-----------------------------------------------------------------------------
(* The largest and the smallest of some names *)

LEMMA SomeSmallest ==
    ASSUME NEW S, S \subseteq Nat, S # {}
    PROVE  \E n \in S : \A m \in S : n <= m
<1> DEFINE R == {ss \in Nat \X Nat : ss[1] < ss[2]}
<1>1. IsWellFoundedOn(R, Nat)
  BY NatLessThanWellFounded DEF OpToRel
<1>2. PICK n \in S : \A m \in S : <<m, n>> \notin R
  <2> HIDE DEF R
  <2> QED
    BY <1>1, WFMin
<1>3. \A m \in S : ~(m < n)
  BY <1>2
<1> QED
  BY <1>3

LEMMA SomeLargest ==
    ASSUME NEW k \in Nat, NEW S, S \subseteq 0..k, S # {}
    PROVE  \E n \in S : \A m \in S : m <= n
<1> DEFINE T == {i \in Nat : k - i \in S}
<1>1. T # {}
  <2>1. PICK n : n \in S
    OBVIOUS
  <2>2. n \in Nat /\ k - n \in Nat /\ k - (k - n) = n
    BY <2>1
  <2> QED
    BY <2>1, <2>2
<1>2. PICK i \in T : \A j \in T : i <= j
  <2> HIDE DEF T
  <2>1. T \subseteq Nat
    BY DEF T
  <2> QED
    BY <1>1, <2>1, SomeSmallest
<1>3. \A m \in S : m <= k - i
  <2> TAKE m \in S
  <2>1. k - m \in T
    <3>1. m \in Nat /\ k - m \in Nat /\ k - (k - m) = m
      OBVIOUS
    <3> QED
      BY <3>1
  <2> QED
    BY <1>2, <2>1
<1> QED
  BY <1>2, <1>3

LEMMA NamesAreNat ==
    /\ MaxName \in Nat
    /\ \A n \in Names : n \in Nat /\ n > 0 /\ n <= MaxName
    /\ Names \subseteq Nat /\ Names \subseteq 0..MaxName
  BY NameAssumption DEF Names

LEMMA SmallestName ==
    ASSUME NEW S, S \subseteq Names, S # {}
    PROVE  \E n \in S : \A m \in S : n <= m
<1>1. S \subseteq Nat
  BY NamesAreNat
<1> QED
  BY <1>1, SomeSmallest

LEMMA LargestName ==
    ASSUME NEW S, S \subseteq Names, S # {}
    PROVE  \E n \in S : \A m \in S : m <= n
<1>1. S \subseteq 0..MaxName
  BY NamesAreNat
<1> QED
  BY <1>1, NamesAreNat, SomeLargest

LEMMA NamesAreFinite ==
    ASSUME NEW S, S \subseteq Names
    PROVE  IsFiniteSet(S) /\ Cardinality(S) \in Nat
<1>1. IsFiniteSet(Names)
  BY NameAssumption, FS_Interval DEF Names
<1>2. IsFiniteSet(S)
  BY <1>1, FS_Subset
<1> QED
  BY <1>2, FS_CardinalityType

(* A subset has at most as many names. *)
LEMMA FewerNames ==
    ASSUME NEW S, S \subseteq Names, NEW T, T \subseteq S
    PROVE  Cardinality(T) <= Cardinality(S)
  BY NamesAreFinite, FS_Subset

LEMMA LastOfIsLargest ==
    ASSUME NEW S, S \subseteq Names, S # {}
    PROVE  LastOf(S) \in S /\ \A m \in S : m <= LastOf(S)
  BY LargestName DEF LastOf

(* The first Limit of some names: an initial part of them, not empty, and all *)
(* of them when they are few enough.                                          *)
LEMMA FirstOfIsInitial ==
    ASSUME NEW S, S \subseteq Names
    PROVE  /\ FirstOf(S) \subseteq S
           /\ \A n \in FirstOf(S), m \in S : m <= n => m \in FirstOf(S)
           /\ S # {} => FirstOf(S) # {}
           /\ Cardinality(S) <= Limit => FirstOf(S) = S
<1>1. FirstOf(S) \subseteq S
  BY DEF FirstOf
<1>2. ASSUME NEW n \in FirstOf(S), NEW m \in S, m <= n PROVE m \in FirstOf(S)
  <2>0. m \in Nat /\ n \in Nat /\ (\A i \in S : i \in Nat)
    BY <1>1, NamesAreNat
  <2>1. UpTo(S, m) \subseteq UpTo(S, n) /\ UpTo(S, n) \subseteq Names
    <3>1. \A i \in S : i <= m => i <= n
      BY <1>2, <2>0
    <3> QED
      BY <3>1 DEF UpTo
  <2>2. Cardinality(UpTo(S, m)) <= Cardinality(UpTo(S, n))
    BY <2>1, FewerNames
  <2>3. Cardinality(UpTo(S, n)) <= Limit
    BY DEF FirstOf
  <2>4. Cardinality(UpTo(S, m)) \in Nat /\ Cardinality(UpTo(S, n)) \in Nat
    BY <2>1, NamesAreFinite
  <2> QED
    BY <2>2, <2>3, <2>4, LimitsAssumption DEF FirstOf
<1>3. ASSUME S # {} PROVE FirstOf(S) # {}
  <2>1. PICK n \in S : \A m \in S : n <= m
    BY <1>3, SmallestName
  <2>0. \A m \in S : m \in Nat
    BY NamesAreNat
  <2>2. UpTo(S, n) = {n}
    BY <2>0, <2>1 DEF UpTo
  <2>3. Cardinality(UpTo(S, n)) = 1
    BY <2>2, FS_Singleton
  <2> QED
    BY <2>3, LimitsAssumption DEF FirstOf
<1>4. ASSUME Cardinality(S) <= Limit, NEW n \in S PROVE n \in FirstOf(S)
  <2>1. UpTo(S, n) \subseteq S
    BY DEF UpTo
  <2>2. Cardinality(UpTo(S, n)) <= Cardinality(S)
    BY <2>1, FewerNames
  <2>3. Cardinality(UpTo(S, n)) \in Nat /\ Cardinality(S) \in Nat
    BY <2>1, NamesAreFinite
  <2> QED
    BY <1>4, <2>2, <2>3, LimitsAssumption DEF FirstOf
<1> QED
  BY <1>1, <1>2, <1>3, <1>4

(* A batch is an initial part of what is stored from the marker on, and the   *)
(* next marker is the first name behind it.                                   *)
LEMMA BatchIsInitial ==
    ASSUME from \in 0..MaxName
    PROVE  /\ Batch \subseteq Names
           /\ \A n \in Batch : n >= from
           /\ \A n \in Batch, m \in Stored : from <= m /\ m <= n => m \in Batch
           /\ NextMarker = 0 => \A n \in Stored : n >= from => n \in Batch
           /\ NextMarker # 0 => NextMarker \in Beyond
           /\ NextMarker # 0 => \A n \in Stored : from <= n /\ n < NextMarker => n \in Batch
           /\ NextMarker # 0 => NextMarker >= from /\ \A n \in Batch : n < NextMarker
<1>1. Stored \subseteq Names /\ Batch \subseteq Stored /\ Beyond \subseteq Names
  BY DEF Stored, Batch, Beyond
<1>2. ASSUME NEW n \in Batch, NEW m \in Stored, from <= m, m <= n PROVE m \in Batch
  <2> DEFINE To(k) == {i \in Stored : from <= i /\ i <= k}
  <2>0. m \in Nat /\ n \in Nat /\ (\A i \in Stored : i \in Nat)
    BY <1>1, NamesAreNat
  <2>1. To(m) \subseteq To(n) /\ To(n) \subseteq Names
    <3>1. \A i \in Stored : i <= m => i <= n
      BY <1>2, <2>0
    <3> QED
      BY <1>1, <3>1
  <2>2. Cardinality(To(m)) <= Cardinality(To(n))
    BY <2>1, FewerNames
  <2>3. Cardinality(To(n)) <= ListBatch
    BY DEF Batch
  <2>4. Cardinality(To(m)) \in Nat /\ Cardinality(To(n)) \in Nat
    BY <2>1, NamesAreFinite
  <2>5. Cardinality(To(m)) <= ListBatch
    BY <2>2, <2>3, <2>4, LimitsAssumption
  <2> QED
    BY <1>1, <1>2, <2>5 DEF Batch
<1>3. Beyond # {} => NextMarker \in Beyond /\ \A m \in Beyond : NextMarker <= m
  BY <1>1, SmallestName DEF NextMarker
<1>4. NextMarker = 0 <=> Beyond = {}
  BY <1>1, <1>3, NamesAreNat DEF NextMarker
<1>5. from \in Nat /\ \A n \in Names : n \in Nat
  BY NamesAreNat
<1>6. Batch \subseteq Names /\ \A n \in Batch : n >= from
  BY <1>1 DEF Batch
<1>7. ASSUME NextMarker = 0, NEW n \in Stored, n >= from PROVE n \in Batch
  BY <1>4, <1>7 DEF Beyond
<1>8. ASSUME NextMarker # 0, NEW n \in Stored, from <= n, n < NextMarker PROVE n \in Batch
  <2>1. n \notin Beyond
    BY <1>1, <1>3, <1>4, <1>5, <1>8
  <2> QED
    BY <1>1, <1>5, <1>8, <2>1 DEF Beyond
<1>9. ASSUME NextMarker # 0, NEW n \in Batch PROVE n < NextMarker
  <2>1. NextMarker \in Stored /\ NextMarker \notin Batch /\ NextMarker >= from
    BY <1>3, <1>4, <1>9 DEF Beyond
  <2>2. ~(NextMarker <= n)
    BY <1>2, <2>1
  <2> QED
    BY <1>1, <1>5, <2>1, <2>2
<1>10. NextMarker # 0 => NextMarker >= from
  BY <1>3, <1>4 DEF Beyond
<1> QED
  BY <1>2, <1>3, <1>4, <1>6, <1>7, <1>8, <1>9, <1>10

-----------------------------------------------------------------------------
(* list *)

(* The names shown lie before the cursor, and what is found on the current    *)
(* page behind it, where the listing has come to.                             *)
CursorParts ==
    /\ reader = "new" => page \cup shown = {} /\ after = 0 /\ from = 0
    /\ reader # "done" => \A m \in shown \cup page : m <= after
    /\ \A n \in found : n > after /\ n < from
    /\ after <= from
    /\ Cardinality(found) <= Limit

(* What matched when the reader began still does: objects never change.       *)
ExpectedStays == \A e \in expected : objects[e] \in Matching

(* What matched was shown, is found, or is still to be read.                  *)
NothingLost ==
    reader \in {"listing", "between"} =>
        \A e \in expected : e \in shown \cup page \cup found \/ (e > after /\ e >= from)

IInv == /\ PutsInv
        /\ ListingTypeOK
        /\ CursorParts
        /\ ExpectedStays
        /\ NothingLost
        /\ NewestFirst
        /\ ListingIsComplete

LEMMA InitIInv == Init => IInv
<1> SUFFICES ASSUME Init PROVE IInv
  OBVIOUS
<1>1. Cardinality({}) = 0
  BY FS_EmptySet
<1>2. ListingTypeOK
  <2>1. 0 \in 0..MaxName /\ 0 \in Nat
    BY NamesAreNat
  <2> QED
    BY <2>1 DEF Init, ListingTypeOK
<1>3. CursorParts
  BY <1>1, LimitsAssumption DEF Init, CursorParts
<1> QED
  BY <1>2, <1>3, InitPuts
  DEF Init, IInv, ExpectedStays, NothingLost, NewestFirst, ListingIsComplete

(* The objects of a batch that are looked at lie behind the cursor. *)
LEMMA ItemsAreBehind ==
    ASSUME ListingTypeOK, CursorParts
    PROVE  /\ Items \subseteq Names /\ Items \subseteq Batch
           /\ \A n \in Items : n > after
<1>1. Items \subseteq Batch /\ after \notin Items
  BY DEF Items
<1>2. Batch \subseteq Names /\ \A n \in Batch : n >= from
  BY BatchIsInitial DEF ListingTypeOK
<1>3. after \in Nat /\ from \in Nat /\ after <= from /\ \A n \in Items : n \in Nat
  BY <1>1, <1>2, NamesAreNat DEF ListingTypeOK, CursorParts
<1>4. ASSUME NEW n \in Items PROVE n > after
  BY <1>1, <1>2, <1>3
<1> QED
  BY <1>1, <1>2, <1>4

LEMMA FoundIsBehind ==
    ASSUME ListingTypeOK, CursorParts, NEW k
    PROVE  Found(k) \subseteq Names /\ \A n \in Found(k) : n > after
  BY ItemsAreBehind DEF ListingTypeOK, CursorParts, Found, UpTo

LEMMA ScannedIsNat ==
    ASSUME ListingTypeOK, CursorParts, NEW k
    PROVE  Scanned(k) \in Nat
<1>1. UpTo(Items, k) \subseteq Names
  BY ItemsAreBehind DEF UpTo
<1>2. Cardinality(UpTo(Items, k)) \in Nat
  BY <1>1, NamesAreFinite
<1> QED
  BY <1>2 DEF Scanned, ListingTypeOK

(* As long as the loop goes on, no more than a page is found. *)
LEMMA FewFound ==
    ASSUME ListingTypeOK, CursorParts, NEW k \in Nat,
           \A m \in Items : m <= k => ~LeavesAt(m)
    PROVE  Cardinality(Found(k)) <= Limit
<1> DEFINE T == {m \in UpTo(Items, k) : Matches(m)}
<1>1. T \subseteq Names /\ \A m \in T : m \in Items /\ m <= k /\ Matches(m)
  BY ItemsAreBehind DEF UpTo
<1>2. CASE T = {}
  <2>1. Found(k) = found
    BY <1>2 DEF Found
  <2> QED
    BY <2>1 DEF CursorParts
<1>3. CASE T # {}
  <2> HIDE DEF T
  <2>1. PICK n \in T : \A m \in T : m <= n
    BY <1>1, <1>3, LargestName
  <2>2. n \in Nat /\ k \in Nat /\ n <= k /\ \A m \in Items : m \in Nat
    BY <1>1, ItemsAreBehind, NamesAreNat
  <2>3. \A m \in Items : m <= n => m <= k
    BY <2>2
  <2>4. T = {m \in UpTo(Items, n) : Matches(m)}
    BY <1>1, <2>1, <2>3 DEF T, UpTo
  <2>5. Found(n) = Found(k)
    BY <2>4 DEF T, Found
  <2>6. Readable(n)
    BY <1>1, DocumentsAssumption DEF Matches, Readable
  <2>7. ~(Cardinality(Found(n)) > Limit)
    BY <1>1, <2>1, <2>2, <2>6 DEF LeavesAt
  <2>8. Found(n) \subseteq Names
    BY FoundIsBehind
  <2>9. Cardinality(Found(n)) \in Nat
    BY <2>8, NamesAreFinite
  <2> QED
    BY <2>5, <2>7, <2>9, LimitsAssumption
<1> QED
  BY <1>2, <1>3

(* Whatever was expected and not yet shown is found once the loop is past it. *)
LEMMA ExpectedIsFound ==
    ASSUME IInv, reader = "listing", NEW e \in expected, e \notin shown \cup page,
           NEW k, e <= k, e >= from => e \in Batch
    PROVE  e \in Found(k)
<1>1. CASE e \in found
  BY <1>1 DEF Found
<1>2. CASE e \notin found
  <2>1. e > after /\ e >= from
    BY <1>2 DEF IInv, NothingLost
  <2>2. e \in Names /\ after \in Nat
    BY NamesAreNat DEF IInv, ListingTypeOK
  <2>3. e # after
    BY <2>1, <2>2, NamesAreNat
  <2>4. e \in Items
    BY <2>1, <2>3 DEF Items
  <2>5. Matches(e)
    BY DEF IInv, ExpectedStays, Matches
  <2> QED
    BY <2>4, <2>5 DEF Found, UpTo
<1> QED
  BY <1>1, <1>2

(* A page that is not the last: the cursor is the last name shown, or the last *)
(* name looked at when nothing was found, and nothing before it is left out.   *)
LEMMA PageWithMore ==
    ASSUME IInv, reader = "listing", NEW n \in Items, Return(Found(n), TRUE, n),
           UNCHANGED <<puts, expected, listFailures, blind>>
    PROVE  IInv'
<1> DEFINE items == FirstOf(Found(n))
           at    == Cursor(items, n)
<1>1. Found(n) \subseteq Names /\ \A m \in Found(n) : m > after
  BY FoundIsBehind DEF IInv
<1>2. n \in Names /\ n > after /\ n \in Batch /\ after \in Nat
  BY ItemsAreBehind, NamesAreNat DEF IInv, ListingTypeOK
<1>3. /\ items \subseteq Found(n)
      /\ \A i \in items, m \in Found(n) : m <= i => m \in items
      /\ Found(n) # {} => items # {}
  BY <1>1, FirstOfIsInitial
<1>4. items # {} => at \in items /\ \A m \in items : m <= at
  <2>1. items \subseteq Names
    BY <1>1, <1>3
  <2> HIDE DEF items
  <2> QED
    BY <2>1, LastOfIsLargest DEF Cursor
<1>5. items = {} => at = n
  BY DEF Cursor
<1>6. /\ page' = items /\ shown' = shown \cup page /\ reader' = "between"
      /\ after' = at /\ from' = at /\ found' = {} /\ scanned' = 0
  BY DEF Return, NextRequest
<1>7. at \in Names /\ at > after
  BY <1>1, <1>2, <1>3, <1>4, <1>5
<1> HIDE DEF items, at
<1>8. \A m \in shown \cup page : m <= after /\ m \in Nat
  BY NamesAreNat DEF IInv, CursorParts, ListingTypeOK
<1>9. \A m \in items : m > after /\ m <= at /\ m \in Nat
  BY <1>1, <1>3, <1>4, NamesAreNat
<1>10. at \in Nat /\ after \in Nat /\ at \in 0..MaxName
  BY <1>2, <1>7, NamesAreNat
<1>11. ListingTypeOK'
  <2>1. items \subseteq Names /\ 0 \in Nat /\ shown \cup page \subseteq Names
    BY <1>1, <1>3 DEF IInv, ListingTypeOK
  <2> QED
    BY <1>6, <1>10, <2>1 DEF IInv, ListingTypeOK
<1>12. CursorParts'
  <2>1. Cardinality({}) = 0
    BY FS_EmptySet
  <2>2. \A m \in shown' \cup page' : m <= at
    BY <1>6, <1>7, <1>8, <1>9, <1>10
  <2>3. at <= at /\ 0 <= Limit
    BY <1>10, LimitsAssumption
  <2> QED
    BY <1>6, <2>1, <2>2, <2>3 DEF CursorParts
<1>13. ExpectedStays' /\ PutsInv'
  BY DEF IInv, ExpectedStays, puts, PutsInv, PutsTypeOK, ReceiptIsDurable, NoFalseConflict,
         TakenWhileComparing
<1>14. ASSUME NEW e \in expected, e \notin shown \cup page \cup items PROVE e > at
  <2>1. CASE e <= n
    <3>1. e \in Stored
      BY DocumentsAssumption DEF IInv, ExpectedStays, Stored, ListingTypeOK
    <3>2. e >= from => e \in Batch
      BY <1>2, <2>1, <3>1, BatchIsInitial DEF IInv, ListingTypeOK
    <3>3. e \in Found(n)
      BY <1>14, <2>1, <3>2, ExpectedIsFound
    <3>4. items # {} /\ ~(e <= at)
      BY <1>3, <1>4, <1>14, <3>3
    <3>5. e \in Nat
      BY <1>1, <3>3, NamesAreNat
    <3> QED
      BY <1>10, <3>4, <3>5
  <2>2. CASE ~(e <= n)
    <3>1. at <= n
      <4>1. CASE items = {}
        BY <1>2, <1>5, <4>1, NamesAreNat
      <4>2. CASE items # {}
        <5>1. at \in found \/ at \in UpTo(Items, n)
          BY <1>3, <1>4, <4>2 DEF Found
        <5>2. CASE at \in UpTo(Items, n)
          BY <5>2 DEF UpTo
        <5>3. CASE at \in found
          <6>1. at < from /\ from <= n
            BY <1>2, <5>3, BatchIsInitial DEF IInv, CursorParts, ListingTypeOK
          <6> QED
            BY <1>2, <1>10, <6>1, NamesAreNat DEF IInv, ListingTypeOK
        <5> QED
          BY <5>1, <5>2, <5>3
      <4> QED
        BY <4>1, <4>2
    <3>2. e \in Nat /\ n \in Nat
      BY <1>2, NamesAreNat DEF IInv, ListingTypeOK
    <3> QED
      BY <1>10, <2>2, <3>1, <3>2
  <2> QED
    BY <2>1, <2>2
<1>15. NothingLost'
  <2>1. \A e \in expected : e \in shown' \cup page' \/ (e > after' /\ e >= from')
    <3>1. \A e \in expected : e \in Nat
      BY NamesAreNat DEF IInv, ListingTypeOK
    <3> QED
      BY <1>6, <1>10, <1>14, <3>1
  <2> QED
    BY <1>6, <2>1 DEF NothingLost
<1>16. NewestFirst'
  BY <1>6, <1>8, <1>9, <1>10 DEF NewestFirst
<1>17. ListingIsComplete'
  BY <1>6 DEF ListingIsComplete
<1> QED
  BY <1>11, <1>12, <1>13, <1>15, <1>16, <1>17 DEF IInv

(* The last page: everything that was expected is on it or was shown before.   *)
LEMMA LastPage ==
    ASSUME IInv, reader = "listing", NEW k, Return(Found(k), FALSE, k),
           UNCHANGED <<puts, expected, listFailures>>, blind' \in BOOLEAN,
           ~blind' => Cardinality(Found(k)) <= Limit /\ expected \subseteq shown \cup page \cup Found(k)
    PROVE  IInv'
<1> DEFINE items == FirstOf(Found(k))
<1>1. Found(k) \subseteq Names /\ \A m \in Found(k) : m > after
  BY FoundIsBehind DEF IInv
<1>2. items \subseteq Found(k) /\ (Cardinality(Found(k)) <= Limit => items = Found(k))
  BY <1>1, FirstOfIsInitial
<1>3. /\ page' = items /\ shown' = shown \cup page /\ reader' = "done"
      /\ after' = 0 /\ from' = 0 /\ found' = {} /\ scanned' = 0
  BY DEF Return, NextRequest
<1> HIDE DEF items
<1>4. 0 \in Nat /\ 0 \in 0..MaxName /\ 0 <= 0
  BY NamesAreNat
<1>5. ListingTypeOK'
  BY <1>1, <1>2, <1>3, <1>4 DEF IInv, ListingTypeOK
<1>6. CursorParts'
  BY <1>3, <1>4, FS_EmptySet, LimitsAssumption DEF CursorParts
<1>7. ExpectedStays' /\ PutsInv'
  BY DEF IInv, ExpectedStays, puts, PutsInv, PutsTypeOK, ReceiptIsDurable, NoFalseConflict,
         TakenWhileComparing
<1>8. NewestFirst'
  <2>1. \A m \in shown \cup page : m <= after /\ m \in Nat
    BY NamesAreNat DEF IInv, CursorParts, ListingTypeOK
  <2>2. \A m \in items : m > after /\ m \in Nat
    BY <1>1, <1>2, NamesAreNat
  <2>3. after \in Nat
    BY NamesAreNat DEF IInv, ListingTypeOK
  <2> QED
    BY <1>3, <2>1, <2>2, <2>3 DEF NewestFirst
<1>9. NothingLost' /\ ListingIsComplete'
  BY <1>2, <1>3 DEF NothingLost, ListingIsComplete
<1> QED
  BY <1>5, <1>6, <1>7, <1>8, <1>9 DEF IInv

(* Everything read so far and not too much of it: nothing expected is missing. *)
LEMMA AllFound ==
    ASSUME IInv, reader = "listing", NEW k,
           \A m \in Stored : m >= from => m \in Batch /\ m <= k,
           \A m \in found : m <= k
    PROVE  expected \subseteq shown \cup page \cup Found(k)
<1> SUFFICES ASSUME NEW e \in expected, e \notin shown \cup page PROVE e \in Found(k)
  OBVIOUS
<1>1. e \in Stored
  BY DocumentsAssumption DEF IInv, ExpectedStays, Stored, ListingTypeOK
<1>2. e \in found \/ e >= from
  BY DEF IInv, NothingLost
<1> QED
  BY <1>1, <1>2, ExpectedIsFound

LEMMA ReadBatchIInv == IInv /\ ReadBatch => IInv'
<1> SUFFICES ASSUME IInv, ReadBatch PROVE IInv'
  OBVIOUS
<1>1. reader = "listing" /\ UNCHANGED <<puts, expected, listFailures>>
  BY DEF ReadBatch
<1>2. after \in Nat /\ from \in Nat /\ MaxName \in Nat /\ \A m \in found : m \in Nat /\ m <= MaxName
  BY NamesAreNat DEF IInv, ListingTypeOK
<1>3. /\ Batch \subseteq Names /\ Stored \subseteq Names
      /\ Items \subseteq Batch /\ \A m \in Batch : m >= from
  BY BatchIsInitial, ItemsAreBehind DEF IInv, ListingTypeOK, Stored
<1>4. ASSUME NEW n \in Items, LastSeen(n), LeavesAt(n), Return(Found(n), MoreAt(n), n),
             UNCHANGED blind
      PROVE  IInv'
  <2>1. CASE MoreAt(n)
    <3>1. Return(Found(n), TRUE, n)
      BY <1>4, <2>1 DEF Return
    <3> QED
      BY <1>1, <1>4, <3>1, PageWithMore
  <2>2. CASE ~MoreAt(n)
    <3>1. Return(Found(n), FALSE, n)
      BY <1>4, <2>2 DEF Return
    <3>2. n \in Nat /\ n \in Batch /\ n >= from
      BY <1>3, NamesAreNat
    <3>3. \A m \in Batch : m <= n
      <4>1. \A m \in Batch : m \in Nat /\ ~(m > n)
        BY <1>3, <2>2, NamesAreNat DEF MoreAt
      <4> QED
        BY <3>2, <4>1
    <3>4. \A m \in Stored : m >= from => m \in Batch /\ m <= n
      BY <2>2, <3>3, BatchIsInitial DEF MoreAt, IInv, ListingTypeOK
    <3>5. \A m \in found : m <= n
      BY <1>2, <3>2 DEF IInv, CursorParts
    <3>6. Cardinality(Found(n)) <= Limit
      <4>1. Cardinality(Found(n)) \in Nat
        BY FoundIsBehind, NamesAreFinite DEF IInv
      <4>2. CASE Matches(n)
        BY <2>2, <4>1, <4>2, LimitsAssumption DEF MoreAt
      <4>3. CASE ~Matches(n)
        <5>1. n > 0 /\ n - 1 \in Nat
          BY <1>3, NamesAreNat
        <5>2. \A m \in Items : m \in Nat /\ (m <= n <=> m <= n - 1 \/ m = n) /\ (m <= n - 1 => m < n)
          BY <1>3, <3>2, NamesAreNat
        <5>3. Found(n) = Found(n - 1)
          BY <4>3, <5>2 DEF Found, UpTo
        <5>4. \A m \in Items : m <= n - 1 => ~LeavesAt(m)
          BY <1>4, <5>2 DEF LastSeen
        <5> QED
          BY <5>1, <5>3, <5>4, FewFound DEF IInv
      <4> QED
        BY <4>2, <4>3
    <3> QED
      BY <1>1, <1>4, <3>1, <3>4, <3>5, <3>6, AllFound, LastPage DEF IInv, ListingTypeOK
  <2> QED
    BY <2>1, <2>2
<1>5. ASSUME \A n \in Items : ~LeavesAt(n) PROVE Cardinality(Found(MaxName)) <= Limit
  BY <1>2, <1>5, FewFound DEF IInv
<1>6. ASSUME \A n \in Items : ~LeavesAt(n), NextMarker # 0,
             from' = NextMarker, found' = Found(MaxName), scanned' = Scanned(MaxName),
             UNCHANGED <<reader, after, pages, blind>>
      PROVE  IInv'
  <2>1. /\ NextMarker \in Names /\ NextMarker >= from
        /\ \A n \in Batch : n < NextMarker
        /\ \A n \in Stored : from <= n /\ n < NextMarker => n \in Batch
    BY <1>6, BatchIsInitial DEF IInv, ListingTypeOK, Beyond, Stored
  <2>2. NextMarker \in Nat /\ NextMarker \in 0..MaxName
    BY <2>1, NamesAreNat
  <2>3. Found(MaxName) \subseteq Names /\ \A n \in Found(MaxName) : n > after
    BY FoundIsBehind DEF IInv
  <2>4. ListingTypeOK'
    BY <1>1, <1>6, <2>2, <2>3, ScannedIsNat DEF IInv, ListingTypeOK, pages
  <2>5. CursorParts'
    <3>1. \A n \in Found(MaxName) : n < NextMarker
      <4> SUFFICES ASSUME NEW n \in Found(MaxName) PROVE n < NextMarker
        OBVIOUS
      <4>1. CASE n \in found
        BY <1>2, <2>1, <2>2, <4>1 DEF IInv, CursorParts
      <4>2. CASE n \in Items
        BY <1>3, <2>1, <4>2
      <4> QED
        BY <4>1, <4>2 DEF Found, UpTo
    <3>2. after <= NextMarker
      BY <1>2, <2>1, <2>2 DEF IInv, CursorParts
    <3> QED
      BY <1>1, <1>5, <1>6, <2>3, <3>1, <3>2 DEF IInv, CursorParts, pages
  <2>6. NothingLost'
    <3>1. ASSUME NEW e \in expected, e \notin shown \cup page \cup Found(MaxName)
          PROVE  e > after /\ e >= NextMarker
      <4>1. e \in Stored /\ e \in Nat /\ e <= MaxName
        BY NamesAreNat, DocumentsAssumption DEF IInv, ExpectedStays, Stored, ListingTypeOK
      <4>2. ~(e >= from => e \in Batch)
        BY <1>1, <3>1, <4>1, ExpectedIsFound
      <4>3. e > after /\ ~(e < NextMarker)
        BY <1>1, <2>1, <3>1, <4>1, <4>2 DEF IInv, NothingLost, Found
      <4> QED
        BY <2>2, <4>1, <4>3
    <3> QED
      BY <1>1, <1>6, <3>1 DEF NothingLost, pages
  <2>7. ExpectedStays' /\ PutsInv' /\ NewestFirst' /\ ListingIsComplete'
    BY <1>1, <1>6 DEF IInv, ExpectedStays, puts, PutsInv, PutsTypeOK, ReceiptIsDurable,
       NoFalseConflict, TakenWhileComparing, NewestFirst, ListingIsComplete, pages
  <2> QED
    BY <2>4, <2>5, <2>6, <2>7 DEF IInv
<1>7. ASSUME \A n \in Items : ~LeavesAt(n), Return(Found(MaxName), FALSE, 0),
             blind' = (blind \/ NextMarker # 0)
      PROVE  IInv'
  <2>1. Return(Found(MaxName), FALSE, MaxName)
    BY <1>7 DEF Return
  <2>2. blind' \in BOOLEAN
    BY <1>7 DEF IInv, ListingTypeOK
  <2>3. NextMarker = 0 => expected \subseteq shown \cup page \cup Found(MaxName)
    <3>1. NextMarker = 0 => \A m \in Stored : m >= from => m \in Batch /\ m <= MaxName
      BY <1>3, BatchIsInitial, NamesAreNat DEF IInv, ListingTypeOK
    <3> QED
      BY <1>1, <1>2, <3>1, AllFound
  <2> QED
    BY <1>1, <1>5, <1>7, <2>1, <2>2, <2>3, LastPage
<1> QED
  BY <1>4, <1>6, <1>7 DEF ReadBatch

LEMMA NextIInv == IInv /\ [Next]_vars => IInv'
<1> SUFFICES ASSUME IInv, [Next]_vars PROVE IInv'
  OBVIOUS
<1>1. PutsInv'
  BY NextPuts DEF IInv
<1>2. ASSUME UNCHANGED listing PROVE IInv'
  <2>1. ExpectedStays'
    BY <1>2, ObjectsStay, DocumentsAssumption
    DEF IInv, PutsInv, ExpectedStays, ListingTypeOK, listing
  <2> QED
    BY <1>1, <1>2, <2>1
    DEF IInv, ListingTypeOK, CursorParts, NothingLost, NewestFirst, ListingIsComplete,
        listing, request, pages
<1>3. CASE \E d \in Documents : Put(d)
  BY <1>2, <1>3 DEF Put, Send, Created, Exists, Compare, NoAnswer, Fails
<1>4. CASE Land
  BY <1>2, <1>4 DEF Land
<1>5. CASE UNCHANGED vars
  BY <1>2, <1>5 DEF vars
<1>6. CASE StartListing
  <2>1. \A n \in Names : n > 0 /\ n >= 0
    BY NamesAreNat
  <2>2. expected' \subseteq Names /\ \A e \in expected' : e > 0 /\ e >= 0
    BY <1>6, <2>1 DEF StartListing, Stored
  <2>3. ListingTypeOK' /\ CursorParts'
    BY <1>6, <2>2 DEF StartListing, IInv, ListingTypeOK, CursorParts, request, pages
  <2>4. NothingLost' /\ NewestFirst' /\ ListingIsComplete'
    BY <1>6, <2>2 DEF StartListing, IInv, CursorParts, NothingLost, NewestFirst,
                      ListingIsComplete, request, pages
  <2>5. ExpectedStays'
    BY <1>6 DEF StartListing, ExpectedStays, Matches, puts
  <2> QED
    BY <1>1, <2>3, <2>4, <2>5 DEF IInv
<1>7. CASE NextPage
  BY <1>1, <1>7 DEF NextPage, IInv, ListingTypeOK, CursorParts, ExpectedStays, NothingLost,
                    NewestFirst, ListingIsComplete, puts, request, pages
<1>8. CASE ReadBatch
  BY <1>8, ReadBatchIInv
<1>9. CASE ListFails
  <2>1. /\ reader = "listing" /\ reader' = "between" /\ after' = after /\ from' = after
        /\ found' = {} /\ scanned' = 0 /\ listFailures' = listFailures + 1
        /\ UNCHANGED <<puts, pages, expected, blind>>
    BY <1>9 DEF ListFails, NextRequest
  <2>2. after \in Nat /\ after <= after /\ 0 <= Limit /\ \A e \in expected : e \in Nat
    BY NamesAreNat, LimitsAssumption DEF IInv, ListingTypeOK
  <2>3. ListingTypeOK' /\ CursorParts'
    BY <2>1, <2>2, FS_EmptySet DEF IInv, ListingTypeOK, CursorParts, pages
  <2>4. \A e \in expected : e \in shown \cup page \/ (e > after /\ e >= after)
    BY <2>1, <2>2 DEF IInv, NothingLost, CursorParts
  <2>5. NothingLost' /\ NewestFirst' /\ ListingIsComplete'
    BY <2>1, <2>4 DEF IInv, NothingLost, NewestFirst, ListingIsComplete, pages
  <2>6. ExpectedStays'
    BY <2>1 DEF IInv, ExpectedStays, puts
  <2> QED
    BY <1>1, <2>3, <2>5, <2>6 DEF IInv
<1> QED
  BY <1>3, <1>4, <1>5, <1>6, <1>7, <1>8, <1>9 DEF Next, List

(* The inductive invariant of writers and reader together, for any batch size, *)
(* scan limit and page size of BlobArchiveStore.list.                          *)
THEOREM Invariance == Spec => []IInv
  BY InitIInv, NextIInv, PTL DEF Spec

(* The types of BlobArchiveStore hold in every behaviour. *)
THEOREM TypeCorrect == Spec => []TypeOK
<1>1. IInv => TypeOK
  BY DEF IInv, PutsInv, TypeOK
<1> QED
  BY <1>1, Invariance, PTL

(* The pages of BlobArchiveStore.list show the documents newest first and none *)
(* twice, however many are written between two pages.                          *)
THEOREM PagesNewestFirst == Spec => []NewestFirst
  BY Invariance, PTL DEF IInv

(* A traversal of BlobArchiveStore.list that ends has shown every matching     *)
(* document that was there at its beginning, unless an unreadable object fell  *)
(* on the scan limit.                                                          *)
THEOREM TraversalIsComplete == Spec => []ListingIsComplete
  BY Invariance, PTL DEF IInv
-----------------------------------------------------------------------------
(* Why a traversal ends: what ListingEnds needs besides fairness.            *)

PagesLeft ==
    CASE reader = "new" -> 2
      [] reader \in {"listing", "between"} -> 1
      [] OTHER -> 0

(* Each step of the reader is a failure, of which there are only so many, or *)
(* takes it to a later stage, to a later page, to the request for that page, *)
(* or to a later batch of it.                                                *)
Nearer ==
    \/ listFailures' > listFailures
    \/ /\ listFailures' = listFailures
       /\ \/ PagesLeft' < PagesLeft
          \/ /\ PagesLeft' = PagesLeft
             /\ \/ after' > after
                \/ after' = after /\ reader = "between" /\ reader' = "listing"
                \/ after' = after /\ reader' = reader /\ from' > from

(* The writers leave the reader alone; everything the reader does brings it  *)
(* nearer to the end.  Its cursors are at most MaxName.                      *)
TraversalIsBounded == [][Nearer]_listing

FailuresAreCounted == listFailures <= MaxListFailures

(* In every answer of the service the loop leaves at some object or passes   *)
(* them all: no answer keeps the reader waiting for another.                 *)
BatchIsReadable ==
    reader = "listing" =>
        \/ \E n \in Items : LastSeen(n) /\ LeavesAt(n)
        \/ \A n \in Items : ~LeavesAt(n)

LEMMA SomeBatchIsReadable == IInv => BatchIsReadable
<1> SUFFICES ASSUME IInv, NEW k \in Items, LeavesAt(k)
             PROVE  \E n \in Items : LastSeen(n) /\ LeavesAt(n)
  BY DEF BatchIsReadable
<1> DEFINE S == {n \in Items : LeavesAt(n)}
<1>1. S \subseteq Names /\ k \in S /\ Items \subseteq Names
  BY ItemsAreBehind DEF IInv
<1>2. PICK n \in S : \A m \in S : n <= m
  <2> HIDE DEF S
  <2> QED
    BY <1>1, SmallestName
<1>3. ASSUME NEW m \in Items, m < n PROVE ~LeavesAt(m)
  <2>1. m \in Nat /\ n \in Nat /\ ~(n <= m)
    BY <1>1, <1>2, <1>3, NamesAreNat
  <2> QED
    BY <1>2, <2>1
<1> QED
  BY <1>2, <1>3 DEF LastSeen

(* A marker is never the name the batch began at.                            *)
LEMMA MarkersAdvance ==
    ASSUME IInv, NextMarker # 0
    PROVE  NextMarker \in Nat /\ NextMarker > from
<1>1. from \in 0..MaxName /\ from \in Nat
  BY NamesAreNat DEF IInv, ListingTypeOK
<1>2. NextMarker \in Stored /\ NextMarker \notin Batch /\ NextMarker >= from
  BY <1>1, BatchIsInitial DEF Beyond
<1>3. NextMarker \in Nat
  BY <1>2, NamesAreNat DEF Stored
<1>4. NextMarker # from
  <2> SUFFICES ASSUME NextMarker = from PROVE from \in Batch
    BY <1>2
  <2>0. from \in Stored
    BY <1>2
  <2>1. \A m \in Stored : from <= m /\ m <= from <=> m = from
    BY <1>1, NamesAreNat DEF Stored
  <2>2. {m \in Stored : from <= m /\ m <= from} = {from}
    BY <2>0, <2>1
  <2>3. Cardinality({m \in Stored : from <= m /\ m <= from}) = 1
    BY <2>2, FS_Singleton
  <2> QED
    BY <1>1, <1>2, <2>3, LimitsAssumption DEF Batch
<1> QED
  BY <1>1, <1>2, <1>3, <1>4

(* A page with more to come moves the cursor forward.                        *)
LEMMA CursorsAdvance ==
    ASSUME IInv, NEW n \in Items
    PROVE  Cursor(FirstOf(Found(n)), n) > after
<1>1. Found(n) \subseteq Names /\ \A m \in Found(n) : m > after
  BY FoundIsBehind DEF IInv
<1>2. n > after
  BY ItemsAreBehind DEF IInv
<1>3. FirstOf(Found(n)) \subseteq Found(n)
  BY <1>1, FirstOfIsInitial
<1>4. FirstOf(Found(n)) # {} => LastOf(FirstOf(Found(n))) \in FirstOf(Found(n))
  BY <1>1, <1>3, LastOfIsLargest
<1> QED
  BY <1>1, <1>2, <1>3, <1>4 DEF Cursor

LEMMA ReadBatchIsNearer == IInv /\ ReadBatch => Nearer
<1> SUFFICES ASSUME IInv, ReadBatch PROVE Nearer
  OBVIOUS
<1>1. reader = "listing" /\ listFailures' = listFailures
  BY DEF ReadBatch
<1>2. ASSUME reader' = "done" PROVE Nearer
  BY <1>1, <1>2 DEF Nearer, PagesLeft
<1>3. ASSUME NEW n \in Items, Return(Found(n), TRUE, n) PROVE Nearer
  <2>1. reader' = "between" /\ after' > after
    BY <1>3, CursorsAdvance DEF Return, NextRequest
  <2> QED
    BY <1>1, <2>1 DEF Nearer, PagesLeft
<1>4. ASSUME NEW n, Return(Found(n), FALSE, n) PROVE Nearer
  BY <1>2, <1>4 DEF Return
<1>5. ASSUME NEW n \in Items, Return(Found(n), MoreAt(n), n) PROVE Nearer
  <2>1. CASE MoreAt(n)
    BY <1>3, <1>5, <2>1 DEF Return
  <2>2. CASE ~MoreAt(n)
    BY <1>2, <1>5, <2>2 DEF Return
  <2> QED
    BY <2>1, <2>2
<1>6. ASSUME from' = NextMarker, NextMarker # 0, UNCHANGED <<reader, after, pages, blind>>
      PROVE  Nearer
  <2>1. from' > from
    BY <1>6, MarkersAdvance
  <2> QED
    BY <1>1, <1>6, <2>1 DEF Nearer, PagesLeft
<1>7. ASSUME Return(Found(MaxName), FALSE, 0) PROVE Nearer
  BY <1>2, <1>7 DEF Return
<1> QED
  BY <1>5, <1>6, <1>7 DEF ReadBatch

LEMMA ListIsNearer == IInv /\ List => Nearer
<1> SUFFICES ASSUME IInv, List PROVE Nearer
  OBVIOUS
<1>1. CASE StartListing
  BY <1>1 DEF StartListing, Nearer, PagesLeft, request
<1>2. CASE NextPage
  BY <1>2 DEF NextPage, Nearer, PagesLeft, request
<1>3. CASE ListFails
  BY <1>3 DEF ListFails, Nearer, IInv, ListingTypeOK
<1> QED
  BY <1>1, <1>2, <1>3, ReadBatchIsNearer DEF List

(* A traversal of BlobArchiveStore.list is bounded, whatever is written in   *)
(* the meantime: every page with a cursor moves it strictly forward, every   *)
(* batch the marker, and the reader is never without a way on.               *)
THEOREM TraversalsAreBounded ==
    Spec => TraversalIsBounded /\ [](FailuresAreCounted /\ BatchIsReadable)
<1>1. IInv /\ Next => [Nearer]_listing
  BY ListIsNearer DEF Next, Put, Send, Created, Exists, Compare, NoAnswer, Fails, Land
<1>2. IInv /\ [Next]_vars => [Nearer]_listing
  BY <1>1 DEF vars
<1>3. Init => FailuresAreCounted
  BY LimitsAssumption DEF Init, FailuresAreCounted
<1>4. IInv /\ FailuresAreCounted /\ [Next]_vars => FailuresAreCounted'
  <2> SUFFICES ASSUME IInv, FailuresAreCounted, [Next]_vars PROVE FailuresAreCounted'
    OBVIOUS
  <2>1. listFailures' = listFailures \/ (listFailures < MaxListFailures /\ listFailures' = listFailures + 1)
    BY DEF Next, Put, Send, Created, Exists, Compare, NoAnswer, Fails, Land, List,
           StartListing, NextPage, ReadBatch, ListFails, listing, vars
  <2> QED
    BY <2>1, LimitsAssumption DEF IInv, ListingTypeOK, FailuresAreCounted
<1> QED
  BY <1>2, <1>3, <1>4, SomeBatchIsReadable, Invariance, PTL DEF Spec, TraversalIsBounded
-----------------------------------------------------------------------------
(* When a traversal ends too early: only on account of an unreadable object. *)

(* The scan limit is looked at behind every readable object, so a page that  *)
(* ran past it did so on one that is not, and nothing ever repairs an object.*)
BlindOnJunk ==
    /\ scanned < MaxScan
    /\ blind => \E n \in Names : ~Readable(n)

(* A loop that reaches the scan limit without leaving ends on Junk.          *)
LEMMA LimitPassedOnJunk ==
    ASSUME IInv, scanned < MaxScan,
           \A n \in Items : ~LeavesAt(n), ~(Scanned(MaxName) < MaxScan)
    PROVE  \E n \in Names : ~Readable(n)
<1>1. Items \subseteq Names
  BY ItemsAreBehind DEF IInv
<1>2. UpTo(Items, MaxName) = Items
  BY <1>1, NamesAreNat DEF UpTo
<1>3. Items # {}
  <2> SUFFICES ASSUME Items = {} PROVE FALSE
    OBVIOUS
  <2>1. Cardinality(UpTo(Items, MaxName)) = 0
    BY <1>2, FS_EmptySet
  <2> QED
    BY <2>1 DEF Scanned, IInv, ListingTypeOK
<1>4. PICK n \in Items : \A m \in Items : m <= n
  BY <1>1, <1>3, LargestName
<1>5. UpTo(Items, n) = UpTo(Items, MaxName)
  BY <1>2, <1>4 DEF UpTo
<1>6. Scanned(n) = Scanned(MaxName)
  BY <1>5 DEF Scanned
<1>7. Scanned(n) \in Nat
  BY ScannedIsNat DEF IInv
<1>8. Scanned(n) >= MaxScan
  BY <1>6, <1>7, LimitsAssumption
<1>9. ~Readable(n)
  BY <1>4, <1>8 DEF LeavesAt
<1> QED
  BY <1>1, <1>4, <1>9

LEMMA NextBlindOnJunk == IInv /\ BlindOnJunk /\ [Next]_vars => BlindOnJunk'
<1> SUFFICES ASSUME IInv, BlindOnJunk, [Next]_vars PROVE BlindOnJunk'
  OBVIOUS
<1>1. \A n \in Names : ~Readable(n) => ~Readable(n)'
  <2>1. \A n \in Names : objects[n] # Nothing => objects'[n] = objects[n]
    BY ObjectsStay DEF IInv, PutsInv
  <2> QED
    BY <2>1, DocumentsAssumption DEF Readable
<1>2. ASSUME scanned' = scanned \/ scanned' = 0, blind' = blind PROVE BlindOnJunk'
  BY <1>1, <1>2, LimitsAssumption DEF BlindOnJunk
<1>3. CASE ReadBatch
  <2>1. ASSUME NEW n \in Items, Return(Found(n), MoreAt(n), n), blind' = blind
        PROVE  BlindOnJunk'
    BY <1>2, <2>1 DEF Return, NextRequest
  <2>2. ASSUME scanned' = Scanned(MaxName), Scanned(MaxName) < MaxScan, blind' = blind
        PROVE  BlindOnJunk'
    BY <1>1, <2>2 DEF BlindOnJunk
  <2>3. ASSUME \A n \in Items : ~LeavesAt(n),
               ~(Scanned(MaxName) < MaxScan /\ NextMarker # 0),
               Return(Found(MaxName), FALSE, 0), blind' = (blind \/ NextMarker # 0)
        PROVE  BlindOnJunk'
    <3>1. scanned' = 0
      BY <2>3 DEF Return, NextRequest
    <3>2. blind' => \E n \in Names : ~Readable(n)
      BY <2>3, LimitPassedOnJunk DEF BlindOnJunk
    <3> QED
      BY <1>1, <3>1, <3>2, LimitsAssumption DEF BlindOnJunk
  <2> QED
    BY <1>3, <2>1, <2>2, <2>3 DEF ReadBatch, pages
<1>4. CASE StartListing \/ NextPage \/ ListFails
  BY <1>2, <1>4 DEF StartListing, NextPage, ListFails, NextRequest, request
<1>5. CASE Land \/ (\E d \in Documents : Put(d)) \/ UNCHANGED vars
  BY <1>2, <1>5 DEF Put, Send, Created, Exists, Compare, NoAnswer, Fails, Land,
                    vars, listing, request
<1> QED
  BY <1>3, <1>4, <1>5 DEF Next, List

(* Where every object can be read, the end of a listing is the end of the    *)
(* archive, as src/archive/README.md promises: BlobArchiveStore.list breaks  *)
(* the promise only for a reader of an archive with an unreadable object.    *)
THEOREM ReadableMeansEnd ==
    Spec => []((\A n \in Names : Readable(n)) => EndMeansEnd)
<1>1. Init => BlindOnJunk
  BY LimitsAssumption DEF Init, BlindOnJunk
<1>2. IInv /\ BlindOnJunk => ((\A n \in Names : Readable(n)) => EndMeansEnd)
  BY DEF IInv, BlindOnJunk, ListingIsComplete, EndMeansEnd
<1> QED
  BY <1>1, <1>2, NextBlindOnJunk, Invariance, PTL DEF Spec
=============================================================================
