-------------------------- MODULE RunScheduleProofs --------------------------
(***************************************************************************)
(* Proofs about RunSchedule, for any number of dispatchers, schedules and  *)
(* edits: an occurrence is claimed once, a young lease is not lost, and    *)
(* two runs overlap only when a lease has expired.                         *)
(***************************************************************************)
EXTENDS RunSchedule, TLAPS, WellFoundedInduction

Claiming == {"preview", "readClaim", "writeClaim"}

(* A claim is decided by a clock that was read not long ago.               *)
ClocksAreRecent ==
    \A d \in Dispatchers :
        /\ clock[d] <= now
        /\ pc[d] \in Claiming => now <= clock[d] + MaxStall

(* A lease is of an occurrence claimed within the lookback.                *)
LeasesAreTimely ==
    \A d \in Dispatchers :
        mine[d] # NoLease => mine[d].at <= mine[d].claimed /\ mine[d].claimed <= mine[d].at + Lookback

(* No two runs are under way for the same occurrence: this is what lets a  *)
(* release tell its own lease by schedule and instant.                     *)
HoldersDiffer ==
    \A d, e \in Dispatchers :
        d # e /\ mine[d] # NoLease /\ mine[e] # NoLease
            => mine[d].key # mine[e].key \/ mine[d].at # mine[e].at

(* Marks are past occurrences of their schedule.                           *)
MarksArePast ==
    \A k \in Schedules : last[k] # 0 => last[k] \in Occurs[k] /\ last[k] <= now

(* What was claimed is marked, and its schedule stands.                    *)
ClaimsAreMarked ==
    \A k \in Schedules, o \in 1..MaxTime :
        claims[<<k, o>>] > 0 => k \in Effective /\ o <= last[k]

IInv == /\ TypeOK
        /\ ClocksAreRecent
        /\ LeasesAreTimely
        /\ HoldersDiffer
        /\ MarksArePast
        /\ ClaimsAreMarked
        /\ RunnerHoldsLease
        /\ ClaimedOnce

-----------------------------------------------------------------------------
(* The latest occurrence.                                                   *)

LEMMA SomeSmallest ==
    ASSUME NEW S, S \subseteq Nat, S # {}
    PROVE  \E n \in S : \A m \in S : n <= m
<1> DEFINE R == {ss \in Nat \X Nat : ss[1] < ss[2]}
<1>1. IsWellFoundedOn(R, Nat)
  BY NatLessThanWellFounded DEF OpToRel
<1>2. PICK n \in S : \A m \in S : <<m, n>> \notin R
  <2> HIDE DEF R
  <2> QED
    BY <1>1, WFMin
<1>3. \A m \in S : ~(m < n)
  BY <1>2
<1> QED
  BY <1>3

LEMMA SomeLargest ==
    ASSUME NEW k \in Nat, NEW S, S \subseteq 0..k, S # {}
    PROVE  \E n \in S : \A m \in S : m <= n
<1> DEFINE T == {i \in Nat : k - i \in S}
<1>1. T # {}
  <2>1. PICK n : n \in S
    OBVIOUS
  <2>2. n \in Nat /\ k - n \in Nat /\ k - (k - n) = n
    BY <2>1
  <2> QED
    BY <2>1, <2>2
<1>2. PICK i \in T : \A j \in T : i <= j
  <2> HIDE DEF T
  <2>1. T \subseteq Nat
    BY DEF T
  <2> QED
    BY <1>1, <2>1, SomeSmallest
<1>3. ASSUME NEW m \in S PROVE m <= k - i
  <2>1. m \in Nat /\ k - m \in Nat /\ k - (k - m) = m
    BY <1>3
  <2>2. k - m \in T
    BY <2>1, <1>3
  <2> QED
    BY <1>2, <2>1, <2>2
<1> QED
  BY <1>2, <1>3

(* Latest is the last occurrence up to a time, if there has been one. *)
LEMMA LatestIsLatest ==
    ASSUME NEW k \in Schedules, NEW t \in 0..MaxTime
    PROVE  /\ Latest(k, t) \in 0..MaxTime
           /\ Latest(k, t) # 0 => /\ Latest(k, t) \in Occurs[k] /\ Latest(k, t) \in 1..MaxTime
                                  /\ Latest(k, t) <= t
           /\ \A o \in Occurs[k] : o <= t => o <= Latest(k, t)
<1> DEFINE past == {o \in Occurs[k] : o <= t}
<1>0. Occurs[k] \subseteq 1..MaxTime /\ MaxTime \in Nat
  BY SchedulesAssumption, NumbersAssumption
<1>1. CASE past = {}
  BY <1>0, <1>1 DEF Latest
<1>2. CASE past # {}
  <2>1. \E n \in past : \A m \in past : m <= n
    <3>1. past \subseteq 0..MaxTime
      BY <1>0
    <3> HIDE DEF past
    <3> QED
      BY <1>0, <1>2, <3>1, SomeLargest
  <2>2. Latest(k, t) = CHOOSE o \in past : \A p \in past : p <= o
    BY <1>2 DEF Latest
  <2>3. Latest(k, t) \in past /\ \A p \in past : p <= Latest(k, t)
    BY <2>1, <2>2
  <2> QED
    BY <1>0, <2>3
<1> QED
  BY <1>1, <1>2

-----------------------------------------------------------------------------

LEMMA InitIInv == Init => IInv
<1> SUFFICES ASSUME Init PROVE IInv
  OBVIOUS
<1>1. TypeOK
  BY NumbersAssumption DEF Init, TypeOK, NoLease, Leases, Steps
<1>2. ClocksAreRecent /\ LeasesAreTimely /\ HoldersDiffer /\ MarksArePast /\ ClaimsAreMarked
  BY DEF Init, ClocksAreRecent, Claiming, LeasesAreTimely, HoldersDiffer, MarksArePast, ClaimsAreMarked
<1>3. RunnerHoldsLease /\ ClaimedOnce
  BY DEF Init, RunnerHoldsLease, ClaimedOnce, Alive
<1> QED
  BY <1>1, <1>2, <1>3 DEF IInv

(* A claim of occurrence o of schedule k: it was due, and is now marked.    *)
ClaimsAt(d, k, o) ==
    /\ o \in 1..MaxTime
    /\ lease' = [key |-> k, at |-> o, claimed |-> clock[d]]
    /\ o <= clock[d] /\ clock[d] <= o + Lookback /\ last[k] < o /\ last'[k] = o
    /\ claims' = [claims EXCEPT ![<<k, o>>] = @ + 1]

(* What a claim leaves behind: it was decided when no young lease was out, *)
(* marks never go back, and it marks what it claims.                       *)
LEMMA ClaimFacts ==
    ASSUME IInv, NEW d \in Dispatchers, NEW k \in Schedules, pc[d] = "writeClaim", Claim(d, k)
    PROVE  /\ \E o \in Occurs[k] : ClaimsAt(d, k, o)
           /\ k \in Effective
           /\ \A e \in Dispatchers : ~Alive(e)
           /\ last' \in [Schedules -> 0..MaxTime]
           /\ \A j \in Schedules : last'[j] = last[j] \/ (last'[j] \in Occurs[j] /\ last'[j] <= clock[d])
           /\ \A j \in Schedules : last[j] <= last'[j]
<1> DEFINE t == clock[d]
           o == Latest(k, t)
<1>0. /\ t \in 0..MaxTime /\ t \in Nat /\ now \in Nat /\ t <= now /\ now <= t + MaxStall
      /\ MaxTime \in Nat /\ Lookback \in Nat /\ LeaseHours \in Nat /\ MaxStall \in Nat
      /\ last \in [Schedules -> 0..MaxTime]
      /\ \A j \in Schedules : Occurs[j] \subseteq 1..MaxTime
  BY NumbersAssumption, SchedulesAssumption DEF IInv, TypeOK, ClocksAreRecent, Claiming
<1>1. /\ k \in Effective /\ o # 0 /\ t <= o + Lookback /\ last[k] < o /\ ~Blocked(t)
      /\ lease' = [key |-> k, at |-> o, claimed |-> t]
      /\ last' = [j \in Schedules |-> IF j \in Effective /\ Latest(j, t) = o THEN o ELSE last[j]]
      /\ claims' = [claims EXCEPT ![<<k, o>>] = @ + 1]
  BY DEF Claim, Earliest, Due
<1>2. o \in Occurs[k] /\ o \in 1..MaxTime /\ o <= t
  BY <1>0, <1>1, LatestIsLatest
<1>3. \A e \in Dispatchers : ~Alive(e)
  <2> SUFFICES ASSUME NEW e \in Dispatchers, Alive(e) PROVE FALSE
    OBVIOUS
  <2>1. lease = mine[e] /\ mine[e] # NoLease /\ now < mine[e].claimed + LeaseHours
    BY DEF IInv, RunnerHoldsLease, Alive
  <2>2. mine[e] \in Leases
    BY DEF IInv, TypeOK
  <2>3. mine[e].claimed \in Nat
    BY <2>1, <2>2, <1>0 DEF Leases
  <2> QED
    BY <1>0, <1>1, <2>1, <2>3 DEF Blocked
<1>4. ASSUME NEW j \in Schedules, j \in Effective, Latest(j, t) = o
      PROVE  o \in Occurs[j] /\ last[j] <= o
  <2>1. o \in Occurs[j] /\ \A p \in Occurs[j] : p <= t => p <= o
    BY <1>0, <1>1, <1>4, LatestIsLatest
  <2>2. last[j] # 0 => last[j] \in Occurs[j] /\ last[j] <= now
    BY DEF IInv, MarksArePast
  <2>3. CASE last[j] > o
    <3>1. last[j] \in Occurs[j] /\ last[j] <= now /\ last[j] \in Nat
      BY <1>0, <1>2, <2>2, <2>3
    <3>2. o + Lookback + MaxStall < last[j]
      BY <2>1, <2>3, <3>1, DailyAssumption
    <3> QED
      BY <1>0, <1>1, <1>2, <3>1, <3>2
  <2> QED
    BY <1>0, <1>2, <2>1, <2>3
<1>5. last' \in [Schedules -> 0..MaxTime]
  BY <1>0, <1>1, <1>2
<1>6. \A j \in Schedules : last'[j] = last[j] \/ (last'[j] \in Occurs[j] /\ last'[j] <= t)
  BY <1>0, <1>1, <1>2, <1>4
<1>7. \A j \in Schedules : last[j] <= last'[j]
  BY <1>0, <1>1, <1>2, <1>4
<1>8. last'[k] = o
  BY <1>1
<1> QED
  BY <1>0, <1>1, <1>2, <1>3, <1>5, <1>6, <1>7, <1>8 DEF ClaimsAt

(* A step of one dispatcher that writes nothing. *)
LEMMA LocalStepKeepsIInv ==
    ASSUME IInv, NEW d \in Dispatchers, NEW s \in Steps, NEW c \in 0..MaxTime,
           NEW a \in 0..(MaxWriteAttempts - 1),
           UNCHANGED <<now, document, claims, edits>>,
           pc' = [pc EXCEPT ![d] = s], clock' = [clock EXCEPT ![d] = c],
           attempt' = [attempt EXCEPT ![d] = a],
           mine' = mine \/ mine' = [mine EXCEPT ![d] = NoLease],
           current' \subseteq Dispatchers,
           c <= now, s \in Claiming => now <= c + MaxStall
    PROVE  IInv'
<1> USE DEF IInv
<1>0. UNCHANGED <<now, times, last, lease, claims, edits>> /\ NoLease \in Leases
  BY DEF document, Leases
<1>1. mine \in [Dispatchers -> Leases] /\ mine' \in [Dispatchers -> Leases]
      /\ \A e \in Dispatchers : mine'[e] = mine[e] \/ mine'[e] = NoLease
  <2>1. mine \in [Dispatchers -> Leases]
    BY DEF TypeOK
  <2>2. CASE mine' = mine
    BY <2>1, <2>2
  <2>3. CASE mine' = [mine EXCEPT ![d] = NoLease]
    BY <2>1, <2>3, <1>0
  <2> QED
    BY <2>1, <2>2, <2>3
<1>2. TypeOK'
  BY <1>0, <1>1 DEF TypeOK
<1>3. ClocksAreRecent'
  BY <1>0 DEF TypeOK, ClocksAreRecent
<1>4. LeasesAreTimely'
  BY <1>1 DEF LeasesAreTimely
<1>5. HoldersDiffer'
  BY <1>1 DEF HoldersDiffer
<1>6. RunnerHoldsLease'
  BY <1>0, <1>1 DEF RunnerHoldsLease, Alive
<1>7. MarksArePast' /\ ClaimsAreMarked' /\ ClaimedOnce'
  BY <1>0 DEF MarksArePast, ClaimsAreMarked, ClaimedOnce, Effective
<1> QED
  BY <1>2, <1>3, <1>4, <1>5, <1>6, <1>7

LEMMA LocalActionsKeepIInv ==
    ASSUME IInv, NEW d \in Dispatchers,
           \/ Start(d) \/ Preview(d) \/ Read(d) \/ EndRun(d) \/ Conflict(d) \/ Die(d)
    PROVE  IInv'
<1>0. /\ pc \in [Dispatchers -> Steps] /\ clock \in [Dispatchers -> 0..MaxTime]
      /\ attempt \in [Dispatchers -> 0..(MaxWriteAttempts - 1)]
      /\ current \subseteq Dispatchers /\ now \in 0..MaxTime
      /\ clock[d] <= now /\ (pc[d] \in Claiming => now <= clock[d] + MaxStall)
      /\ MaxStall \in Nat /\ MaxTime \in Nat /\ MaxWriteAttempts \in Nat /\ MaxWriteAttempts > 0
  BY NumbersAssumption DEF IInv, TypeOK, ClocksAreRecent
<1>1. clock = [clock EXCEPT ![d] = clock[d]] /\ attempt = [attempt EXCEPT ![d] = attempt[d]]
  BY <1>0
<1>2. CASE Start(d)
  <2>1. /\ pc' = [pc EXCEPT ![d] = "preview"] /\ clock' = [clock EXCEPT ![d] = now]
        /\ attempt' = [attempt EXCEPT ![d] = attempt[d]] /\ mine' = mine /\ current' = current
        /\ UNCHANGED <<now, document, claims, edits>>
    BY <1>1, <1>2 DEF Start, Go
  <2>2. "preview" \in Steps /\ now <= now + MaxStall /\ attempt[d] \in 0..(MaxWriteAttempts - 1)
    BY <1>0 DEF Steps
  <2>3. now \in 0..MaxTime /\ now <= now /\ current' \subseteq Dispatchers
    BY <1>0, <2>1
  <2> QED
    BY <2>1, <2>2, <2>3, LocalStepKeepsIInv
<1>3. ASSUME Exit(d), UNCHANGED <<now, document, claims, edits>> PROVE IInv'
  <2>1. /\ pc' = [pc EXCEPT ![d] = "idle"] /\ clock' = [clock EXCEPT ![d] = 0]
        /\ attempt' = [attempt EXCEPT ![d] = 0] /\ mine' = [mine EXCEPT ![d] = NoLease]
        /\ current' \subseteq Dispatchers
    BY <1>0, <1>3 DEF Exit, Go
  <2>2. "idle" \in Steps /\ "idle" \notin Claiming /\ 0 \in 0..MaxTime /\ 0 <= now /\ 0 \in 0..(MaxWriteAttempts - 1)
    BY <1>0 DEF Steps, Claiming
  <2>3. "idle" \in Claiming => now <= 0 + MaxStall
    BY <2>2
  <2>4. UNCHANGED <<now, document, claims, edits>>
    BY <1>3
  <2>5. mine' = mine \/ mine' = [mine EXCEPT ![d] = NoLease]
    BY <2>1
  <2> QED
    BY <2>1, <2>2, <2>3, <2>4, <2>5, LocalStepKeepsIInv
<1>4. ASSUME NEW s \in Steps, Go(d, s), NEW a \in 0..(MaxWriteAttempts - 1),
             attempt' = [attempt EXCEPT ![d] = a], current' \subseteq Dispatchers,
             UNCHANGED <<now, document, claims, edits, clock, mine>>,
             s \in Claiming => pc[d] \in Claiming
      PROVE  IInv'
  <2>1. pc' = [pc EXCEPT ![d] = s] /\ clock' = [clock EXCEPT ![d] = clock[d]] /\ clock[d] \in 0..MaxTime
    BY <1>0, <1>1, <1>4 DEF Go
  <2> QED
    BY <1>0, <1>4, <2>1, LocalStepKeepsIInv
<1>5. CASE Preview(d)
  <2>1. CASE Due(clock[d]) = {}
    BY <1>3, <1>5, <2>1 DEF Preview
  <2>2. CASE Due(clock[d]) # {}
    <3>1. /\ Go(d, "readClaim") /\ "readClaim" \in Steps /\ pc[d] \in Claiming
          /\ attempt' = [attempt EXCEPT ![d] = attempt[d]] /\ attempt[d] \in 0..(MaxWriteAttempts - 1)
          /\ UNCHANGED <<now, document, claims, edits, clock, mine, current>>
      BY <1>0, <1>1, <1>5, <2>2 DEF Preview, Steps, Claiming
    <3> QED
      BY <1>0, <1>4, <3>1
  <2> QED
    BY <2>1, <2>2
<1>6. CASE Read(d) \/ EndRun(d)
  <2>1. /\ attempt' = [attempt EXCEPT ![d] = attempt[d]] /\ attempt[d] \in 0..(MaxWriteAttempts - 1)
        /\ UNCHANGED <<now, document, claims, edits, clock, mine>> /\ current' \subseteq Dispatchers
    BY <1>0, <1>1, <1>6 DEF Read, EndRun
  <2>2. CASE pc[d] = "readClaim" /\ Go(d, "writeClaim")
    <3>1. "writeClaim" \in Steps /\ pc[d] \in Claiming
      BY <2>2 DEF Steps, Claiming
    <3>2. Go(d, "writeClaim")
      BY <2>2
    <3> QED
      BY <1>4, <2>1, <3>1, <3>2
  <2>3. CASE Go(d, "writeRelease")
    <3>1. "writeRelease" \in Steps /\ "writeRelease" \notin Claiming
      BY DEF Steps, Claiming
    <3> QED
      BY <1>4, <2>1, <2>3, <3>1
  <2>4. CASE Go(d, "readRelease")
    <3>1. "readRelease" \in Steps /\ "readRelease" \notin Claiming
      BY DEF Steps, Claiming
    <3> QED
      BY <1>4, <2>1, <2>4, <3>1
  <2> QED
    BY <1>6, <2>2, <2>3, <2>4 DEF Read, EndRun
<1>7. CASE Conflict(d)
  <2>1. CASE attempt[d] + 1 < MaxWriteAttempts
    <3>1. PICK s \in {"readClaim", "readRelease"} : Go(d, s) /\ (s \in Claiming => pc[d] \in Claiming)
      BY <1>7, <2>1 DEF Conflict, Claiming
    <3>2. /\ s \in Steps /\ attempt' = [attempt EXCEPT ![d] = attempt[d] + 1]
          /\ attempt[d] + 1 \in 0..(MaxWriteAttempts - 1)
          /\ UNCHANGED <<now, document, claims, edits, clock, mine, current>>
      BY <1>0, <1>7, <2>1 DEF Conflict, Steps
    <3> QED
      BY <1>0, <1>4, <3>1, <3>2
  <2>2. CASE ~(attempt[d] + 1 < MaxWriteAttempts)
    BY <1>3, <1>7, <2>2 DEF Conflict
  <2> QED
    BY <2>1, <2>2
<1>8. CASE Die(d)
  BY <1>3, <1>8 DEF Die
<1> QED
  BY <1>2, <1>5, <1>6, <1>7, <1>8

(* A claim that is applied, whether or not its caller learns of it and     *)
(* runs under the lease.                                                   *)
LEMMA ClaimKeepsIInv ==
    ASSUME IInv, NEW d \in Dispatchers, NEW k \in Schedules, pc[d] = "writeClaim", Claim(d, k),
           UNCHANGED <<now, edits>>, current' = {}, attempt' = [attempt EXCEPT ![d] = 0],
           \/ Go(d, "running") /\ mine' = [mine EXCEPT ![d] = lease'] /\ clock' = clock
           \/ Go(d, "idle") /\ mine' = mine /\ clock' = [clock EXCEPT ![d] = 0]
    PROVE  IInv'
<1>1. PICK o \in Occurs[k] : ClaimsAt(d, k, o)
  BY ClaimFacts
<1>2. /\ k \in Effective
      /\ \A e \in Dispatchers : ~Alive(e)
      /\ last' \in [Schedules -> 0..MaxTime]
      /\ \A j \in Schedules : last'[j] = last[j] \/ (last'[j] \in Occurs[j] /\ last'[j] <= clock[d])
      /\ \A j \in Schedules : last[j] <= last'[j]
  BY ClaimFacts
<1> USE DEF IInv, ClaimsAt
<1>0. /\ now \in Nat /\ clock \in [Dispatchers -> 0..MaxTime] /\ mine \in [Dispatchers -> Leases]
      /\ pc \in [Dispatchers -> Steps] /\ last \in [Schedules -> 0..MaxTime]
      /\ claims \in [Schedules \X (1..MaxTime) -> Nat]
      /\ clock[d] <= now /\ now <= clock[d] + MaxStall /\ clock[d] \in 0..MaxTime
      /\ Lookback \in Nat /\ LeaseHours \in Nat /\ MaxStall \in Nat /\ MaxTime \in Nat
      /\ MaxWriteAttempts \in Nat /\ MaxWriteAttempts > 0
      /\ Lookback + MaxStall < LeaseHours
  BY NumbersAssumption, DailyAssumption DEF TypeOK, ClocksAreRecent, Claiming
<1>3. times' = times
  BY DEF Claim
<1>4. lease' \in Leases /\ lease' # NoLease
  BY <1>0, <1>1 DEF Leases, NoLease
<1>5. /\ mine' \in [Dispatchers -> Leases]
      /\ \A e \in Dispatchers : mine'[e] = mine[e] \/ (e = d /\ mine'[e] = lease')
  BY <1>0, <1>4
<1>6. TypeOK'
  <2>1. pc' \in [Dispatchers -> Steps] /\ clock' \in [Dispatchers -> 0..MaxTime]
        /\ attempt' \in [Dispatchers -> 0..(MaxWriteAttempts - 1)]
    BY <1>0 DEF TypeOK, Go, Steps
  <2>2. claims' \in [Schedules \X (1..MaxTime) -> Nat]
    BY <1>0, <1>1
  <2> QED
    BY <1>2, <1>3, <1>4, <1>5, <2>1, <2>2 DEF TypeOK
<1>7. ClocksAreRecent'
  BY <1>0 DEF ClocksAreRecent, Claiming, Go
<1>8. LeasesAreTimely'
  BY <1>0, <1>1, <1>5 DEF LeasesAreTimely
<1>9. HoldersDiffer'
  <2> SUFFICES ASSUME NEW e \in Dispatchers, NEW f \in Dispatchers, e # f, mine'[e] # NoLease, mine'[f] # NoLease,
                      mine'[e].key = mine'[f].key, mine'[e].at = mine'[f].at
               PROVE  FALSE
    BY DEF HoldersDiffer
  <2>1. ASSUME NEW g \in Dispatchers, mine[g] # NoLease, mine[g].at = o PROVE FALSE
    <3>1. mine[g].claimed \in Nat /\ o <= mine[g].claimed
      BY <1>0, <2>1 DEF Leases, LeasesAreTimely, NoLease
    <3>2. ~(now < mine[g].claimed + LeaseHours)
      BY <1>2, <2>1 DEF Alive
    <3> QED
      BY <1>0, <1>1, <3>1, <3>2
  <2>2. lease'.at = o
    BY <1>1
  <2>3. ~(mine'[e] = mine[e] /\ mine'[f] = mine[f])
    BY DEF HoldersDiffer
  <2> QED
    BY <1>5, <2>1, <2>2, <2>3
<1>10. MarksArePast'
  <2> SUFFICES ASSUME NEW j \in Schedules, last'[j] # 0 PROVE last'[j] \in Occurs[j] /\ last'[j] <= now
    BY DEF MarksArePast
  <2>1. last'[j] \in 0..MaxTime
    BY <1>2
  <2> QED
    BY <1>0, <1>2, <2>1 DEF MarksArePast
<1>11. ClaimsAreMarked'
  <2> SUFFICES ASSUME NEW j \in Schedules, NEW p \in 1..MaxTime, claims'[<<j, p>>] > 0
               PROVE  j \in Effective /\ p <= last'[j]
    BY <1>3 DEF ClaimsAreMarked, Effective
  <2>1. CASE j = k /\ p = o
    BY <1>1, <1>2, <2>1
  <2>2. CASE ~(j = k /\ p = o)
    <3>1. claims'[<<j, p>>] = claims[<<j, p>>]
      BY <1>0, <1>1, <2>2
    <3>2. j \in Effective /\ p <= last[j] /\ last[j] <= last'[j]
      BY <1>2, <3>1 DEF ClaimsAreMarked
    <3> QED
      BY <1>0, <1>2, <3>2
  <2> QED
    BY <2>1, <2>2
<1>12. RunnerHoldsLease'
  <2> SUFFICES ASSUME NEW e \in Dispatchers, mine'[e] # NoLease, now < mine'[e].claimed + LeaseHours
               PROVE  lease' = mine'[e]
    BY DEF RunnerHoldsLease, Alive
  <2> QED
    BY <1>2, <1>5 DEF Alive
<1>13. ClaimedOnce'
  <2> SUFFICES ASSUME NEW j \in Schedules, NEW p \in 1..MaxTime PROVE claims'[<<j, p>>] <= 1
    BY <1>3 DEF ClaimedOnce
  <2>1. CASE j = k /\ p = o
    <3>1. ~(claims[<<k, o>>] > 0)
      BY <1>0, <1>1, <1>2, <2>1 DEF ClaimsAreMarked
    <3>2. claims[<<k, o>>] = 0 /\ claims'[<<k, o>>] = claims[<<k, o>>] + 1
      BY <1>0, <1>1, <3>1
    <3> QED
      BY <2>1, <3>2
  <2>2. CASE ~(j = k /\ p = o)
    <3>1. claims'[<<j, p>>] = claims[<<j, p>>]
      BY <1>0, <1>1, <2>2
    <3> QED
      BY <3>1 DEF ClaimedOnce
  <2> QED
    BY <2>1, <2>2
<1> QED
  BY <1>6, <1>7, <1>8, <1>9, <1>10, <1>11, <1>12, <1>13

LEMMA ReleaseKeepsIInv ==
    ASSUME IInv, NEW d \in Dispatchers, WriteRelease(d)
    PROVE  IInv'
<1> USE DEF IInv
<1>0. /\ UNCHANGED <<now, times, last, claims, edits>> /\ NoLease \in Leases
      /\ mine \in [Dispatchers -> Leases] /\ mine' = [mine EXCEPT ![d] = NoLease]
      /\ lease' = IF lease.key = mine[d].key /\ lease.at = mine[d].at THEN NoLease ELSE lease
      /\ clock' = [clock EXCEPT ![d] = 0] /\ pc' = [pc EXCEPT ![d] = "idle"]
      /\ attempt' = [attempt EXCEPT ![d] = 0] /\ current' = {}
  BY DEF WriteRelease, Go, TypeOK, Leases
<1>1. \A e \in Dispatchers : e # d => mine'[e] = mine[e]
  BY <1>0
<1>2. mine'[d] = NoLease
  BY <1>0
<1>3. TypeOK'
  BY <1>0, NumbersAssumption DEF TypeOK, Steps
<1>4. ClocksAreRecent'
  BY <1>0, NumbersAssumption DEF TypeOK, ClocksAreRecent, Claiming
<1>5. LeasesAreTimely' /\ HoldersDiffer'
  BY <1>1, <1>2 DEF LeasesAreTimely, HoldersDiffer
<1>6. MarksArePast' /\ ClaimsAreMarked' /\ ClaimedOnce'
  BY <1>0 DEF MarksArePast, ClaimsAreMarked, ClaimedOnce, Effective
<1>7. RunnerHoldsLease'
  <2> SUFFICES ASSUME NEW e \in Dispatchers, mine'[e] # NoLease, now < mine'[e].claimed + LeaseHours
               PROVE  lease' = mine'[e]
    BY <1>0 DEF RunnerHoldsLease, Alive
  <2>1. e # d /\ mine'[e] = mine[e] /\ lease = mine[e] /\ mine[e] # NoLease
    BY <1>1, <1>2 DEF RunnerHoldsLease, Alive
  <2>2. CASE mine[d] # NoLease
    <3>1. ~(lease.key = mine[d].key /\ lease.at = mine[d].at)
      BY <2>1, <2>2 DEF HoldersDiffer
    <3> QED
      BY <1>0, <2>1, <3>1
  <2>3. CASE mine[d] = NoLease
    <3>1. lease.at # 0
      BY <1>0, <2>1 DEF Leases, NoLease
    <3>2. mine[d].at = 0
      BY <2>3 DEF NoLease
    <3> QED
      BY <1>0, <2>1, <3>1, <3>2
  <2> QED
    BY <2>2, <2>3
<1> QED
  BY <1>3, <1>4, <1>5, <1>6, <1>7

LEMMA WorldKeepsIInv ==
    ASSUME IInv, Tick \/ EditElsewhere \/ \E k \in Managed : AddTime(k) \/ RemoveTime(k)
    PROVE  IInv'
<1> USE DEF IInv
<1>1. CASE Tick
  <2>0. /\ UNCHANGED <<times, last, lease, current, pc, clock, attempt, mine, claims, edits>>
        /\ now < MaxTime /\ now' = now + 1 /\ now \in Nat /\ MaxTime \in Nat
        /\ \A d \in Dispatchers : pc[d] \in Claiming => now' <= clock[d] + MaxStall
        /\ mine \in [Dispatchers -> Leases] /\ LeaseHours \in Nat
    BY <1>1, NumbersAssumption DEF Tick, document, local, Claiming, TypeOK
  <2>1. TypeOK'
    BY <2>0 DEF TypeOK
  <2>2. ClocksAreRecent'
    BY <2>0 DEF ClocksAreRecent, TypeOK
  <2>3. LeasesAreTimely' /\ HoldersDiffer' /\ ClaimsAreMarked' /\ ClaimedOnce'
    BY <2>0 DEF LeasesAreTimely, HoldersDiffer, ClaimsAreMarked, ClaimedOnce, Effective
  <2>4. MarksArePast'
    BY <2>0 DEF MarksArePast, TypeOK
  <2>5. RunnerHoldsLease'
    <3> SUFFICES ASSUME NEW e \in Dispatchers, mine[e] # NoLease, now + 1 < mine[e].claimed + LeaseHours
                 PROVE  lease = mine[e]
      BY <2>0 DEF RunnerHoldsLease, Alive
    <3>1. mine[e] \in Leases /\ mine[e].claimed \in Nat
      BY <2>0 DEF Leases
    <3> QED
      BY <2>0, <3>1 DEF RunnerHoldsLease, Alive
  <2> QED
    BY <2>1, <2>2, <2>3, <2>4, <2>5
<1>2. ASSUME NEW k \in Managed, AddTime(k) PROVE IInv'
  <2>0. /\ UNCHANGED <<now, last, lease, pc, clock, attempt, mine, claims>>
        /\ times' = times \cup {k} /\ current' = {} /\ edits' = edits + 1 /\ edits < MaxEdits
    BY <1>2 DEF AddTime, local
  <2>1. TypeOK'
    BY <2>0, NumbersAssumption DEF TypeOK
  <2>2. ClocksAreRecent' /\ LeasesAreTimely' /\ HoldersDiffer' /\ MarksArePast' /\ RunnerHoldsLease'
    BY <2>0 DEF ClocksAreRecent, LeasesAreTimely, HoldersDiffer, MarksArePast, RunnerHoldsLease, Alive
  <2>3. ClaimsAreMarked' /\ ClaimedOnce'
    BY <2>0 DEF ClaimsAreMarked, ClaimedOnce, Effective
  <2> QED
    BY <2>1, <2>2, <2>3
<1>3. ASSUME NEW k \in Managed, RemoveTime(k) PROVE IInv'
  <2>0. /\ UNCHANGED <<now, lease, pc, clock, attempt, mine>>
        /\ times' = times \ {k} /\ last' = [last EXCEPT ![k] = 0] /\ current' = {} /\ edits' = edits + 1 /\ edits < MaxEdits
        /\ last \in [Schedules -> 0..MaxTime] /\ k \in Schedules /\ 0 \in 0..MaxTime
    BY <1>3, NumbersAssumption DEF RemoveTime, local, TypeOK, Schedules
  <2>1. claims' = [c \in Schedules \X (1..MaxTime) |-> IF c[1] = k THEN 0 ELSE claims[c]]
        /\ claims \in [Schedules \X (1..MaxTime) -> Nat]
    BY <1>3 DEF RemoveTime, TypeOK
  <2>2. \A j \in Schedules, o \in 1..MaxTime : claims'[<<j, o>>] = IF j = k THEN 0 ELSE claims[<<j, o>>]
    BY <2>1
  <2>3. TypeOK'
    <3>1. claims' \in [Schedules \X (1..MaxTime) -> Nat]
      BY <2>1
    <3>2. last' \in [Schedules -> 0..MaxTime] /\ times' \subseteq Managed
      BY <2>0 DEF TypeOK
    <3>3. edits' \in 0..MaxEdits /\ current' \subseteq Dispatchers
      BY <2>0, NumbersAssumption DEF TypeOK
    <3> QED
      BY <2>0, <3>1, <3>2, <3>3 DEF TypeOK
  <2>4. ClocksAreRecent' /\ LeasesAreTimely' /\ HoldersDiffer' /\ RunnerHoldsLease'
    BY <2>0 DEF ClocksAreRecent, LeasesAreTimely, HoldersDiffer, RunnerHoldsLease, Alive
  <2>5. ClaimedOnce'
    BY <2>2 DEF ClaimedOnce
  <2>6. MarksArePast'
    BY <2>0 DEF MarksArePast
  <2>7. ClaimsAreMarked'
    <3>1. \A j \in Schedules : j # k => (j \in Effective => j \in Effective') /\ last'[j] = last[j]
      BY <2>0 DEF Effective
    <3> QED
      BY <2>2, <3>1 DEF ClaimsAreMarked
  <2> QED
    BY <2>3, <2>4, <2>5, <2>6, <2>7
<1>4. CASE EditElsewhere
  <2>0. /\ UNCHANGED <<now, times, last, lease, pc, clock, attempt, mine, claims>>
        /\ current' = {} /\ edits' = edits + 1 /\ edits < MaxEdits
    BY <1>4 DEF EditElsewhere, document, local
  <2>1. TypeOK'
    BY <2>0, NumbersAssumption DEF TypeOK
  <2>2. /\ ClocksAreRecent' /\ LeasesAreTimely' /\ HoldersDiffer' /\ MarksArePast'
        /\ RunnerHoldsLease' /\ ClaimsAreMarked' /\ ClaimedOnce'
    BY <2>0 DEF ClocksAreRecent, LeasesAreTimely, HoldersDiffer, MarksArePast, RunnerHoldsLease, Alive,
                ClaimsAreMarked, ClaimedOnce, Effective
  <2> QED
    BY <2>1, <2>2
<1> QED
  BY <1>1, <1>2, <1>3, <1>4

LEMMA NextIInv == IInv /\ [Next]_vars => IInv'
<1> SUFFICES ASSUME IInv, [Next]_vars PROVE IInv'
  OBVIOUS
<1>1. CASE Tick \/ EditElsewhere \/ \E k \in Managed : AddTime(k) \/ RemoveTime(k)
  BY <1>1, WorldKeepsIInv
<1>2. ASSUME NEW d \in Dispatchers, Start(d) \/ Preview(d) \/ Read(d) \/ EndRun(d) \/ Conflict(d) \/ Die(d)
      PROVE  IInv'
  BY <1>2, LocalActionsKeepIInv
<1>3. ASSUME NEW d \in Dispatchers, WriteClaim(d) PROVE IInv'
  <2>1. CASE \E k \in Schedules : Claim(d, k) /\ Go(d, "running") /\ mine' = [mine EXCEPT ![d] = lease']
                                   /\ attempt' = [attempt EXCEPT ![d] = 0] /\ current' = {} /\ clock' = clock
    BY <1>3, <2>1, ClaimKeepsIInv DEF WriteClaim
  <2>2. CASE /\ Go(d, "idle") /\ clock' = [clock EXCEPT ![d] = 0] /\ attempt' = [attempt EXCEPT ![d] = 0]
             /\ current' = {} /\ UNCHANGED <<document, mine, claims>>
    <3>1. /\ "idle" \in Steps /\ 0 \in 0..MaxTime /\ 0 \in 0..(MaxWriteAttempts - 1) /\ 0 <= now
          /\ "idle" \notin Claiming
      BY NumbersAssumption DEF Steps, Claiming, IInv, TypeOK
    <3>2. pc' = [pc EXCEPT ![d] = "idle"] /\ mine' = mine /\ current' \subseteq Dispatchers
          /\ UNCHANGED <<now, document, claims, edits>>
      BY <1>3, <2>2 DEF WriteClaim, Go
    <3>3. "idle" \in Claiming => now <= 0 + MaxStall
      BY <3>1
    <3> QED
      BY <2>2, <3>1, <3>2, <3>3, LocalStepKeepsIInv
  <2> QED
    BY <1>3, <2>1, <2>2 DEF WriteClaim
<1>4. ASSUME NEW d \in Dispatchers, LoseReply(d) PROVE IInv'
  <2>1. PICK k \in Schedules : Claim(d, k)
    BY <1>4 DEF LoseReply
  <2> QED
    BY <1>4, <2>1, ClaimKeepsIInv DEF LoseReply
<1>5. ASSUME NEW d \in Dispatchers, WriteRelease(d) PROVE IInv'
  BY <1>5, ReleaseKeepsIInv
<1>6. CASE UNCHANGED vars
  BY <1>6 DEF vars, document, local, IInv, TypeOK, ClocksAreRecent, LeasesAreTimely, HoldersDiffer,
              MarksArePast, ClaimsAreMarked, RunnerHoldsLease, ClaimedOnce, Alive, Effective
<1> QED
  BY <1>1, <1>2, <1>3, <1>4, <1>5, <1>6 DEF Next, Dispatch

-----------------------------------------------------------------------------

(* Clocks, leases, holders, marks and counts of claims fit together in     *)
(* every behaviour.                                                        *)
THEOREM Invariance == Spec => []IInv
  BY InitIInv, NextIInv, PTL DEF Spec

(* The types hold in every behaviour: no write is tried more often than    *)
(* _MAX_WRITE_ATTEMPTS, and leases name occurrences.                       *)
THEOREM TypeCorrect == Spec => []TypeOK
<1>1. IInv => TypeOK
  BY DEF IInv
<1> QED
  BY <1>1, Invariance, PTL

(* No occurrence is claimed twice unless its run time was removed in       *)
(* between, for any number of dispatchers, schedules and edits.            *)
THEOREM OccurrencesAreClaimedOnce == Spec => []ClaimedOnce
<1>1. IInv => ClaimedOnce
  BY DEF IInv
<1> QED
  BY <1>1, Invariance, PTL

(* A young lease is the one in the document, whoever claims, releases and  *)
(* edits meanwhile.                                                        *)
THEOREM YoungLeasesAreKept == Spec => []RunnerHoldsLease
<1>1. IInv => RunnerHoldsLease
  BY DEF IInv
<1> QED
  BY <1>1, Invariance, PTL

(* Runs overlap only when the lease of one has expired.                    *)
THEOREM RunsDoNotOverlap == Spec => []NoOverlap
<1>1. IInv => NoOverlap
  <2> SUFFICES ASSUME IInv, NEW d \in Dispatchers, NEW e \in Dispatchers, d # e, Alive(d), Alive(e)
               PROVE  FALSE
    BY DEF NoOverlap
  <2>1. mine[d] = mine[e]
    BY DEF IInv, RunnerHoldsLease
  <2> QED
    BY <2>1 DEF IInv, HoldersDiffer, Alive
<1> QED
  BY <1>1, Invariance, PTL

(* No claim sets a schedule's mark back, however old the clock it was      *)
(* decided by.                                                             *)
THEOREM MarksOnlyForward == Spec => LastOnlyForward
<1>1. IInv /\ [Next]_vars => [\A k \in Deployed \cup (times \cap times') : last'[k] >= last[k]]_vars
  <2> SUFFICES ASSUME IInv, [Next]_vars, NEW k \in Deployed \cup (times \cap times')
               PROVE  last'[k] >= last[k]
    OBVIOUS
  <2>0. last \in [Schedules -> 0..MaxTime] /\ k \in Schedules /\ MaxTime \in Nat
    BY NumbersAssumption DEF IInv, TypeOK, Schedules
  <2>1. CASE UNCHANGED last
    BY <2>0, <2>1
  <2>2. ASSUME NEW d \in Dispatchers, NEW j \in Schedules, pc[d] = "writeClaim", Claim(d, j)
        PROVE  last'[k] >= last[k]
    <3>1. last' \in [Schedules -> 0..MaxTime] /\ last[k] <= last'[k]
      BY <2>0, <2>2, ClaimFacts
    <3> QED
      BY <2>0, <3>1
  <2>3. ASSUME NEW j \in Managed, RemoveTime(j) PROVE last'[k] >= last[k]
    <3>1. k # j /\ last' = [last EXCEPT ![j] = 0]
      BY <2>3, SchedulesAssumption DEF RemoveTime
    <3> QED
      BY <2>0, <3>1
  <2>4. \/ UNCHANGED last
        \/ \E j \in Managed : RemoveTime(j)
        \/ \E d \in Dispatchers, j \in Schedules : pc[d] = "writeClaim" /\ Claim(d, j)
    BY DEF Next, Dispatch, Tick, EditElsewhere, AddTime, Start, Preview, Read, WriteClaim, LoseReply, EndRun, WriteRelease,
           Conflict, Die, document, vars
  <2> QED
    BY <2>1, <2>2, <2>3, <2>4
<1> QED
  BY <1>1, Invariance, PTL DEF Spec, LastOnlyForward
=============================================================================
