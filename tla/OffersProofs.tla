---------------------------- MODULE OffersProofs ----------------------------
(***************************************************************************)
(* Proofs about the parts of MCOffers, for any limit, window, cool-off and *)
(* number of appointments, requests, PUTs, lookups, weekdays and dates,    *)
(* and any calendar, working week, change of the clocks and busy times:    *)
(* their type invariants, that nobody is admitted within the cool-off,     *)
(* that the time a refusal names is late enough, that the hours in effect  *)
(* are those of one PUT, that a lookup excludes the dates that stay marked *)
(* while it runs, and that the slots offered are the free ones and         *)
(* acceptable.                                                             *)
(***************************************************************************)
EXTENDS MCOffers, LiveViewsProofs, FiniteSetTheorems, WellFoundedInduction, TLAPS

----------------------------------------------------------------------------
(* The limit on cancellations.                                             *)

(* The inductive invariant.                                                *)

(* A cancellation that could still count was open when the request         *)
(* counted, or began no earlier than the request.                          *)
Later(b) ==
  booking[b].step = "admitted" =>
    \A a \in Appts : cancelling[a] # None => a \in unseen[b] \/ cancelling[a] >= booking[b].now

(* The cool-off of what a refusal counted ends no later than it says.      *)
Named(b) ==
  booking[b].step = "refused" =>
    \A a \in seen[b] : /\ cancelled[a] # None
                       /\ cancelled[a] + WindowLength >= booking[b].now =>
                            cancelled[a] + Cooloff <= booking[b].retry

(* What counts against an admitted request.                                *)
Counted(b) ==
  {a \in Appts \ unseen[b] : /\ cancelled[a] # None /\ cancelled[a] < booking[b].now
                             /\ cancelled[a] + WindowLength >= booking[b].now}

Admissible(b) ==
  booking[b].step = "admitted" =>
    \/ MaxCancellations = 0
    \/ Cardinality(Counted(b)) < MaxCancellations
    \/ \A a \in Counted(b) : cancelled[a] + Cooloff <= booking[b].now

LimitIInv ==
  /\ LimitTypeOK
  /\ \A a \in Appts : cancelling[a] # None => cancelling[a] <= now /\ cancelled[a] = None
  /\ \A b \in Bookings : booking[b].now # None => booking[b].now <= now
  /\ \A b \in Bookings : Later(b) /\ Named(b) /\ Admissible(b)

----------------------------------------------------------------------------
(* Lemmas about the operators.                                             *)

(* A set of times has a last one.                                          *)
LEMMA LastTime ==
  ASSUME NEW S \in SUBSET Times, S # {}
  PROVE  Max(S) \in S /\ \A x \in S : Max(S) >= x
<1> DEFINE T == {MaxTime - x : x \in S}
<1>1. T \subseteq Nat /\ T # {}
  BY BookingLimitAssumption DEF Times
<1>2. PICK m \in T : \A n \in T : ~ (<<n, m>> \in OpToRel(<, Nat))
  BY <1>1, NatLessThanWellFounded, WFMin
<1>3. \A n \in T : ~(n < m)
  BY <1>1, <1>2 DEF OpToRel
<1>4. PICK x \in S : m = MaxTime - x
  BY <1>2
<1>5. \A y \in S : x >= y
  BY <1>3, <1>4, BookingLimitAssumption DEF Times
<1> QED BY <1>4, <1>5 DEF Max

(* Booking reopens when the cool-off of every cancellation of the window   *)
(* has ended, and no later.                                                *)
LEMMA ReopensAfterAll ==
  ASSUME LimitTypeOK, NEW t \in Times
  PROVE  /\ ReopensAt(t) \in Nat
         /\ ReopensAt(t) = t \/ ReopensAt(t) <= MaxTime + Cooloff
         /\ \A a \in Appts : cancelled[a] # None /\ cancelled[a] + WindowLength >= t =>
              cancelled[a] + Cooloff <= ReopensAt(t)
         /\ \A m \in Nat :
              /\ t <= m
              /\ \A a \in Appts : cancelled[a] # None /\ cancelled[a] + WindowLength >= t =>
                   cancelled[a] + Cooloff <= m
              => ReopensAt(t) <= m
<1> DEFINE S == CancellationsSince(t - WindowLength)
<1>1. /\ t \in Nat /\ WindowLength \in Nat /\ Cooloff \in Nat /\ MaxTime \in Nat
      /\ \A a \in Appts : cancelled[a] \in Times \cup {None}
      /\ \A x \in Times : x \in Nat /\ x <= MaxTime
  BY BookingLimitAssumption DEF LimitTypeOK, Times
<1>2. /\ \A a \in Appts : cancelled[a] # None /\ cancelled[a] + WindowLength >= t =>
           cancelled[a] \in S
      /\ \A x \in S : \E a \in Appts : /\ cancelled[a] # None /\ x = cancelled[a]
                                       /\ cancelled[a] + WindowLength >= t
      /\ S \in SUBSET Times
  <2>1. ASSUME NEW a \in Appts, cancelled[a] # None
        PROVE  /\ cancelled[a] \in Times
               /\ (cancelled[a] >= t - WindowLength) <=> (cancelled[a] + WindowLength >= t)
    <3>1. cancelled[a] \in Times /\ cancelled[a] \in Nat
      BY <1>1, <2>1
    <3>2. t \in Nat /\ WindowLength \in Nat
      BY <1>1
    <3> QED BY <3>1, <3>2
  <2> DEFINE C == {x \in Appts : cancelled[x] # None /\ cancelled[x] >= t - WindowLength}
  <2>2. S = {cancelled[a] : a \in C}
    BY DEF CancellationsSince
  <2>3. \A a : a \in C <=> /\ a \in Appts /\ cancelled[a] # None
                           /\ cancelled[a] + WindowLength >= t
    BY <2>1
  <2>4. \A a \in C : a \in Appts /\ cancelled[a] \in Times
    BY <2>1
  <2> HIDE DEF C, S
  <2> QED BY <2>2, <2>3, <2>4
<1>3. ReopensAt(t) = IF S = {} THEN t ELSE Max(S) + Cooloff
  BY DEF ReopensAt
<1> HIDE DEF S
<1>4. CASE S = {}
  BY <1>1, <1>2, <1>3, <1>4
<1>5. CASE S # {}
  <2>1. Max(S) \in S /\ \A x \in S : Max(S) >= x
    BY <1>2, <1>5, LastTime
  <2>2. Max(S) \in Nat /\ Max(S) <= MaxTime /\ ReopensAt(t) = Max(S) + Cooloff
    BY <1>1, <1>2, <1>3, <1>5, <2>1
  <2>3. ASSUME NEW a \in Appts, cancelled[a] # None, cancelled[a] + WindowLength >= t
        PROVE  cancelled[a] + Cooloff <= ReopensAt(t)
    <3>1. cancelled[a] \in Nat /\ Max(S) >= cancelled[a]
      BY <1>1, <1>2, <2>1, <2>3
    <3> QED BY <1>1, <2>2, <3>1
  <2>4. PICK a \in Appts : /\ cancelled[a] # None /\ Max(S) = cancelled[a]
                           /\ cancelled[a] + WindowLength >= t
    BY <1>2, <2>1
  <2> QED BY <1>1, <2>2, <2>3, <2>4
<1> QED BY <1>4, <1>5

(* The two statements of the property.                                     *)
LEMMA AdmissibleMeans == (\A b \in Bookings : Admissible(b)) <=> AdmittedOnlyUnderTheLimit
<1>1. ASSUME NEW b \in Bookings
      PROVE  Counted(b) = {a \in Appts : cancelled[a] # None /\ cancelled[a] < booking[b].now
                                          /\ cancelled[a] + WindowLength >= booking[b].now}
                          \ unseen[b]
  BY DEF Counted
<1> QED BY <1>1 DEF Admissible, AdmittedOnlyUnderTheLimit

----------------------------------------------------------------------------
(* Steps.                                                                  *)

(* A step of the clock or of a cancellation leaves the requests alone.     *)
LEMMA CancellationStep ==
  ASSUME LimitIInv, UNCHANGED <<booking, seen, unseen>>,
         now' \in Times, now' >= now,
         cancelled' \in [Appts -> Times \cup {None}],
         cancelling' \in [Appts -> Times \cup {None}],
         \A a \in Appts : cancelling'[a] # None => /\ cancelling'[a] \in {cancelling[a], now}
                                                   /\ cancelling'[a] <= now'
                                                   /\ cancelled'[a] = None,
         \A a \in Appts : \/ cancelled'[a] = cancelled[a]
                          \/ /\ cancelled[a] = None /\ cancelling[a] # None
                             /\ cancelled'[a] = cancelling[a]
  PROVE  LimitIInv'
<1>1. /\ booking \in [Bookings -> Booking]
      /\ seen \in [Bookings -> SUBSET Appts] /\ unseen \in [Bookings -> SUBSET Appts]
      /\ now \in Nat /\ now' \in Nat
      /\ \A b \in Bookings : booking[b].now # None => booking[b].now \in Nat
      /\ \A a \in Appts : cancelling[a] # None => cancelling[a] \in Nat
      /\ \A b \in Bookings : booking[b].step # "idle" <=> booking[b].now # None
  BY DEF LimitIInv, LimitTypeOK, Times, Booking
<1>2. LimitTypeOK'
  BY DEF LimitIInv, LimitTypeOK
<1>3. \A b \in Bookings : booking[b].now # None => booking[b].now <= now
  BY DEF LimitIInv
<1>4. ASSUME NEW b \in Bookings PROVE booking'[b].now # None => booking'[b].now <= now'
  BY <1>1, <1>3
<1>5. ASSUME NEW b \in Bookings PROVE Later(b)'
  <2> SUFFICES ASSUME booking[b].step = "admitted", NEW a \in Appts, cancelling'[a] # None,
                      a \notin unseen[b]
               PROVE  cancelling'[a] >= booking[b].now
    BY DEF Later
  <2>1. CASE cancelling'[a] = cancelling[a]
    BY <2>1 DEF LimitIInv, Later
  <2>2. CASE cancelling'[a] = now
    BY <1>1, <1>3, <2>2
  <2> QED BY <2>1, <2>2
<1>6. ASSUME NEW b \in Bookings PROVE Named(b)'
  <2>1. \A a \in seen[b] : a \in Appts
    BY <1>1
  <2> QED BY <2>1 DEF LimitIInv, Named
<1>7. ASSUME NEW b \in Bookings PROVE Admissible(b)'
  <2> SUFFICES ASSUME booking[b].step = "admitted"
               PROVE  Admissible(b)'
    BY DEF Admissible
  <2>1. ASSUME NEW a \in Appts \ unseen[b], cancelled'[a] # cancelled[a]
        PROVE  cancelled[a] = None /\ ~(cancelled'[a] < booking[b].now)
    <3>1. cancelled[a] = None /\ cancelled'[a] = cancelling[a] /\ cancelling[a] # None
      BY <2>1
    <3>2. cancelling[a] >= booking[b].now
      BY <2>1, <3>1 DEF LimitIInv, Later
    <3> QED BY <1>1, <3>1, <3>2
  <2>2. Counted(b)' = Counted(b)
    BY <2>1 DEF Counted
  <2>3. \A a \in Counted(b) : cancelled'[a] = cancelled[a]
    BY <2>1 DEF Counted
  <2>4. Admissible(b)
    BY DEF LimitIInv
  <2> QED BY <2>2, <2>3, <2>4 DEF Admissible
<1>8. \A a \in Appts : cancelling'[a] # None => cancelling'[a] <= now' /\ cancelled'[a] = None
  OBVIOUS
<1> QED BY <1>2, <1>4, <1>5, <1>6, <1>7, <1>8 DEF LimitIInv

LEMMA BookStep ==
  ASSUME LimitIInv, NEW b \in Bookings, Book(b)
  PROVE  LimitIInv'
<1> DEFINE r == [step |-> "counting", now |-> now, retry |-> None]
<1>1. /\ r \in Booking
      /\ now \in Times /\ now <= now /\ now # None
  BY BookingLimitAssumption DEF Booking, LimitIInv, LimitTypeOK, Times
<1>2. /\ booking' \in [Bookings -> Booking]
      /\ booking'[b] = r
      /\ \A u \in Bookings \ {b} : booking'[u] = booking[u]
      /\ UNCHANGED <<now, cancelled, cancelling, seen, unseen>>
  BY <1>1 DEF Book, LimitIInv, LimitTypeOK
<1>3. LimitTypeOK'
  BY <1>1, <1>2 DEF LimitIInv, LimitTypeOK
<1>4. ASSUME NEW u \in Bookings PROVE Later(u)' /\ Named(u)' /\ Admissible(u)'
  <2>1. CASE u = b
    BY <1>2, <2>1 DEF Later, Named, Admissible
  <2>2. CASE u # b
    <3>1. booking'[u] = booking[u] /\ Later(u) /\ Named(u) /\ Admissible(u)
      BY <1>2, <2>2 DEF LimitIInv
    <3>2. Counted(u)' = Counted(u)
      BY <1>2, <3>1 DEF Counted
    <3> QED BY <1>2, <3>1, <3>2 DEF Later, Named, Admissible
  <2> QED BY <2>1, <2>2
<1> QED BY <1>1, <1>2, <1>3, <1>4 DEF LimitIInv

(* What is read when a request is counted.                                 *)
LEMMA GuardStep ==
  ASSUME LimitIInv, NEW b \in Bookings, Guard(b)
  PROVE  LimitIInv'
<1> DEFINE t == booking[b].now
           retry == IF MaxCancellations = 0 THEN None ELSE BlockedUntil(t)
           r == [step |-> IF retry = None THEN "admitted" ELSE "refused",
                 now |-> t, retry |-> retry]
           S == {a \in Appts : cancelled[a] # None}
           U == {a \in Appts : cancelling[a] # None}
<1>1. t \in Times /\ t # None /\ t <= now
  BY DEF Guard, LimitIInv, LimitTypeOK, Booking
<1>2. /\ t \in Nat /\ WindowLength \in Nat /\ Cooloff \in Nat /\ MaxTime \in Nat
      /\ \A a \in Appts : cancelled[a] # None => cancelled[a] \in Nat
      /\ None \notin 1..MaxTime + Cooloff
  BY <1>1, BookingLimitAssumption DEF LimitIInv, LimitTypeOK, Times
<1>3. /\ ReopensAt(t) \in Nat
      /\ ReopensAt(t) = t \/ ReopensAt(t) <= MaxTime + Cooloff
      /\ \A a \in Appts : cancelled[a] # None /\ cancelled[a] + WindowLength >= t =>
           cancelled[a] + Cooloff <= ReopensAt(t)
  BY <1>1, ReopensAfterAll DEF LimitIInv
<1>4. /\ booking' = [booking EXCEPT ![b] = r]
      /\ seen' = [seen EXCEPT ![b] = S]
      /\ unseen' = [unseen EXCEPT ![b] = U]
      /\ UNCHANGED <<now, cancelled, cancelling>>
  BY DEF Guard
<1>5. \/ retry = None
      \/ retry = ReopensAt(t) /\ ReopensAt(t) > t /\ MaxCancellations # 0
  BY DEF BlockedUntil
<1>6. retry = None => MaxCancellations = 0 \/ ~TooMany(t) \/ ReopensAt(t) <= t
  BY <1>2, <1>3 DEF BlockedUntil
<1>7. /\ retry # None => /\ retry \in 1..MaxTime + Cooloff
                         /\ retry > t
      /\ retry \in (1..MaxTime + Cooloff) \cup {None}
  BY <1>2, <1>3, <1>5
<1> HIDE DEF retry
<1>8. /\ r \in Booking /\ r.now = t /\ r.retry = retry
      /\ r.step = "admitted" <=> retry = None
      /\ r.step = "refused" <=> retry # None
      /\ r.step # "idle"
  BY <1>1, <1>7 DEF Booking
<1> HIDE DEF r
<1>9. /\ booking' \in [Bookings -> Booking]
      /\ booking'[b] = r /\ seen'[b] = S /\ unseen'[b] = U
      /\ seen' \in [Bookings -> SUBSET Appts] /\ unseen' \in [Bookings -> SUBSET Appts]
      /\ \A u \in Bookings \ {b} : /\ booking'[u] = booking[u]
                                   /\ seen'[u] = seen[u] /\ unseen'[u] = unseen[u]
  BY <1>4, <1>8 DEF LimitIInv, LimitTypeOK
<1>10. LimitTypeOK'
  BY <1>1, <1>4, <1>7, <1>8, <1>9 DEF LimitIInv, LimitTypeOK
<1>11. Later(b)'
  BY <1>4, <1>9 DEF Later
<1>12. Named(b)'
  BY <1>3, <1>4, <1>5, <1>8, <1>9 DEF Named
<1>13. Admissible(b)'
  <2> SUFFICES ASSUME retry = None, MaxCancellations # 0
               PROVE  \/ Cardinality(Counted(b)') < MaxCancellations
                      \/ \A a \in Counted(b)' : cancelled[a] + Cooloff <= t
    BY <1>4, <1>8, <1>9 DEF Admissible
  <2>1. Counted(b)' \subseteq {x \in Appts : cancelled[x] # None /\ cancelled[x] >= t - WindowLength}
    BY <1>2, <1>4, <1>8, <1>9 DEF Counted
  <2>2. CASE ~TooMany(t)
    <3> DEFINE C == {x \in Appts : cancelled[x] # None /\ cancelled[x] >= t - WindowLength}
    <3>1. IsFiniteSet(C)
      BY BookingLimitAssumption, FS_Subset
    <3>2. /\ Cardinality(Counted(b)') <= Cardinality(C)
          /\ Cardinality(Counted(b)') \in Nat /\ Cardinality(C) \in Nat
      BY <2>1, <3>1, FS_Subset, FS_CardinalityType
    <3>3. ~(Cardinality(C) >= MaxCancellations)
      BY <2>2 DEF TooMany, CountSince
    <3> QED BY <3>2, <3>3, BookingLimitAssumption
  <2>3. CASE ReopensAt(t) <= t
    <3>1. \A a \in Counted(b)' : a \in Appts /\ cancelled[a] # None /\ cancelled[a] + WindowLength >= t
      BY <1>4, <1>8, <1>9 DEF Counted
    <3> QED BY <1>2, <1>3, <2>3, <3>1
  <2> QED BY <1>6, <2>2, <2>3
<1>14. ASSUME NEW u \in Bookings \ {b} PROVE Later(u)' /\ Named(u)' /\ Admissible(u)'
  BY <1>4, <1>9 DEF LimitIInv, Later, Named, Admissible, Counted
<1>15. \A u \in Bookings : Later(u)' /\ Named(u)' /\ Admissible(u)'
  BY <1>11, <1>12, <1>13, <1>14
<1>16. \A u \in Bookings : booking'[u].now # None => booking'[u].now <= now'
  BY <1>1, <1>4, <1>8, <1>9 DEF LimitIInv
<1> QED BY <1>4, <1>10, <1>15, <1>16 DEF LimitIInv

----------------------------------------------------------------------------
(* The theorems.                                                           *)

LEMMA LimitInitially == LimitInit => LimitIInv
<1> SUFFICES ASSUME LimitInit PROVE LimitIInv
  OBVIOUS
<1>1. NoBooking \in Booking /\ NoBooking.step = "idle" /\ NoBooking.now = None /\ NoBooking.retry = None
  BY DEF NoBooking, Booking
<1>2. 0 \in Times
  BY BookingLimitAssumption DEF Times
<1>3. LimitTypeOK
  BY <1>1, <1>2 DEF LimitInit, LimitTypeOK
<1> QED BY <1>1, <1>3 DEF LimitInit, LimitIInv, Later, Named, Admissible

LEMMA LimitInvariance == LimitIInv /\ [LimitNext]_limitVars => LimitIInv'
<1> SUFFICES ASSUME LimitIInv, [LimitNext]_limitVars PROVE LimitIInv'
  OBVIOUS
<1>1. /\ now \in Times /\ now \in Nat
      /\ cancelled \in [Appts -> Times \cup {None}]
      /\ cancelling \in [Appts -> Times \cup {None}]
      /\ \A a \in Appts : cancelling[a] # None => cancelling[a] <= now /\ cancelled[a] = None
  BY DEF LimitIInv, LimitTypeOK, Times
<1>2. CASE UNCHANGED limitVars
  BY <1>2 DEF limitVars, LimitIInv, LimitTypeOK, Later, Named, Admissible, Counted
<1>3. CASE Tick
  <2>1. /\ now' \in Times /\ now' >= now
        /\ \A a \in Appts : cancelling[a] # None => cancelling[a] <= now'
    <3>1. \A a \in Appts : cancelling[a] # None => cancelling[a] \in Nat
      BY <1>1 DEF Times
    <3> QED BY <1>1, <1>3, <3>1, BookingLimitAssumption DEF Tick, Times
  <2> QED BY <1>1, <1>3, <2>1, CancellationStep DEF Tick
<1>4. ASSUME NEW a \in Appts, Cancel(a) PROVE LimitIInv'
  <2>1. /\ cancelling' \in [Appts -> Times \cup {None}]
        /\ cancelling'[a] = now /\ cancelled[a] = None
        /\ \A x \in Appts \ {a} : cancelling'[x] = cancelling[x]
    BY <1>1, <1>4 DEF Cancel
  <2>2. now <= now
    BY <1>1
  <2> QED BY <1>1, <1>4, <2>1, <2>2, CancellationStep DEF Cancel
<1>5. ASSUME NEW a \in Appts, CancelCommits(a) \/ CancelFails(a) PROVE LimitIInv'
  <2>1. /\ cancelling' \in [Appts -> Times \cup {None}]
        /\ cancelling'[a] = None /\ cancelling[a] # None
        /\ \A x \in Appts \ {a} : cancelling'[x] = cancelling[x]
    BY <1>1, <1>5 DEF CancelCommits, CancelFails
  <2>2. /\ cancelled' \in [Appts -> Times \cup {None}]
        /\ cancelled'[a] = cancelled[a] \/ cancelled'[a] = cancelling[a]
        /\ \A x \in Appts \ {a} : cancelled'[x] = cancelled[x]
    BY <1>1, <1>5 DEF CancelCommits, CancelFails
  <2>3. now <= now /\ UNCHANGED <<now, booking, seen, unseen>>
    BY <1>1, <1>5 DEF CancelCommits, CancelFails
  <2> QED BY <1>1, <2>1, <2>2, <2>3, CancellationStep
<1>6. ASSUME NEW b \in Bookings, Book(b) \/ Guard(b) PROVE LimitIInv'
  BY <1>6, BookStep, GuardStep
<1> QED BY <1>2, <1>3, <1>4, <1>5, <1>6 DEF LimitNext

LEMMA RetryHolds ==
  ASSUME LimitIInv
  PROVE  RetryIsLateEnough
<1> SUFFICES ASSUME NEW b \in Bookings, booking[b].step = "refused", now >= booking[b].retry,
                    ~\E a \in Appts \ seen[b] : cancelled[a] # None
             PROVE  BlockedUntil(now) = None
  BY DEF RetryIsLateEnough
<1>1. /\ now \in Times /\ now \in Nat /\ WindowLength \in Nat /\ Cooloff \in Nat
      /\ booking[b].retry \in Nat /\ booking[b].now \in Nat
      /\ booking[b].retry > booking[b].now
      /\ \A a \in Appts : cancelled[a] # None => cancelled[a] \in Nat
  BY BookingLimitAssumption DEF LimitIInv, LimitTypeOK, Times, Booking
<1>2. ASSUME NEW a \in Appts, cancelled[a] # None, cancelled[a] + WindowLength >= now
      PROVE  cancelled[a] + Cooloff <= now
  <2>1. a \in seen[b] /\ cancelled[a] + WindowLength >= booking[b].now
    BY <1>1, <1>2
  <2>2. cancelled[a] + Cooloff <= booking[b].retry
    BY <2>1 DEF LimitIInv, Named
  <2> QED BY <1>1, <1>2, <2>2
<1>3. ReopensAt(now) \in Nat /\ ReopensAt(now) <= now
  <2>1. now <= now
    BY <1>1
  <2> QED BY <1>1, <1>2, <2>1, ReopensAfterAll DEF LimitIInv
<1> QED BY <1>1, <1>3 DEF BlockedUntil

(* The variables keep their types, and a refusal names a later time.       *)
THEOREM LimitTypeCorrect == LimitSpec => []LimitTypeOK
<1>1. LimitIInv => LimitTypeOK
  BY DEF LimitIInv
<1> QED BY <1>1, LimitInitially, LimitInvariance, PTL DEF LimitSpec

(* Nobody is admitted within the cool-off of cancellations that reach the  *)
(* limit, but for those that were open when the request counted.           *)
THEOREM LimitHolds == LimitSpec => []AdmittedOnlyUnderTheLimit
<1>1. LimitIInv => AdmittedOnlyUnderTheLimit
  BY AdmissibleMeans DEF LimitIInv
<1> QED BY <1>1, LimitInitially, LimitInvariance, PTL DEF LimitSpec

(* Who was refused is admitted from the time named on, unless something    *)
(* was cancelled that the refusal did not count.                           *)
THEOREM RefusalNamesTheEnd == LimitSpec => []RetryIsLateEnough
<1>1. LimitIInv => RetryIsLateEnough
  BY RetryHolds
<1> QED BY <1>1, LimitInitially, LimitInvariance, PTL DEF LimitSpec

----------------------------------------------------------------------------
(* The schedules of technicians.                                           *)

(* The inductive invariant, of the hours and of the dates.                 *)

InProgress(p) == puts[p].step \in {"deleting", "deleted", "inserted"}

(* A PUT that overlapped none of the accepted ones has seen all the rows.  *)
Snapshot(p) ==
  InProgress(p) /\ (\A q \in Puts : puts[q].step = "done" => ~Overlapped(p, q))
    => puts[p].old = rows

HoursInv ==
  /\ rows \subseteq WorkingHoursRow
  /\ \A row, other \in rows : row.weekday = other.weekday => row = other
  /\ puts \in [Puts -> Put]
  /\ mixed \in BOOLEAN
  /\ \A p \in Puts : puts[p].step = "inserted" => KeyAllows(p)
  /\ \A p, q \in Puts : p # q /\ puts[p].step = "inserted" /\ puts[q].step = "inserted" =>
       DOMAIN puts[p].hours \cap DOMAIN puts[q].hours = {}
  /\ \A p, q \in Puts : p # q /\ InProgress(p) /\ InProgress(q) => Overlapped(p, q)
  /\ \A p \in Puts : Snapshot(p)
  /\ HoursComeFromOnePut

(* What lasted is still marked, and was excluded where it was read.        *)
Dated(r) ==
  LET range == lookups[r].from..lookups[r].to IN
  /\ lasting[r].off \subseteq daysOff
  /\ lasting[r].holidays \subseteq holidays
  /\ lookups[r].step \in {"holidays", "ready"} /\ lookups[r].whole =>
       lasting[r].holidays \cap range \subseteq lookups[r].excluded
  /\ lookups[r].step = "ready" /\ lookups[r].whole =>
       lasting[r].off \cap range \subseteq lookups[r].excluded

DatesInv ==
  /\ daysOff \subseteq Dates /\ holidays \subseteq Dates
  /\ refresh.step \in {"idle", "fetched"} /\ DOMAIN refresh.items \subseteq Dates
  /\ refreshes \in 0..MaxRefreshes
  /\ lookups \in [Lookups -> Lookup]
  /\ lasting \in [Lookups -> [off : SUBSET Dates, holidays : SUBSET Dates]]
  /\ \A r \in Lookups : Dated(r)

SchedulesIInv == HoursInv /\ DatesInv

----------------------------------------------------------------------------
(* Lemmas about the operators.                                             *)

LEMMA WeekHasHours ==
  ASSUME NEW week \in Weeks
  PROVE  DOMAIN week \subseteq WeekDays /\ \A d \in DOMAIN week : week[d] \in Hours
BY DEF Weeks

LEMMA NoHoursIsWeek == NoHours \in Weeks
<1>1. NoHours \in [{} -> Hours] /\ {} \in SUBSET WeekDays
  BY DEF NoHours
<1> QED BY <1>1 DEF Weeks

LEMMA BlanksAreTyped ==
  /\ NoPut \in Put /\ NoPut.step = "idle"
  /\ [NoPut EXCEPT !.step = "failed"] \in Put
  /\ [NoPut EXCEPT !.step = "failed"].step = "failed"
  /\ NoLookup \in Lookup /\ NoLookup.step = "idle"
<1>1. 0 \in Dates
  BY SchedulesAssumption DEF Dates
<1>2. NoPut \in Put /\ NoPut.step = "idle"
  BY NoHoursIsWeek DEF NoPut, Put
<1>3. NoLookup \in Lookup /\ NoLookup.step = "idle"
  BY <1>1, NoHoursIsWeek DEF NoLookup, Lookup
<1> QED BY <1>2, <1>3 DEF Put

(* What is stored can be read.                                             *)
LEMMA StoredWeek ==
  ASSUME NEW R \in SUBSET WorkingHoursRow
  PROVE  WeekOf(R) \in Weeks
<1>1. CASE R = {}
  <2>1. StandardWeek \in [StandardDays -> Hours]
    BY SchedulesAssumption DEF StandardWeek
  <2> QED BY <1>1, <2>1, SchedulesAssumption DEF WeekOf, Weeks
<1>2. CASE R # {}
  <2> DEFINE D == {row.weekday : row \in R}
  <2>1. D \in SUBSET WeekDays
    BY DEF WorkingHoursRow
  <2>2. ASSUME NEW d \in D
        PROVE  (CHOOSE row \in R : row.weekday = d).hours \in Hours
    <3>1. \E row \in R : row.weekday = d
      OBVIOUS
    <3>2. (CHOOSE row \in R : row.weekday = d) \in R
      BY <3>1
    <3> QED BY <3>2 DEF WorkingHoursRow
  <2>3. WeekOf(R) = [d \in D |-> (CHOOSE row \in R : row.weekday = d).hours]
    BY <1>2 DEF WeekOf
  <2> HIDE DEF D
  <2>4. WeekOf(R) \in [D -> Hours]
    BY <2>2, <2>3
  <2> QED BY <2>1, <2>4 DEF Weeks
<1> QED BY <1>1, <1>2

----------------------------------------------------------------------------
(* Steps of the hours.                                                     *)

(* A PUT that moves on without touching the rows.                          *)
LEMMA PutMoves ==
  ASSUME HoursInv, NEW p \in Puts, NEW r \in Put,
         puts[p].step # "done", r.step # "done",
         puts' = [puts EXCEPT ![p] = r],
         UNCHANGED <<rows, mixed>>,
         r.step = "inserted" => /\ \A row \in rows \ r.old : row.weekday \notin DOMAIN r.hours
                                /\ \A q \in Puts \ {p} : puts[q].step = "inserted" =>
                                     DOMAIN puts[q].hours \cap DOMAIN r.hours = {},
         InProgress(p)' => \A q \in Puts \ {p} : InProgress(q) => q \in r.since \/ p \in puts[q].since,
         InProgress(p)' /\ (\A q \in Puts : puts[q].step = "done" =>
                                q \notin r.since /\ p \notin puts[q].since) => r.old = rows
  PROVE  HoursInv'
<1>1. /\ puts' \in [Puts -> Put]
      /\ puts'[p] = r
      /\ \A q \in Puts \ {p} : puts'[q] = puts[q]
  BY DEF HoursInv
<1>2. \A u \in Puts : puts'[u].step = "inserted" => KeyAllows(u)'
  BY <1>1 DEF HoursInv, KeyAllows
<1>3. \A u, q \in Puts : u # q /\ puts'[u].step = "inserted" /\ puts'[q].step = "inserted" =>
        DOMAIN puts'[u].hours \cap DOMAIN puts'[q].hours = {}
  BY <1>1 DEF HoursInv
<1>4. \A u, q \in Puts : u # q /\ InProgress(u)' /\ InProgress(q)' => Overlapped(u, q)'
  BY <1>1 DEF HoursInv, InProgress, Overlapped
<1>5. ASSUME NEW u \in Puts PROVE Snapshot(u)'
  BY <1>1 DEF HoursInv, Snapshot, InProgress, Overlapped
<1>6. HoursComeFromOnePut'
  <2>1. \A q \in Puts : /\ puts'[q].step = "done" <=> puts[q].step = "done"
                        /\ puts'[q].step = "done" => puts'[q] = puts[q]
    BY <1>1
  <2>2. \A q \in Puts : puts'[q] = puts[q] => Written(q)' = Written(q)
    BY DEF Written, RowOf
  <2> QED BY <2>1, <2>2 DEF HoursInv, HoursComeFromOnePut
<1> QED BY <1>1, <1>2, <1>3, <1>4, <1>5, <1>6 DEF HoursInv

LEMMA PutStep ==
  ASSUME HoursInv, NEW p \in Puts,
         PutBegin(p) \/ PutDelete(p) \/ PutInsert(p) \/ PutFail(p)
  PROVE  HoursInv'
<1>1. puts[p] \in Put /\ rows \in SUBSET WorkingHoursRow
  BY DEF HoursInv
<1>2. CASE PutBegin(p)
  <2>1. PICK week \in Weeks :
          puts' = [puts EXCEPT ![p] = [step |-> "deleting", hours |-> week, old |-> rows,
                     since |-> {q \in Puts : Running(q) \/ puts[q].step = "deleting"}]]
    BY <1>2 DEF PutBegin
  <2> DEFINE r == [step |-> "deleting", hours |-> week, old |-> rows,
                   since |-> {q \in Puts : Running(q) \/ puts[q].step = "deleting"}]
  <2>2. /\ r \in Put /\ r.step = "deleting" /\ r.old = rows
        /\ \A q \in Puts : InProgress(q) => q \in r.since
    BY <1>1 DEF Put, InProgress, Running
  <2>3. puts' = [puts EXCEPT ![p] = r]
    BY <2>1
  <2> HIDE DEF r
  <2> QED BY <1>2, <2>2, <2>3, PutMoves DEF PutBegin
<1>3. CASE PutDelete(p)
  <2> DEFINE r == [puts[p] EXCEPT !.step = "deleted", !.old = Removed(p)]
  <2>1. /\ r \in Put /\ r.step = "deleted" /\ r.since = puts[p].since
        /\ r.old = puts[p].old \cap rows
    BY <1>1 DEF Put, Removed
  <2>2. puts' = [puts EXCEPT ![p] = r] /\ puts[p].step = "deleting" /\ UNCHANGED <<rows, mixed>>
    BY <1>3 DEF PutDelete
  <2> HIDE DEF r
  <2>3. InProgress(p)
    BY <2>2 DEF InProgress
  <2>4. \A q \in Puts \ {p} : InProgress(q) => q \in r.since \/ p \in puts[q].since
    BY <2>1, <2>3 DEF HoursInv, Overlapped
  <2>5. (\A q \in Puts : puts[q].step = "done" => q \notin r.since /\ p \notin puts[q].since)
          => r.old = rows
    BY <2>1, <2>3 DEF HoursInv, Snapshot, Overlapped
  <2> QED BY <2>1, <2>2, <2>4, <2>5, PutMoves
<1>4. CASE PutInsert(p)
  <2> DEFINE r == [puts[p] EXCEPT !.step = "inserted"]
  <2>1. /\ r \in Put /\ r.step = "inserted" /\ r.since = puts[p].since
        /\ r.old = puts[p].old /\ r.hours = puts[p].hours
    BY <1>1 DEF Put
  <2>2. puts' = [puts EXCEPT ![p] = r] /\ puts[p].step = "deleted" /\ UNCHANGED <<rows, mixed>>
    BY <1>4 DEF PutInsert
  <2>3. /\ \A row \in rows \ r.old : row.weekday \notin DOMAIN r.hours
        /\ \A q \in Puts \ {p} : puts[q].step = "inserted" =>
             DOMAIN puts[q].hours \cap DOMAIN r.hours = {}
    BY <1>4, <2>1 DEF PutInsert, KeyAllows
  <2> HIDE DEF r
  <2>4. InProgress(p)
    BY <2>2 DEF InProgress
  <2>5. \A q \in Puts \ {p} : InProgress(q) => q \in r.since \/ p \in puts[q].since
    BY <2>1, <2>4 DEF HoursInv, Overlapped
  <2>6. (\A q \in Puts : puts[q].step = "done" => q \notin r.since /\ p \notin puts[q].since)
          => r.old = rows
    BY <2>1, <2>4 DEF HoursInv, Snapshot, Overlapped
  <2> QED BY <2>1, <2>2, <2>3, <2>5, <2>6, PutMoves
<1>5. CASE PutFail(p)
  <2> DEFINE r == [NoPut EXCEPT !.step = "failed"]
  <2>1. r \in Put /\ r.step = "failed"
    BY BlanksAreTyped
  <2>2. puts' = [puts EXCEPT ![p] = r] /\ puts[p].step # "done" /\ UNCHANGED <<rows, mixed>>
    BY <1>5 DEF PutFail
  <2> HIDE DEF r
  <2>3. ~InProgress(p)'
    BY <2>1, <2>2 DEF HoursInv, InProgress
  <2> QED BY <2>1, <2>2, <2>3, PutMoves
<1> QED BY <1>2, <1>3, <1>4, <1>5

LEMMA PutCommitStep ==
  ASSUME HoursInv, NEW p \in Puts, PutCommit(p)
  PROVE  HoursInv'
<1> DEFINE r == [puts[p] EXCEPT !.step = "done", !.old = {}]
<1>1. /\ puts[p] \in Put /\ puts[p].step = "inserted" /\ InProgress(p)
      /\ rows' = (rows \ puts[p].old) \cup Written(p)
      /\ puts' = [puts EXCEPT ![p] = r]
  BY DEF PutCommit, HoursInv, InProgress
<1>2. r \in Put /\ r.step = "done" /\ r.hours = puts[p].hours /\ r.since = puts[p].since
  BY <1>1 DEF Put
<1> HIDE DEF r
<1>3. /\ puts' \in [Puts -> Put]
      /\ puts'[p] = r
      /\ \A q \in Puts \ {p} : puts'[q] = puts[q]
  BY <1>1, <1>2 DEF HoursInv
<1>4. /\ \A row \in Written(p) : /\ row \in WorkingHoursRow
                                 /\ row.weekday \in DOMAIN puts[p].hours
      /\ \A row, other \in Written(p) : row.weekday = other.weekday => row = other
  <2>1. puts[p].hours \in Weeks
    BY <1>1 DEF Put
  <2> QED BY <2>1, WeekHasHours DEF Written, RowOf, WorkingHoursRow
<1>5. \A row \in rows \ puts[p].old : row.weekday \notin DOMAIN puts[p].hours
  BY <1>1 DEF HoursInv, KeyAllows
<1>6. /\ rows' \subseteq WorkingHoursRow
      /\ \A row, other \in rows' : row.weekday = other.weekday => row = other
  BY <1>1, <1>4, <1>5 DEF HoursInv
<1>7. ASSUME NEW u \in Puts, puts'[u].step = "inserted" PROVE KeyAllows(u)'
  <2>1. u # p /\ puts'[u] = puts[u] /\ puts[u].step = "inserted"
    BY <1>2, <1>3, <1>7
  <2>2. DOMAIN puts[p].hours \cap DOMAIN puts[u].hours = {}
    BY <1>1, <2>1 DEF HoursInv
  <2>3. \A row \in rows \ puts[u].old : row.weekday \notin DOMAIN puts[u].hours
    BY <2>1 DEF HoursInv, KeyAllows
  <2> QED BY <1>1, <1>4, <2>1, <2>2, <2>3 DEF KeyAllows
<1>8. \A u, q \in Puts : u # q /\ puts'[u].step = "inserted" /\ puts'[q].step = "inserted" =>
        DOMAIN puts'[u].hours \cap DOMAIN puts'[q].hours = {}
  BY <1>2, <1>3 DEF HoursInv
<1>9. ASSUME NEW u \in Puts, InProgress(u)'
      PROVE  /\ u # p /\ puts'[u] = puts[u] /\ InProgress(u)
             /\ Overlapped(u, p)'
  <2>1. u # p /\ puts'[u] = puts[u] /\ InProgress(u)
    BY <1>2, <1>3, <1>9 DEF InProgress
  <2> QED BY <1>1, <1>2, <1>3, <2>1 DEF HoursInv, Overlapped
<1>10. \A u, q \in Puts : u # q /\ InProgress(u)' /\ InProgress(q)' => Overlapped(u, q)'
  BY <1>9 DEF HoursInv, Overlapped
<1>11. ASSUME NEW u \in Puts PROVE Snapshot(u)'
  BY <1>2, <1>3, <1>9 DEF Snapshot
<1>12. mixed' \in BOOLEAN
  BY DEF PutCommit, HoursInv
<1>13. HoursComeFromOnePut'
  <2>1. CASE \E q \in Puts : puts[q].step = "done" /\ Overlapped(p, q)
    BY <2>1 DEF PutCommit, HoursComeFromOnePut
  <2>2. CASE ~\E q \in Puts : puts[q].step = "done" /\ Overlapped(p, q)
    <3>1. puts[p].old = rows
      BY <1>1, <2>2 DEF HoursInv, Snapshot
    <3>2. rows' = Written(p)
      BY <1>1, <3>1
    <3>3. Written(p)' = Written(p)
      BY <1>2, <1>3 DEF Written, RowOf
    <3> QED BY <1>2, <1>3, <3>2, <3>3 DEF HoursComeFromOnePut
  <2> QED BY <2>1, <2>2
<1> QED BY <1>3, <1>6, <1>7, <1>8, <1>10, <1>11, <1>12, <1>13 DEF HoursInv

----------------------------------------------------------------------------
(* Steps of the dates.                                                     *)

(* The marked dates change, and what lasted with them.                     *)
LEMMA MarksStep ==
  ASSUME DatesInv,
         daysOff' \subseteq Dates, holidays' \subseteq Dates,
         refresh'.step \in {"idle", "fetched"}, DOMAIN refresh'.items \subseteq Dates,
         refreshes' \in 0..MaxRefreshes,
         UNCHANGED lookups,
         \/ lasting' = Lasting(daysOff', holidays')
         \/ lasting' = lasting /\ daysOff \subseteq daysOff' /\ holidays \subseteq holidays'
  PROVE  DatesInv'
<1>1. lasting' \in [Lookups -> [off : SUBSET Dates, holidays : SUBSET Dates]]
  BY DEF DatesInv, Lasting
<1>2. ASSUME NEW r \in Lookups
      PROVE  /\ lasting'[r].off \subseteq lasting[r].off \cap daysOff'
             /\ lasting'[r].holidays \subseteq lasting[r].holidays \cap holidays'
  BY DEF DatesInv, Dated, Lasting
<1>3. ASSUME NEW r \in Lookups PROVE Dated(r)'
  BY <1>2 DEF DatesInv, Dated
<1> QED BY <1>1, <1>3 DEF DatesInv

(* A lookup moves on.                                                      *)
LEMMA LookupStep ==
  ASSUME DatesInv, NEW r \in Lookups, NEW l \in Lookup,
         NEW last \in [off : SUBSET Dates, holidays : SUBSET Dates],
         lookups' = [lookups EXCEPT ![r] = l],
         lasting' = [lasting EXCEPT ![r] = last],
         UNCHANGED dateVars,
         last.off \subseteq daysOff, last.holidays \subseteq holidays,
         l.step \in {"holidays", "ready"} /\ l.whole =>
           last.holidays \cap (l.from..l.to) \subseteq l.excluded,
         l.step = "ready" /\ l.whole => last.off \cap (l.from..l.to) \subseteq l.excluded
  PROVE  DatesInv'
<1>1. /\ lookups' \in [Lookups -> Lookup] /\ lookups'[r] = l
      /\ lasting' \in [Lookups -> [off : SUBSET Dates, holidays : SUBSET Dates]]
      /\ lasting'[r] = last
      /\ \A u \in Lookups \ {r} : lookups'[u] = lookups[u] /\ lasting'[u] = lasting[u]
  BY DEF DatesInv
<1>2. UNCHANGED <<daysOff, holidays, refresh, refreshes>>
  BY DEF dateVars
<1>3. ASSUME NEW u \in Lookups PROVE Dated(u)'
  <2>1. CASE u = r
    BY <1>1, <1>2, <2>1 DEF Dated
  <2>2. CASE u # r
    BY <1>1, <1>2, <2>2 DEF DatesInv, Dated
  <2> QED BY <2>1, <2>2
<1> QED BY <1>1, <1>2, <1>3 DEF DatesInv

LEMMA LookupHoursStep ==
  ASSUME HoursInv, DatesInv, NEW r \in Lookups, LookupHours(r)
  PROVE  DatesInv'
<1>1. PICK from, to \in Dates :
        lookups' = [lookups EXCEPT ![r] = [step |-> "hours", from |-> from, to |-> to,
                      hours |-> WeekOf(rows), excluded |-> {}, whole |-> TRUE]]
  BY DEF LookupHours
<1> DEFINE l == [step |-> "hours", from |-> from, to |-> to,
                 hours |-> WeekOf(rows), excluded |-> {}, whole |-> TRUE]
           last == [off |-> daysOff, holidays |-> holidays]
<1>2. WeekOf(rows) \in Weeks
  BY StoredWeek DEF HoursInv
<1>3. l \in Lookup /\ l.step = "hours"
  BY <1>2 DEF Lookup
<1>4. /\ last \in [off : SUBSET Dates, holidays : SUBSET Dates]
      /\ last.off = daysOff /\ last.holidays = holidays
  BY DEF DatesInv
<1>5. /\ lookups' = [lookups EXCEPT ![r] = l]
      /\ lasting' = [lasting EXCEPT ![r] = last]
      /\ UNCHANGED dateVars
  BY <1>1 DEF LookupHours
<1> HIDE DEF l, last
<1> QED BY <1>3, <1>4, <1>5, LookupStep

LEMMA LoadStep ==
  ASSUME DatesInv, NEW r \in Lookups, LoadHolidays(r) \/ LoadDaysOff(r)
  PROVE  DatesInv'
<1> DEFINE last == lasting[r]
<1>1. /\ lookups[r] \in Lookup /\ Dated(r)
      /\ last \in [off : SUBSET Dates, holidays : SUBSET Dates]
      /\ lasting' = [lasting EXCEPT ![r] = last]
      /\ daysOff \subseteq Dates /\ holidays \subseteq Dates
      /\ UNCHANGED dateVars
  BY DEF DatesInv, LoadHolidays, LoadDaysOff, Load
<1>2. ASSUME NEW S \in SUBSET Dates
      PROVE  /\ ListBetween(S, r) \subseteq Dates
             /\ S \cap (lookups[r].from..lookups[r].to) \subseteq ListBetween(S, r)
  BY <1>1 DEF ListBetween, Dates, Lookup
<1>3. ASSUME NEW S \in SUBSET Dates, NEW next \in {"holidays", "ready"},
             \/ next = "holidays" /\ S = holidays
             \/ next = "ready" /\ S = daysOff /\ lookups[r].step = "holidays",
             \/ lookups' = [lookups EXCEPT ![r] =
                  [lookups[r] EXCEPT !.step = next, !.excluded = @ \cup ListBetween(S, r)]]
             \/ lookups' = [lookups EXCEPT ![r] =
                  [lookups[r] EXCEPT !.step = next, !.whole = FALSE]]
      PROVE  DatesInv'
  <2> DEFINE E == lookups[r].excluded \cup ListBetween(S, r)
             l == [lookups[r] EXCEPT !.step = next, !.excluded = E]
             m == [lookups[r] EXCEPT !.step = next, !.whole = FALSE]
  <2>1. E \in SUBSET Dates
    BY <1>1, <1>2 DEF Lookup
  <2>2. lookups' = [lookups EXCEPT ![r] = l] \/ lookups' = [lookups EXCEPT ![r] = m]
    BY <1>3
  <2> HIDE DEF E
  <2>3. /\ l \in Lookup /\ l.step = next /\ l.excluded = E /\ l.whole = lookups[r].whole
        /\ l.from = lookups[r].from /\ l.to = lookups[r].to
    BY <1>1, <2>1 DEF Lookup
  <2>4. /\ m \in Lookup /\ m.step = next /\ m.whole = FALSE
    BY <1>1 DEF Lookup
  <2> HIDE DEF l, m
  <2>5. CASE lookups' = [lookups EXCEPT ![r] = m]
    BY <1>1, <2>4, <2>5, LookupStep DEF Dated
  <2>6. CASE lookups' = [lookups EXCEPT ![r] = l]
    <3>1. S \cap (l.from..l.to) \subseteq l.excluded /\ lookups[r].excluded \subseteq l.excluded
      BY <1>2, <2>3 DEF E
    <3> QED BY <1>1, <1>3, <2>3, <2>6, <3>1, LookupStep DEF Dated
  <2> QED BY <2>2, <2>5, <2>6
<1>4. CASE LoadHolidays(r)
  BY <1>1, <1>3, <1>4 DEF LoadHolidays, Load
<1>5. CASE LoadDaysOff(r)
  BY <1>1, <1>3, <1>5 DEF LoadDaysOff, Load
<1> QED BY <1>4, <1>5

LEMMA DatesStep ==
  ASSUME DatesInv,
         \/ \E d \in Dates : AddDayOff(d) \/ RemoveDayOff(d)
         \/ RefreshFetch
         \/ RefreshStore
  PROVE  DatesInv'
<1>1. /\ daysOff \subseteq Dates /\ holidays \subseteq Dates
      /\ refresh.step \in {"idle", "fetched"} /\ DOMAIN refresh.items \subseteq Dates
      /\ refreshes \in 0..MaxRefreshes
  BY DEF DatesInv
<1>2. ASSUME NEW d \in Dates, AddDayOff(d) PROVE DatesInv'
  BY <1>1, <1>2, MarksStep DEF AddDayOff
<1>3. ASSUME NEW d \in Dates, RemoveDayOff(d) PROVE DatesInv'
  <2>1. lasting' = Lasting(daysOff', holidays')
    BY <1>3 DEF RemoveDayOff, Lasting
  <2> QED BY <1>1, <1>3, <2>1, MarksStep DEF RemoveDayOff
<1>4. CASE RefreshFetch
  <2>1. PICK D \in SUBSET Dates, twice \in SUBSET Dates :
          refresh' = [step |-> "fetched", items |-> SetToBag(D) (+) SetToBag(twice)]
    BY <1>4 DEF RefreshFetch
  <2>2. DOMAIN (SetToBag(D) (+) SetToBag(twice)) = D \cup twice
    BY DEF SetToBag, (+)
  <2>3. refresh'.step = "fetched" /\ DOMAIN refresh'.items \subseteq Dates
    BY <2>1, <2>2
  <2>4. refreshes' \in 0..MaxRefreshes
    BY <1>1, <1>4, SchedulesAssumption DEF RefreshFetch
  <2> QED BY <1>1, <1>4, <2>3, <2>4, MarksStep DEF RefreshFetch
<1>5. CASE RefreshStore
  <2>1. holidays' \subseteq Dates /\ lasting' = Lasting(daysOff', holidays')
    BY <1>1, <1>5 DEF RefreshStore, UpsertMany, Lasting
  <2>2. NoRefresh.step = "idle" /\ DOMAIN NoRefresh.items \subseteq Dates
    BY DEF NoRefresh, EmptyBag, SetToBag
  <2> QED BY <1>1, <1>5, <2>1, <2>2, MarksStep DEF RefreshStore
<1> QED BY <1>2, <1>3, <1>4, <1>5

----------------------------------------------------------------------------
(* The theorems.                                                           *)

LEMMA SchedulesInitially == SchedulesInit => SchedulesIInv
<1> SUFFICES ASSUME SchedulesInit PROVE SchedulesIInv
  OBVIOUS
<1>1. \A p \in Puts : puts[p] = NoPut /\ puts[p].step = "idle"
  BY BlanksAreTyped DEF SchedulesInit, HoursInit
<1>2. HoursInv
  BY <1>1, BlanksAreTyped
     DEF SchedulesInit, HoursInit, HoursInv, Snapshot, InProgress, HoursComeFromOnePut
<1>3. NoRefresh.step = "idle" /\ DOMAIN NoRefresh.items \subseteq Dates
  BY DEF NoRefresh, EmptyBag, SetToBag
<1>4. \A r \in Lookups : /\ lookups[r].step = "idle"
                         /\ lasting[r].off = {} /\ lasting[r].holidays = {}
  BY BlanksAreTyped DEF SchedulesInit
<1>5. DatesInv
  BY <1>3, <1>4, BlanksAreTyped, SchedulesAssumption
     DEF SchedulesInit, DaysOffInit, HolidaysInit, DatesInv, Dated
<1> QED BY <1>2, <1>5 DEF SchedulesIInv

LEMMA SchedulesInvariance == SchedulesIInv /\ [SchedulesNext]_scheduleVars => SchedulesIInv'
<1> SUFFICES ASSUME HoursInv, DatesInv, [SchedulesNext]_scheduleVars PROVE HoursInv' /\ DatesInv'
  BY DEF SchedulesIInv
<1>1. ASSUME UNCHANGED putVars PROVE HoursInv'
  BY <1>1 DEF putVars, HoursInv, KeyAllows, Snapshot, InProgress, Overlapped,
              HoursComeFromOnePut, Written, RowOf
<1>2. ASSUME UNCHANGED <<dateVars, lookups, lasting>> PROVE DatesInv'
  BY <1>2 DEF dateVars, DatesInv, Dated
<1>3. CASE UNCHANGED scheduleVars
  BY <1>1, <1>2, <1>3 DEF scheduleVars, putVars, dateVars
<1>4. ASSUME NEW p \in Puts,
             PutBegin(p) \/ PutDelete(p) \/ PutInsert(p) \/ PutFail(p) \/ PutCommit(p)
      PROVE  HoursInv' /\ DatesInv'
  <2>1. UNCHANGED <<dateVars, lookups, lasting>>
    BY <1>4 DEF PutBegin, PutDelete, PutInsert, PutFail, PutCommit
  <2> QED BY <1>2, <1>4, <2>1, PutStep, PutCommitStep
<1>5. ASSUME NEW r \in Lookups, LookupHours(r) \/ LoadHolidays(r) \/ LoadDaysOff(r)
      PROVE  HoursInv' /\ DatesInv'
  <2>1. UNCHANGED putVars
    BY <1>5 DEF LookupHours, LoadHolidays, LoadDaysOff, Load
  <2> QED BY <1>1, <1>5, <2>1, LookupHoursStep, LoadStep
<1>6. ASSUME \/ \E d \in Dates : AddDayOff(d) \/ RemoveDayOff(d)
             \/ RefreshFetch
             \/ RefreshStore
      PROVE  HoursInv' /\ DatesInv'
  <2>1. UNCHANGED putVars
    BY <1>6 DEF AddDayOff, RemoveDayOff, RefreshFetch, RefreshStore
  <2> QED BY <1>1, <1>6, <2>1, DatesStep
<1> QED BY <1>3, <1>4, <1>5, <1>6 DEF SchedulesNext, HoursNext, DatesNext

(* The variables keep their types, and a weekday has one window at most.   *)
THEOREM SchedulesTypeCorrect == SchedulesSpec => []SchedulesTypeOK
<1>1. SchedulesIInv => SchedulesTypeOK
  BY DEF SchedulesIInv, HoursInv, DatesInv, SchedulesTypeOK
<1> QED BY <1>1, SchedulesInitially, SchedulesInvariance, PTL DEF SchedulesSpec

(* The hours in effect are those of one PUT, unless two accepted ones      *)
(* overlapped.                                                             *)
THEOREM HoursAreOfOnePut == SchedulesSpec => []HoursComeFromOnePut
<1>1. SchedulesIInv => HoursComeFromOnePut
  BY DEF SchedulesIInv, HoursInv
<1> QED BY <1>1, SchedulesInitially, SchedulesInvariance, PTL DEF SchedulesSpec

(* A date that is marked while a lookup runs is excluded by it.            *)
THEOREM MarkedDatesAreExcluded == SchedulesSpec => []LastingDatesAreExcluded
<1>1. SchedulesIInv => LastingDatesAreExcluded
  BY DEF SchedulesIInv, DatesInv, Dated, LastingDatesAreExcluded
<1> QED BY <1>1, SchedulesInitially, SchedulesInvariance, PTL DEF SchedulesSpec

----------------------------------------------------------------------------
(* The slots.                                                              *)

(* What the request hands over.                                            *)
JobOK ==
  /\ job \in [hours : [Days -> Windows \cup {NoWindow}], off : SUBSET Days, clock : Clocks,
              duration : Durations, busy : Seq(Interval), now : Nows]
  /\ \A i, j \in DOMAIN job.busy : i < j => job.busy[i].start <= job.busy[j].start

(* A wall-clock time of a window, and one where a slot begins.             *)
Open(d, w) == d \in Days /\ Works(d) /\ w \in NaiveStart(d)..NaiveEnd(d)

Starts(d) == {NaiveStart(d) + n * job.duration : n \in 0..DayLength}

Position(d, w) ==
  /\ d \in Days \ job.off /\ Works(d)
  /\ w \in Starts(d) /\ w + job.duration <= NaiveEnd(d)

SlotAt(d, w) == [start |-> Localized(d, w), end |-> Localized(d, w + job.duration)]

Vacant(s) == \A i \in DOMAIN job.busy : ~Overlaps(s, job.busy[i])

(* Where the carving has been, and the times it has yet to come to.        *)
Reached(d, w) == d < day \/ (d = day /\ w < at)

Ahead(d, w) == Open(d, w) /\ (day < d \/ (day = d /\ at <= w))

Behind(t) == \A d \in Days, w \in 0..DayLength : Ahead(d, w) => t <= Localized(d, w)

(* The busy times left behind overlap no slot to come.                     *)
Passed == \A i \in 1..left - 1 : Behind(job.busy[i].end)

Ordered ==
  /\ \A i \in DOMAIN slots : Behind(slots[i].end)
  /\ \A i, j \in DOMAIN slots : i < j => slots[i].end <= slots[j].start

Found ==
  /\ \A i \in DOMAIN slots : \E d \in Days, w \in 0..DayLength :
       Position(d, w) /\ Reached(d, w) /\ slots[i] = SlotAt(d, w) /\ Vacant(slots[i])
  /\ \A d \in Days, w \in 0..DayLength :
       Position(d, w) /\ Reached(d, w) /\ Vacant(SlotAt(d, w)) =>
         \E i \in DOMAIN slots : slots[i] = SlotAt(d, w)

SlotsIInv ==
  /\ JobOK
  /\ day \in 0..LastDay + 1 /\ at \in 0..DayLength
  /\ day \in Days /\ Works(day) => at \in Starts(day) /\ at <= NaiveEnd(day)
  /\ left \in 1..Len(job.busy) + 1
  /\ slots \in Seq(Interval)
  /\ WindowsAvoidChange => Passed /\ Ordered /\ Found

(* The constants and the request.                                          *)
LEMMA SlotsConstants ==
  /\ LastDay \in Nat /\ DayLength \in Nat \ {0} /\ MaxBusy \in Nat
  /\ Minute \in Nat \ {0}
  /\ \A w \in Windows : w \in Nat \X Nat /\ w[1] < w[2] /\ w[2] < DayLength
  /\ \A k \in Durations : k \in Nat /\ k >= Minute
  /\ BusyTimes \subseteq Interval
  /\ \A c \in Clocks : /\ c \in [day : Int, at : 0..DayLength, shift : Int]
                       /\ c.at + c.shift \in 0..DayLength
  /\ Nows \subseteq Int
BY SlotsAssumption

(* A time loses less than a minute.                                        *)
LEMMA MinuteFacts ==
  ASSUME NEW t \in Nat
  PROVE  /\ ToTheMinute(t) \in Nat /\ ToTheMinute(t) <= t /\ t < ToTheMinute(t) + Minute
         /\ \A u \in Nat : t <= u => ToTheMinute(t) <= ToTheMinute(u)
<1>1. PICK m \in Nat \ {0} : m = Minute
  BY SlotsConstants
<1>2. ASSUME NEW u \in Nat
      PROVE  \E q \in Nat : /\ ToTheMinute(u) = q * m /\ q * m \in Nat
                            /\ q * m <= u /\ u < q * m + m
  <2>1. PICK q \in Int : q = u \div m
    BY <1>1
  <2>2. u % m \in 0..m - 1 /\ u = m * q + (u % m)
    BY <1>1, <2>1
  <2>3. q * m \in Int /\ m * q = q * m
    BY <1>1
  <2>4. q >= 0
    <3>1. q < 0 => q * m <= -m
      <4>1. q < 0 => q * m = -m - (-q - 1) * m /\ (-q - 1) * m \in Nat
        BY <1>1
      <4> QED BY <1>1, <2>3, <4>1
    <3> QED BY <1>1, <2>2, <2>3, <3>1
  <2>5. q \in Nat /\ q * m \in Nat
    BY <1>1, <2>4
  <2>6. ToTheMinute(u) = q * m
    BY <1>1, <2>2, <2>3 DEF ToTheMinute
  <2> QED BY <1>1, <2>2, <2>3, <2>5, <2>6
<1>3. PICK q \in Nat : /\ ToTheMinute(t) = q * m /\ q * m \in Nat
                       /\ q * m <= t /\ t < q * m + m
  BY <1>2
<1>4. ASSUME NEW u \in Nat, t <= u PROVE ToTheMinute(t) <= ToTheMinute(u)
  <2>1. PICK r \in Nat : /\ ToTheMinute(u) = r * m /\ r * m \in Nat
                         /\ r * m <= u /\ u < r * m + m
    BY <1>2
  <2>2. ASSUME r < q PROVE FALSE
    <3>1. PICK n \in Nat : q = r + 1 + n
      <4>1. q - r - 1 \in Nat /\ q = r + 1 + (q - r - 1)
        BY <2>2
      <4> QED BY <4>1
    <3>2. q * m = r * m + m + n * m /\ n * m \in Nat
      BY <1>1, <3>1
    <3> QED BY <1>1, <1>3, <1>4, <2>1, <3>2
  <2>3. PICK n \in Nat : r = q + n
    <3>1. r - q \in Nat /\ r = q + (r - q)
      BY <2>2
    <3> QED BY <3>1
  <2>4. r * m = q * m + n * m /\ n * m \in Nat
    BY <1>1, <2>3
  <2> QED BY <1>3, <2>1, <2>4
<1> QED BY <1>1, <1>3, <1>4

LEMMA JobFacts ==
  ASSUME JobOK
  PROVE  /\ job.duration \in Nat /\ job.duration >= 1
         /\ Minute \in Nat /\ job.duration >= Minute
         /\ job.clock.day \in Int /\ job.clock.at \in 0..DayLength /\ job.clock.shift \in Int
         /\ job.clock.at + job.clock.shift \in 0..DayLength
         /\ job.busy \in Seq(Interval)
         /\ job.now \in Int
         /\ \A d \in Days : Works(d) =>
              /\ NaiveStart(d) \in Nat /\ NaiveEnd(d) \in Nat
              /\ NaiveStart(d) <= NaiveEnd(d) /\ NaiveEnd(d) < DayLength
              /\ WindowFor(d)[1] \in Nat /\ WindowFor(d)[2] \in Nat
              /\ NaiveStart(d) <= WindowFor(d)[1] /\ WindowFor(d)[1] < NaiveStart(d) + Minute
              /\ NaiveEnd(d) <= WindowFor(d)[2]
<1>1. /\ job.duration \in Durations /\ job.clock \in Clocks /\ job.now \in Nows
      /\ job.busy \in Seq(Interval) /\ job.hours \in [Days -> Windows \cup {NoWindow}]
  BY DEF JobOK
<1>2. job.duration \in Nat /\ job.duration >= 1 /\ Minute \in Nat /\ job.duration >= Minute
  <2>1. job.duration \in Nat /\ job.duration >= Minute /\ Minute \in Nat \ {0}
    BY <1>1, SlotsConstants
  <2> QED BY <2>1
<1>3. /\ job.clock.day \in Int /\ job.clock.at \in 0..DayLength /\ job.clock.shift \in Int
      /\ job.clock.at + job.clock.shift \in 0..DayLength
  <2>1. PICK c \in Clocks : c = job.clock
    BY <1>1
  <2>2. c \in [day : Int, at : 0..DayLength, shift : Int] /\ c.at + c.shift \in 0..DayLength
    BY SlotsConstants
  <2> QED BY <2>1, <2>2
<1>4. ASSUME NEW d \in Days, Works(d)
      PROVE  /\ NaiveStart(d) \in Nat /\ NaiveEnd(d) \in Nat
             /\ NaiveStart(d) <= NaiveEnd(d) /\ NaiveEnd(d) < DayLength
             /\ WindowFor(d)[1] \in Nat /\ WindowFor(d)[2] \in Nat
             /\ NaiveStart(d) <= WindowFor(d)[1] /\ WindowFor(d)[1] < NaiveStart(d) + Minute
             /\ NaiveEnd(d) <= WindowFor(d)[2]
  <2>1. WindowFor(d) \in Windows
    BY <1>1, <1>4 DEF Works, WindowFor
  <2>2. PICK w \in Windows : w = WindowFor(d)
    BY <2>1
  <2>3. w \in Nat \X Nat /\ w[1] < w[2] /\ w[2] < DayLength
    BY SlotsConstants
  <2>4. PICK a \in Nat, b \in Nat : a = w[1] /\ b = w[2] /\ a < b /\ b < DayLength
    BY <2>3
  <2>5. /\ ToTheMinute(a) \in Nat /\ ToTheMinute(a) <= a /\ a < ToTheMinute(a) + Minute
        /\ ToTheMinute(b) \in Nat /\ ToTheMinute(b) <= b
        /\ ToTheMinute(a) <= ToTheMinute(b)
    BY <2>4, MinuteFacts
  <2>6. NaiveStart(d) = ToTheMinute(a) /\ NaiveEnd(d) = ToTheMinute(b)
    BY <2>2, <2>4 DEF NaiveStart, NaiveEnd
  <2> QED BY <2>2, <2>4, <2>5, <2>6, SlotsConstants
<1>5. job.now \in Int
  BY <1>1, SlotsConstants
<1> QED BY <1>1, <1>2, <1>3, <1>4, <1>5

(* Days do not overlap.                                                    *)
LEMMA DaysApart ==
  ASSUME NEW d \in Int, NEW e \in Int, d < e
  PROVE  /\ d * DayLength \in Int /\ e * DayLength \in Int
         /\ d * DayLength + DayLength <= e * DayLength
<1>1. DayLength \in Nat
  BY SlotsConstants
<1>2. PICK n \in Nat : e = d + 1 + n
  <2>1. e - d - 1 \in Nat /\ e = d + 1 + (e - d - 1)
    OBVIOUS
  <2> QED BY <2>1
<1>3. e * DayLength = d * DayLength + DayLength + n * DayLength
  BY <1>1, <1>2
<1>4. n * DayLength \in Nat
  BY <1>1
<1> QED BY <1>1, <1>3, <1>4

(* The slots of a day begin one duration apart.                            *)
LEMMA StartsApart ==
  ASSUME JobOK, NEW d \in Days, Works(d)
  PROVE  /\ NaiveStart(d) \in Starts(d)
         /\ \A v \in Starts(d) : v \in Nat /\ NaiveStart(d) <= v
         /\ \A v, w \in Starts(d) : v < w + job.duration => v <= w
         /\ \A v \in Starts(d) :
              v + job.duration <= NaiveEnd(d) => v + job.duration \in Starts(d)
<1>1. PICK k \in Nat : k = job.duration /\ k >= 1
  BY JobFacts
<1>2. PICK b \in Nat : b = NaiveStart(d)
  BY JobFacts
<1>3. DayLength \in Nat
  BY SlotsConstants
<1>4. \A v : v \in Starts(d) <=> \E n \in 0..DayLength : v = b + n * k
  BY <1>1, <1>2 DEF Starts
<1>5. \A n \in Nat : n * k \in Nat /\ n <= n * k /\ (n + 1) * k = n * k + k
  BY <1>1
<1>6. ASSUME NEW m \in Nat, NEW n \in Nat, m <= n PROVE m * k <= n * k
  <2>1. PICK i \in Nat : n = m + i
    <3>1. n - m \in Nat /\ n = m + (n - m)
      BY <1>6
    <3> QED BY <3>1
  <2>2. n * k = m * k + i * k /\ i * k \in Nat /\ m * k \in Nat
    BY <1>1, <2>1
  <2> QED BY <2>2
<1>7. b \in Starts(d)
  <2>1. 0 \in 0..DayLength /\ b = b + 0 * k
    BY <1>1, <1>2, <1>3
  <2> QED BY <1>4, <2>1
<1>8. \A v \in Starts(d) : v \in Nat /\ b <= v
  BY <1>2, <1>3, <1>4, <1>5
<1>9. ASSUME NEW v \in Starts(d), NEW w \in Starts(d), v < w + k PROVE v <= w
  <2>1. PICK m \in 0..DayLength : v = b + m * k
    BY <1>4
  <2>2. PICK n \in 0..DayLength : w = b + n * k
    BY <1>4
  <2>3. m \in Nat /\ n \in Nat /\ m * k \in Nat /\ n * k \in Nat /\ (n + 1) * k = n * k + k
    BY <1>3, <1>5
  <2>4. m * k < (n + 1) * k
    BY <1>1, <1>2, <1>9, <2>1, <2>2, <2>3
  <2>5. m <= n
    <3>1. n + 1 <= m => (n + 1) * k <= m * k
      BY <1>6, <2>3
    <3>2. (n + 1) * k \in Nat
      BY <1>1, <2>3
    <3> QED BY <2>3, <2>4, <3>1, <3>2
  <2> QED BY <1>2, <1>6, <2>1, <2>2, <2>3, <2>5
<1>10. ASSUME NEW v \in Starts(d), v + k <= NaiveEnd(d) PROVE v + k \in Starts(d)
  <2>1. PICK n \in 0..DayLength : v = b + n * k
    BY <1>4
  <2>2. n \in Nat /\ n * k \in Nat /\ (n + 1) * k = n * k + k /\ n + 1 <= (n + 1) * k
    BY <1>3, <1>5
  <2>3. NaiveEnd(d) < DayLength /\ NaiveEnd(d) \in Nat
    BY JobFacts
  <2>4. v + k = b + (n + 1) * k
    BY <1>1, <1>2, <2>1, <2>2
  <2>5. n + 1 \in 0..DayLength
    <3>1. (n + 1) * k \in Nat /\ b + (n + 1) * k < DayLength
      BY <1>1, <1>3, <1>10, <2>2, <2>3, <2>4
    <3> QED BY <1>2, <1>3, <2>2, <3>1
  <2> QED BY <1>4, <2>4, <2>5
<1> QED BY <1>1, <1>2, <1>7, <1>8, <1>9, <1>10


(* Whether a window comes after the change of the clocks.                  *)
After(d) ==
  \/ job.clock.day < d
  \/ /\ job.clock.day = d
     /\ NaiveStart(d) >= job.clock.at + (IF job.clock.shift > 0 THEN job.clock.shift ELSE 0)

Offset(d) == IF After(d) THEN job.clock.shift ELSE 0

(* In a window the clocks go one way, and back.                            *)
LEMMA LocalizedInWindow ==
  ASSUME JobOK, WindowsAvoidChange, NEW d, NEW w, Open(d, w)
  PROVE  /\ Localized(d, w) = d * DayLength + w - Offset(d)
         /\ AsTimezone(Localized(d, w)) = d * DayLength + w
         /\ d \in Int /\ d * DayLength \in Int /\ w \in 0..DayLength - 1 /\ Offset(d) \in Int
         /\ ~After(d) =>
              \/ job.clock.shift <= 0
              \/ d * DayLength + w < job.clock.day * DayLength + job.clock.at
         /\ After(d) /\ job.clock.shift > 0 =>
              d * DayLength + w >= job.clock.day * DayLength + job.clock.at + job.clock.shift
<1>1. PICK c : c = job.clock
  OBVIOUS
<1>2. PICK L \in Nat : L = DayLength
  BY SlotsConstants
<1>3. /\ c.day \in Int /\ c.at \in 0..L /\ c.shift \in Int /\ c.at + c.shift \in 0..L
  BY <1>1, <1>2, JobFacts
<1>4. d \in Days /\ d \in Int /\ c.day * DayLength \in Int /\ d * DayLength \in Int
  <2>1. d \in Days /\ LastDay \in Nat
    BY SlotsConstants DEF Open
  <2> QED BY <1>2, <1>3, <2>1 DEF Days
<1>5. PICK a \in Nat, b \in Nat : a = NaiveStart(d) /\ b = NaiveEnd(d) /\ a <= b /\ b < L
  BY <1>2, JobFacts DEF Open
<1>6. w \in a..b /\ w \in Nat /\ w < L /\ w \in 0..DayLength - 1
  BY <1>2, <1>5 DEF Open
<1>7. PICK D \in Int : D = d * DayLength
  BY <1>4
<1>8. PICK C \in Int : C = c.day * DayLength
  BY <1>4
<1>9. /\ d < c.day => D + L <= C
      /\ c.day < d => C + L <= D
      /\ d = c.day => D = C
  BY <1>2, <1>3, <1>4, <1>7, <1>8, DaysApart
<1>10. Localized(d, w) =
         IF c.shift >= 0
         THEN IF D + w < C + c.at + c.shift THEN D + w ELSE (D + w) - c.shift
         ELSE IF D + w < C + c.at THEN D + w ELSE (D + w) - c.shift
  <2>1. Localized(d, w) =
          IF job.clock.shift >= 0
          THEN IF d * DayLength + w < job.clock.day * DayLength + job.clock.at + job.clock.shift
               THEN d * DayLength + w ELSE (d * DayLength + w) - job.clock.shift
          ELSE IF d * DayLength + w < job.clock.day * DayLength + job.clock.at
               THEN d * DayLength + w ELSE (d * DayLength + w) - job.clock.shift
    BY DEF Localized
  <2> QED BY <1>1, <1>7, <1>8, <2>1
<1>11. \A t : AsTimezone(t) = IF t < C + c.at THEN t ELSE t + c.shift
  BY <1>1, <1>8 DEF AsTimezone
<1>12. After(d) <=> c.day < d \/ (c.day = d /\ a >= c.at + (IF c.shift > 0 THEN c.shift ELSE 0))
  BY <1>1, <1>5 DEF After
<1>13. Offset(d) = IF After(d) THEN c.shift ELSE 0
  BY <1>1 DEF Offset
<1>14. CASE After(d)
  <2>1. D + w >= C + c.at + (IF c.shift > 0 THEN c.shift ELSE 0)
    <3>1. CASE c.day < d
      BY <1>3, <1>6, <1>9, <3>1
    <3>2. CASE c.day = d
      BY <1>3, <1>6, <1>9, <1>12, <1>14, <3>2
    <3> QED BY <1>12, <1>14, <3>1, <3>2
  <2>2. Localized(d, w) = D + w - c.shift
    BY <1>3, <1>6, <1>10, <2>1
  <2>3. AsTimezone(D + w - c.shift) = D + w
    BY <1>3, <1>6, <1>11, <2>1
  <2> QED BY <1>1, <1>3, <1>4, <1>6, <1>7, <1>8, <1>13, <1>14, <2>1, <2>2, <2>3
<1>15. CASE ~After(d)
  <2>1. \/ c.shift = 0
        \/ D + w < C + c.at + (IF c.shift < 0 THEN c.shift ELSE 0)
    <3>1. CASE d < c.day
      BY <1>3, <1>6, <1>9, <3>1
    <3>2. CASE d = c.day /\ c.shift > 0
      <4>1. \A x \in a..b : ~(x \in c.at..c.at + c.shift - 1)
        BY <1>1, <1>3, <1>4, <1>5, <3>2 DEF WindowsAvoidChange, Changed, Open
      <4>2. a < c.at + c.shift
        BY <1>3, <1>12, <1>15, <3>2
      <4>3. b < c.at
        <5>1. CASE a >= c.at
          BY <1>3, <1>5, <4>1, <4>2, <5>1
        <5>2. CASE a < c.at /\ b >= c.at
          <6>1. c.at \in a..b /\ c.at \in c.at..c.at + c.shift - 1
            BY <1>3, <1>5, <3>2, <5>2
          <6> QED BY <4>1, <6>1
        <5> QED BY <1>3, <1>5, <5>1, <5>2
      <4> QED BY <1>3, <1>5, <1>6, <1>9, <3>2, <4>3
    <3>3. CASE d = c.day /\ c.shift < 0
      <4>1. \A x \in a..b : ~(x \in c.at + c.shift..c.at - 1)
        BY <1>1, <1>3, <1>4, <1>5, <3>3 DEF WindowsAvoidChange, Changed, Open
      <4>2. a < c.at
        BY <1>3, <1>12, <1>15, <3>3
      <4>3. b < c.at + c.shift
        <5>1. CASE a >= c.at + c.shift
          BY <1>3, <1>5, <4>1, <4>2, <5>1
        <5>2. CASE a < c.at + c.shift /\ b >= c.at + c.shift
          <6>1. c.at + c.shift \in a..b /\ c.at + c.shift \in c.at + c.shift..c.at - 1
            BY <1>3, <1>5, <3>3, <5>2
          <6> QED BY <4>1, <6>1
        <5> QED BY <1>3, <1>5, <5>1, <5>2
      <4> QED BY <1>3, <1>5, <1>6, <1>9, <3>3, <4>3
    <3> QED BY <1>3, <1>4, <1>12, <1>15, <3>1, <3>2, <3>3
  <2>2. Localized(d, w) = D + w
    BY <1>3, <1>6, <1>10, <2>1
  <2>3. AsTimezone(D + w) = D + w
    BY <1>3, <1>6, <1>11, <2>1
  <2>4. c.shift <= 0 \/ D + w < C + c.at
    BY <1>3, <1>6, <2>1
  <2> QED BY <1>1, <1>3, <1>4, <1>6, <1>7, <1>8, <1>13, <1>15, <2>2, <2>3, <2>4
<1> QED BY <1>14, <1>15

(* Windows are localized in their order.                                   *)
LEMMA LocalizedRises ==
  ASSUME JobOK, WindowsAvoidChange, NEW d, NEW v, Open(d, v), NEW e, NEW w, Open(e, w)
  PROVE  /\ Localized(d, v) \in Int
         /\ d < e => Localized(d, v) <= Localized(e, w)
         /\ d = e /\ v <= w => Localized(d, v) <= Localized(e, w)
         /\ d = e /\ v < w => Localized(d, v) < Localized(e, w)
<1>1. PICK s \in Int : s = job.clock.shift
  BY JobFacts
<1>2. PICK D \in Int : D = d * DayLength
  BY LocalizedInWindow
<1>3. PICK E \in Int : E = e * DayLength
  BY LocalizedInWindow
<1>4. PICK L \in Nat : L = DayLength
  BY SlotsConstants
<1>5. /\ Localized(d, v) = D + v - Offset(d) /\ v \in 0..L - 1 /\ d \in Int
      /\ Offset(d) = IF After(d) THEN s ELSE 0
  BY <1>1, <1>2, <1>4, LocalizedInWindow DEF Offset
<1>6. /\ Localized(e, w) = E + w - Offset(e) /\ w \in 0..L - 1 /\ e \in Int
      /\ Offset(e) = IF After(e) THEN s ELSE 0
  BY <1>1, <1>3, <1>4, LocalizedInWindow DEF Offset
<1>7. PICK T \in Int : T = job.clock.day * DayLength + job.clock.at
  <2>1. job.clock.day \in Int /\ DayLength \in Int /\ job.clock.at \in Int
    BY JobFacts, SlotsConstants
  <2> QED BY <2>1
<1>8. ~After(d) => s <= 0 \/ D + v < T
  BY <1>1, <1>2, <1>7, LocalizedInWindow
<1>9. After(e) /\ s > 0 => E + w >= T + s
  BY <1>1, <1>3, <1>7, LocalizedInWindow
<1>10. Localized(d, v) \in Int
  BY <1>5
<1>11. ASSUME d < e PROVE Localized(d, v) <= Localized(e, w)
  <2>1. D + L <= E
    BY <1>2, <1>3, <1>4, <1>5, <1>6, <1>11, DaysApart
  <2>2. After(d) => After(e)
    BY <1>5, <1>6, <1>11, JobFacts DEF After
  <2>3. D + v <= E + w
    BY <1>5, <1>6, <2>1
  <2> QED BY <1>5, <1>6, <1>8, <1>9, <2>2, <2>3
<1>12. ASSUME d = e PROVE /\ v <= w => Localized(d, v) <= Localized(e, w)
                          /\ v < w => Localized(d, v) < Localized(e, w)
  BY <1>2, <1>3, <1>5, <1>6, <1>12
<1> QED BY <1>10, <1>11, <1>12

(* A time of a window is seen on its day at its hour.                      *)
LEMMA LocalOfWindow ==
  ASSUME JobOK, WindowsAvoidChange, NEW d, NEW w, Open(d, w)
  PROVE  LocalDate(Localized(d, w)) = d /\ LocalTime(Localized(d, w)) = w
<1>1. PICK L \in Nat \ {0} : L = DayLength
  BY SlotsConstants
<1>2. /\ AsTimezone(Localized(d, w)) = d * L + w
      /\ d \in Int /\ d * L \in Int /\ w \in 0..L - 1
  BY <1>1, LocalizedInWindow
<1>3. PICK t \in Int : t = d * L + w
  BY <1>2
<1>4. PICK q \in Int : q = t \div L
  BY <1>1
<1>5. /\ t % L \in 0..L - 1 /\ t = L * q + (t % L)
  BY <1>1, <1>4
<1>6. q * L \in Int /\ L * q = q * L
  BY <1>1
<1>7. q = d
  <2>1. q < d => q * L + L <= d * L
    BY <1>1, <1>2, <1>4, DaysApart
  <2>2. d < q => d * L + L <= q * L
    BY <1>1, <1>2, <1>4, DaysApart
  <2> QED BY <1>2, <1>3, <1>4, <1>5, <1>6, <2>1, <2>2
<1>8. t % L = w
  BY <1>2, <1>3, <1>5, <1>6, <1>7
<1> QED BY <1>1, <1>2, <1>3, <1>4, <1>7, <1>8 DEF LocalDate, LocalTime

(* The sweep finds the first busy time that has not ended.                 *)
LEMMA AdvancedIs ==
  ASSUME JobOK, left \in 1..Len(job.busy) + 1, NEW slot \in Interval
  PROVE  /\ Advanced(slot) \in left..Len(job.busy) + 1
         /\ \A i \in left..Advanced(slot) - 1 : job.busy[i].end <= slot.start
<1>1. PICK n \in Nat : n = Len(job.busy)
  BY JobFacts
<1>2. \A i \in 1..n : job.busy[i].end \in Int
  <2>1. \A i \in 1..n : job.busy[i] \in Interval
    BY <1>1, JobFacts
  <2> QED BY <2>1 DEF Interval
<1>3. slot.start \in Int /\ left \in Nat /\ left >= 1 /\ left <= n + 1
  BY <1>1 DEF Interval
<1> DEFINE T == {i \in left..n + 1 : i <= n => job.busy[i].end > slot.start}
<1>4. T \subseteq Nat /\ T # {}
  <2>1. n + 1 \in T
    BY <1>1, <1>3
  <2>2. T \subseteq Nat
    BY <1>3
  <2> QED BY <2>1, <2>2
<1>5. PICK k \in T : \A i \in T : ~ (<<i, k>> \in OpToRel(<, Nat))
  BY <1>4, NatLessThanWellFounded, WFMin
<1>6. \A i \in T : ~(i < k)
  BY <1>4, <1>5 DEF OpToRel
<1>7. k \in left..n + 1 /\ (k <= n => job.busy[k].end > slot.start)
  BY <1>5
<1>8. ASSUME NEW i \in left..k - 1 PROVE job.busy[i].end <= slot.start
  <2>1. i \in left..n + 1 /\ i < k /\ i <= n /\ i \in 1..n
    BY <1>1, <1>3, <1>7
  <2>2. i \notin T
    BY <1>6, <2>1
  <2>3. ~(job.busy[i].end > slot.start)
    BY <2>1, <2>2
  <2> QED BY <1>2, <1>3, <2>1, <2>3
<1> HIDE DEF T
<1>9. \E m \in left..Len(job.busy) + 1 :
        /\ \A i \in left..m - 1 : job.busy[i].end <= slot.start
        /\ m <= Len(job.busy) => job.busy[m].end > slot.start
  BY <1>1, <1>7, <1>8
<1> QED BY <1>9 DEF Advanced

(* The scan stops at the first busy time that begins after the slot.       *)
LEMMA FreeIsVacant ==
  ASSUME JobOK, NEW slot \in Interval, NEW k \in 1..Len(job.busy) + 1,
         \A i \in 1..k - 1 : job.busy[i].end <= slot.start
  PROVE  Free(slot, k) <=> Vacant(slot)
<1>1. PICK n \in Nat : n = Len(job.busy)
  BY JobFacts
<1>2. /\ DOMAIN job.busy = 1..n
      /\ \A i \in 1..n : job.busy[i].start \in Int /\ job.busy[i].end \in Int
      /\ slot.start \in Int /\ slot.end \in Int
      /\ k \in Nat /\ k >= 1 /\ k <= n + 1
  <2>1. DOMAIN job.busy = 1..n /\ \A i \in 1..n : job.busy[i] \in Interval
    BY <1>1, JobFacts
  <2>2. k \in Nat /\ k >= 1 /\ k <= n + 1
    BY <1>1
  <2> QED BY <2>1, <2>2 DEF Interval
<1>3. ASSUME Vacant(slot) PROVE Free(slot, k)
  BY <1>1, <1>2, <1>3 DEF Vacant, Free
<1>4. ASSUME Free(slot, k), NEW i \in DOMAIN job.busy PROVE ~Overlaps(slot, job.busy[i])
  <2>1. CASE i < k
    <3>1. i \in 1..k - 1 /\ i \in 1..n
      BY <1>2, <2>1
    <3> QED BY <1>2, <3>1 DEF Overlaps
  <2>2. CASE ~(i < k)
    <3>1. i \in k..n /\ i \in 1..n
      BY <1>2, <2>2
    <3>2. SUFFICES ASSUME Overlaps(slot, job.busy[i]) PROVE FALSE
      OBVIOUS
    <3>3. job.busy[i].start < slot.end
      BY <3>2 DEF Overlaps
    <3>4. ASSUME NEW j \in k..i PROVE job.busy[j].start < slot.end
      <4>1. j \in 1..n /\ j <= i
        BY <1>2, <3>1
      <4>2. job.busy[j].start <= job.busy[i].start
        <5>1. j < i => job.busy[j].start <= job.busy[i].start
          BY <1>2, <3>1, <4>1 DEF JobOK
        <5> QED BY <1>2, <3>1, <4>1, <5>1
      <4> QED BY <1>2, <3>1, <3>3, <4>1, <4>2
    <3>5. ~Overlaps(slot, job.busy[i])
      BY <1>1, <1>4, <3>1, <3>4 DEF Free
    <3> QED BY <3>2, <3>5
  <2> QED BY <2>1, <2>2
<1> QED BY <1>3, <1>4 DEF Vacant


LEMMA LocalizedIsInt ==
  ASSUME JobOK, NEW d \in Int, NEW w \in Int
  PROVE  Localized(d, w) \in Int
<1>1. /\ job.clock.day \in Int /\ job.clock.at \in Int /\ job.clock.shift \in Int
      /\ DayLength \in Int
  BY JobFacts, SlotsConstants
<1>2. d * DayLength \in Int /\ job.clock.day * DayLength \in Int
  BY <1>1
<1> QED BY <1>1, <1>2 DEF Localized

(* The request stays as it is.                                             *)
LEMMA JobStays ==
  ASSUME UNCHANGED job
  PROVE  /\ JobOK => JobOK'
         /\ WindowsAvoidChange' <=> WindowsAvoidChange
         /\ \A d, w : /\ Localized(d, w)' = Localized(d, w)
                      /\ Position(d, w)' <=> Position(d, w)
                      /\ SlotAt(d, w)' = SlotAt(d, w)
                      /\ Open(d, w)' <=> Open(d, w)
         /\ \A d : /\ Works(d)' <=> Works(d)
                   /\ WindowFor(d)' = WindowFor(d)
                   /\ NaiveStart(d)' = NaiveStart(d) /\ NaiveEnd(d)' = NaiveEnd(d)
                   /\ Starts(d)' = Starts(d)
         /\ \A s : Vacant(s)' <=> Vacant(s)
<1>1. JobOK => JobOK'
  BY DEF JobOK
<1>2. WindowsAvoidChange' <=> WindowsAvoidChange
  BY DEF WindowsAvoidChange, Works, NaiveStart, NaiveEnd, ToTheMinute, WindowFor
<1>3. \A d, w : Localized(d, w)' = Localized(d, w)
  BY DEF Localized
<1>4. \A d : /\ Works(d)' = Works(d) /\ WindowFor(d)' = WindowFor(d) /\ Starts(d)' = Starts(d)
            /\ NaiveStart(d)' = NaiveStart(d) /\ NaiveEnd(d)' = NaiveEnd(d)
  BY DEF Works, WindowFor, NaiveStart, NaiveEnd, ToTheMinute, Starts
<1>5. \A d, w : Position(d, w)' = Position(d, w) /\ Open(d, w)' = Open(d, w)
  BY <1>4 DEF Position, Open
<1>6. \A d, w : SlotAt(d, w)' = SlotAt(d, w)
  BY <1>3 DEF SlotAt
<1>7. \A s : Vacant(s)' = Vacant(s)
  BY DEF Vacant
<1> QED BY <1>1, <1>2, <1>3, <1>4, <1>5, <1>6, <1>7

(* Where the carving goes on from a position.                              *)
LEMMA PositionFacts ==
  ASSUME JobOK, NEW d \in Days, NEW w, Position(d, w)
  PROVE  /\ Works(d) /\ w \in Nat /\ w < DayLength /\ w \in 0..DayLength
         /\ w + job.duration \in Nat /\ w < w + job.duration
         /\ Open(d, w) /\ Open(d, w + job.duration)
         /\ SlotAt(d, w) \in Interval
<1>1. Works(d) /\ w \in Starts(d) /\ w + job.duration <= NaiveEnd(d)
  BY DEF Position
<1>2. w \in Nat /\ NaiveStart(d) <= w
  BY <1>1, StartsApart
<1>3. /\ job.duration \in Nat /\ job.duration >= 1
      /\ NaiveStart(d) \in Nat /\ NaiveEnd(d) \in Nat /\ NaiveEnd(d) < DayLength
      /\ DayLength \in Nat
  BY <1>1, JobFacts, SlotsConstants
<1>4. /\ w < DayLength /\ w \in 0..DayLength /\ w + job.duration \in Nat
      /\ w < w + job.duration
      /\ w \in NaiveStart(d)..NaiveEnd(d)
      /\ w + job.duration \in NaiveStart(d)..NaiveEnd(d)
  BY <1>1, <1>2, <1>3
<1>5. SlotAt(d, w) \in Interval
  <2>1. d \in Int /\ w \in Int /\ w + job.duration \in Int
    BY <1>2, <1>3, SlotsConstants DEF Days
  <2>2. Localized(d, w) \in Int /\ Localized(d, w + job.duration) \in Int
    BY <2>1, LocalizedIsInt
  <2> QED BY <2>2 DEF SlotAt, Interval
<1> QED BY <1>1, <1>2, <1>4, <1>5 DEF Open

(* Enough for what is found to be found after a step.                      *)
LEMMA FoundAfter ==
  ASSUME UNCHANGED job,
         \A i \in DOMAIN slots' : \E d \in Days, w \in 0..DayLength :
           Position(d, w) /\ Reached(d, w)' /\ slots'[i] = SlotAt(d, w) /\ Vacant(slots'[i]),
         \A d \in Days, w \in 0..DayLength :
           Position(d, w) /\ Reached(d, w)' /\ Vacant(SlotAt(d, w)) =>
             \E i \in DOMAIN slots' : slots'[i] = SlotAt(d, w)
  PROVE  Found'
<1>1. \A d, w : (Position(d, w)' <=> Position(d, w)) /\ SlotAt(d, w)' = SlotAt(d, w)
  BY JobStays
<1>2. \A i : Vacant(slots'[i]) <=> Vacant(slots[i])'
  BY DEF Vacant
<1>3. ASSUME NEW i \in DOMAIN slots'
      PROVE  \E d \in Days, w \in 0..DayLength :
               Position(d, w)' /\ Reached(d, w)' /\ slots'[i] = SlotAt(d, w)' /\ Vacant(slots[i])'
  BY <1>1, <1>2
<1>4. ASSUME NEW d \in Days, NEW w \in 0..DayLength,
             Position(d, w)', Reached(d, w)', Vacant(SlotAt(d, w))'
      PROVE  \E i \in DOMAIN slots' : slots'[i] = SlotAt(d, w)'
  <2>1. PICK s : s = SlotAt(d, w)
    OBVIOUS
  <2>2. SlotAt(d, w)' = s /\ Position(d, w)
    BY <1>1, <1>4, <2>1
  <2>3. Vacant(s)
    BY <1>4, <2>2 DEF Vacant
  <2>4. Position(d, w) /\ Reached(d, w)' /\ Vacant(SlotAt(d, w))
    BY <1>4, <2>1, <2>2, <2>3
  <2>5. \E i \in DOMAIN slots' : slots'[i] = SlotAt(d, w)
    BY <2>4
  <2> QED BY <2>1, <2>2, <2>5
<1> QED BY <1>3, <1>4 DEF Found

LEMMA CarveStep ==
  ASSUME SlotsIInv, Carve
  PROVE  SlotsIInv'
<1>1. /\ JobOK /\ day \in Days /\ Works(day) /\ day \notin job.off
      /\ at \in Starts(day) /\ at + job.duration <= NaiveEnd(day)
      /\ UNCHANGED <<job, day>> /\ at' = at + job.duration
      /\ left \in 1..Len(job.busy) + 1 /\ slots \in Seq(Interval)
  BY DEF SlotsIInv, Carve, Fits
<1>2. Position(day, at)
  BY <1>1 DEF Position
<1>3. PICK k \in Nat : k = job.duration /\ k >= 1
  BY <1>1, JobFacts
<1>4. /\ at \in Nat /\ at + k \in Nat /\ Open(day, at) /\ Open(day, at + k)
      /\ at \in 0..DayLength /\ SlotAt(day, at) \in Interval
  BY <1>1, <1>2, <1>3, PositionFacts
<1>5. PICK slot \in Interval : slot = SlotAt(day, at)
  BY <1>4
<1>6. slot.start = Localized(day, at) /\ slot.end = Localized(day, at + k)
  BY <1>3, <1>5 DEF SlotAt
<1>7. /\ left' = Advanced(slot)
      /\ slots' = IF Free(slot, left') THEN Append(slots, slot) ELSE slots
  BY <1>5 DEF Carve, Candidate, SlotAt
<1>8. /\ left' \in left..Len(job.busy) + 1
      /\ \A i \in left..left' - 1 : job.busy[i].end <= slot.start
  BY <1>1, <1>7, AdvancedIs
<1>9. PICK n \in Nat : n = Len(job.busy)
  BY <1>1, JobFacts
<1>10. /\ left \in 1..n + 1 /\ left' \in left..n + 1 /\ left' \in 1..n + 1
       /\ left \in Nat /\ left' \in Nat /\ 1 <= left /\ left <= left' /\ left' <= n + 1
  BY <1>1, <1>8, <1>9
(* The types.                                                              *)
<1>11. /\ JobOK' /\ day' \in 0..LastDay + 1 /\ at' \in 0..DayLength
       /\ day' \in Days /\ Works(day)' => at' \in Starts(day)' /\ at' <= NaiveEnd(day)'
       /\ left' \in 1..Len(job.busy)' + 1
       /\ slots' \in Seq(Interval)
  <2>1. at' \in Starts(day) /\ at' <= NaiveEnd(day)
    BY <1>1, StartsApart
  <2>2. at' \in 0..DayLength
    <3>1. NaiveEnd(day) < DayLength /\ NaiveEnd(day) \in Nat /\ DayLength \in Nat
      BY <1>1, JobFacts, SlotsConstants
    <3> QED BY <1>1, <1>3, <1>4, <2>1, <3>1
  <2>3. day' \in 0..LastDay + 1
    BY <1>1 DEF SlotsIInv
  <2>4. slots' \in Seq(Interval)
    BY <1>1, <1>7
  <2>5. Starts(day)' = Starts(day) /\ NaiveEnd(day)' = NaiveEnd(day)
    BY <1>1 DEF Starts, NaiveStart, NaiveEnd, ToTheMinute, WindowFor
  <2> QED BY <1>1, <1>9, <1>10, <2>1, <2>2, <2>3, <2>4, <2>5, JobStays
(* What is found.                                                          *)
<1>12. ASSUME WindowsAvoidChange PROVE Passed' /\ Ordered' /\ Found'
  <2>1. Passed /\ Ordered /\ Found
    BY <1>12 DEF SlotsIInv
  <2>2. Ahead(day, at)
    BY <1>4 DEF Ahead
  <2>3. ASSUME NEW d \in Days, NEW w \in 0..DayLength, Ahead(d, w)'
        PROVE  /\ Ahead(d, w) /\ Localized(d, w)' = Localized(d, w) /\ Localized(d, w) \in Int
               /\ slot.start <= Localized(d, w) /\ slot.end <= Localized(d, w)
    <3>1. Open(d, w) /\ (day < d \/ (day = d /\ at + k <= w))
      BY <1>1, <1>3, <2>3, JobStays DEF Ahead
    <3>2. w \in Nat /\ at <= at + k
      BY <1>3, <1>4, SlotsConstants
    <3>3. day < d \/ (day = d /\ at <= w /\ at + k <= w)
      BY <1>3, <1>4, <3>1, <3>2
    <3>4. slot.start <= Localized(d, w) /\ slot.end <= Localized(d, w) /\ Localized(d, w) \in Int
      BY <1>1, <1>4, <1>6, <1>12, <3>1, <3>3, LocalizedRises
    <3> QED BY <1>1, <3>1, <3>3, <3>4, JobStays DEF Ahead
  <2> DEFINE Clear(t) == \A d \in Days, w \in 0..DayLength : Ahead(d, w)' => t <= Localized(d, w)
  <2>4. \A t : Behind(t) => Clear(t) /\ t <= slot.start
    <3>1. \A t : Behind(t) => Clear(t)
      BY <2>3 DEF Behind
    <3>2. \A t : Behind(t) => t <= slot.start
      BY <1>1, <1>4, <1>6, <2>2 DEF Behind
    <3> QED BY <3>1, <3>2
  <2>5. \A t \in Int : t <= slot.start \/ t <= slot.end => Clear(t)
    <3>1. slot.start \in Int /\ slot.end \in Int
      BY DEF Interval
    <3> QED BY <2>3, <3>1
  <2>6. \A i \in 1..n : job.busy[i].end \in Int
    <3>1. \A i \in 1..n : job.busy[i] \in Interval
      BY <1>1, <1>9, JobFacts
    <3> QED BY <3>1 DEF Interval
  <2>7. \A d \in Days, w \in 0..DayLength : Localized(d, w)' = Localized(d, w)
    BY <1>1, JobStays
  <2>8. ASSUME NEW i \in 1..left' - 1
        PROVE  job.busy[i].end <= slot.start /\ Clear(job.busy[i].end)
    <3> HIDE DEF Clear
    <3>1. PICK l \in Nat : l = left
      BY <1>10
    <3>2. PICK r \in Nat : r = left'
      BY <1>10
    <3>3. i \in 1..r - 1 /\ r <= n + 1
      BY <1>10, <2>8, <3>2
    <3>4. i \in 1..n /\ i \in Nat /\ i <= r - 1
      BY <3>3
    <3>5. CASE i < l
      <4>1. i \in 1..l - 1
        BY <3>4, <3>5
      <4>2. Behind(job.busy[i].end)
        BY <2>1, <3>1, <4>1 DEF Passed
      <4> QED BY <2>4, <4>2
    <3>6. CASE ~(i < l)
      <4>1. i \in l..r - 1
        BY <3>4, <3>6
      <4>2. \A j \in l..r - 1 : job.busy[j].end <= slot.start
        BY <1>8, <3>1, <3>2
      <4>3. job.busy[i].end <= slot.start /\ job.busy[i].end \in Int
        BY <2>6, <3>4, <4>1, <4>2
      <4> QED BY <2>5, <4>3
    <3> QED BY <3>5, <3>6
  <2>9. Passed'
    BY <1>1, <2>7, <2>8 DEF Passed, Behind
  <2>10. Free(slot, left') <=> Vacant(slot)
    <3>1. PICK l \in 1..Len(job.busy) + 1 : l = left'
      BY <1>9, <1>10
    <3>2. \A i \in 1..l - 1 : job.busy[i].end <= slot.start
      BY <2>8, <3>1
    <3> QED BY <1>1, <3>1, <3>2, FreeIsVacant
  <2>11. PICK m \in Nat : m = Len(slots) /\ DOMAIN slots = 1..m
    BY <1>1
  <2>12. PICK e \in Days : e = day
    BY <1>1
  <2>13. PICK v \in 0..DayLength : v = at /\ v \in Nat
    BY <1>4
  <2>14. \A d \in Days, w \in 0..DayLength : Reached(d, w)' <=> d < e \/ (d = e /\ w < v + k)
    BY <1>1, <1>3, <2>12, <2>13 DEF Reached
  <2>15. Position(e, v) /\ Reached(e, v)' /\ slot = SlotAt(e, v)
    <3>1. e = e /\ v < v + k
      BY <1>3, <2>13
    <3> QED BY <1>2, <1>5, <2>12, <2>13, <2>14, <3>1
  <2>16. \A i \in 1..m : \E d \in Days, w \in 0..DayLength :
           Position(d, w) /\ Reached(d, w)' /\ slots[i] = SlotAt(d, w) /\ Vacant(slots[i])
    <3>1. \A d \in Days, w \in 0..DayLength : Reached(d, w) => Reached(d, w)'
      <4>1. DayLength \in Nat
        BY SlotsConstants
      <4> QED BY <1>3, <2>12, <2>13, <2>14, <4>1 DEF Reached
    <3> QED BY <2>1, <2>11, <3>1 DEF Found
  <2>17. ASSUME NEW d \in Days, NEW w \in 0..DayLength,
                Position(d, w), Reached(d, w)', Vacant(SlotAt(d, w))
         PROVE  (\E i \in 1..m : slots[i] = SlotAt(d, w)) \/ SlotAt(d, w) = slot
    <3>1. CASE Reached(d, w)
      BY <2>1, <2>11, <2>17, <3>1 DEF Found
    <3>2. CASE ~Reached(d, w)
      <4>1. d = e /\ w \in Starts(e) /\ ~(w < v) /\ w < v + k
        BY <2>12, <2>13, <2>14, <2>17, <3>2 DEF Reached, Position
      <4>2. w <= v /\ w \in Nat
        BY <1>1, <1>3, <2>12, <2>13, <4>1, StartsApart
      <4>3. w = v
        BY <2>13, <4>1, <4>2
      <4> QED BY <2>15, <4>1, <4>3
    <3> QED BY <3>1, <3>2
  <2>18. \A i \in 1..m : Clear(slots[i].end) /\ slots[i].end <= slot.start
    BY <2>1, <2>4, <2>11 DEF Ordered
  <2>19. CASE Vacant(slot)
    <3>1. /\ DOMAIN slots' = 1..m + 1 /\ slots'[m + 1] = slot
          /\ \A i \in 1..m : slots'[i] = slots[i]
      BY <1>1, <1>7, <2>10, <2>11, <2>19
    <3>2. \A i \in 1..m + 1 : i \in 1..m \/ i = m + 1
      OBVIOUS
    <3>3. Clear(slot.end)
      <4>1. slot.end \in Int /\ slot.end <= slot.end
        BY DEF Interval
      <4> QED BY <2>5, <4>1
    <3>4. Ordered'
      <4>1. \A i \in DOMAIN slots' : Clear(slots'[i].end)
        <5> HIDE DEF Clear
        <5> QED BY <2>18, <3>1, <3>2, <3>3
      <4>2. ASSUME NEW i \in DOMAIN slots', NEW j \in DOMAIN slots', i < j
            PROVE  slots'[i].end <= slots'[j].start
        <5>1. i \in 1..m
          BY <3>1, <4>2
        <5>2. CASE j \in 1..m
          BY <2>1, <2>11, <3>1, <4>2, <5>1, <5>2 DEF Ordered
        <5>3. CASE j = m + 1
          BY <2>18, <3>1, <5>1, <5>3
        <5> QED BY <3>1, <3>2, <5>2, <5>3
      <4> QED BY <2>7, <4>1, <4>2 DEF Ordered, Behind
    <3>5. ASSUME NEW i \in DOMAIN slots'
          PROVE  \E d \in Days, w \in 0..DayLength :
                   Position(d, w) /\ Reached(d, w)' /\ slots'[i] = SlotAt(d, w) /\ Vacant(slots'[i])
      <4>1. CASE i \in 1..m
        <5>1. slots'[i] = slots[i]
          BY <3>1, <4>1
        <5> QED BY <2>16, <4>1, <5>1
      <4>2. CASE i = m + 1
        <5>1. slots'[i] = slot
          BY <3>1, <4>2
        <5> QED BY <2>15, <2>19, <5>1
      <4> QED BY <3>1, <3>2, <4>1, <4>2
    <3>6. ASSUME NEW d \in Days, NEW w \in 0..DayLength,
                 Position(d, w), Reached(d, w)', Vacant(SlotAt(d, w))
          PROVE  \E i \in DOMAIN slots' : slots'[i] = SlotAt(d, w)
      <4>1. m + 1 \in DOMAIN slots' /\ \A i \in 1..m : i \in DOMAIN slots'
        BY <3>1
      <4> QED BY <2>17, <3>1, <3>6, <4>1
    <3>7. Found'
      BY <1>1, <3>5, <3>6, FoundAfter
    <3> QED BY <2>9, <3>4, <3>7
  <2>20. CASE ~Vacant(slot)
    <3>1. slots' = slots /\ DOMAIN slots' = 1..m
      BY <1>7, <2>10, <2>11, <2>20
    <3>2. Ordered'
      <4>1. \A i \in DOMAIN slots' : Clear(slots'[i].end)
        <5> HIDE DEF Clear
        <5> QED BY <2>11, <2>18, <3>1
      <4> QED BY <2>1, <2>7, <3>1, <4>1 DEF Ordered, Behind
    <3>3. \A i \in DOMAIN slots' : \E d \in Days, w \in 0..DayLength :
            Position(d, w) /\ Reached(d, w)' /\ slots'[i] = SlotAt(d, w) /\ Vacant(slots'[i])
      BY <2>16, <3>1
    <3>4. ASSUME NEW d \in Days, NEW w \in 0..DayLength,
                 Position(d, w), Reached(d, w)', Vacant(SlotAt(d, w))
          PROVE  \E i \in DOMAIN slots' : slots'[i] = SlotAt(d, w)
      BY <2>17, <2>20, <3>1, <3>4
    <3>5. Found'
      BY <1>1, <3>3, <3>4, FoundAfter
    <3> QED BY <2>9, <3>2, <3>5
  <2> QED BY <2>19, <2>20
<1>13. WindowsAvoidChange' => Passed' /\ Ordered' /\ Found'
  BY <1>1, <1>12, JobStays
<1> QED BY <1>11, <1>13 DEF SlotsIInv


LEMMA NextDayStep ==
  ASSUME SlotsIInv, NextDay
  PROVE  SlotsIInv'
<1>1. /\ JobOK /\ day \in Days /\ ~Fits /\ UNCHANGED <<job, left, slots>> /\ day' = day + 1
      /\ at' = IF day < LastDay /\ Works(day + 1) THEN NaiveStart(day + 1) ELSE 0
      /\ at \in 0..DayLength /\ left \in 1..Len(job.busy) + 1 /\ slots \in Seq(Interval)
      /\ Works(day) => at \in Starts(day)
  BY DEF SlotsIInv, NextDay
<1>2. PICK e \in Nat : e = day /\ e \in Days /\ e <= LastDay /\ LastDay \in Nat
  BY <1>1, SlotsConstants DEF Days
<1>3. PICK a : a = at'
  OBVIOUS
<1>4. PICK k \in Nat : k = job.duration /\ k >= 1
  BY <1>1, JobFacts
(* The types.                                                              *)
<1>5. ASSUME e + 1 \in Days, Works(e + 1)
      PROVE  /\ a = NaiveStart(e + 1) /\ a \in Nat /\ a \in Starts(e + 1)
             /\ a <= NaiveEnd(e + 1) /\ a \in 0..DayLength
  <2>1. e < LastDay
    BY <1>2, <1>5 DEF Days
  <2>2. a = NaiveStart(e + 1)
    BY <1>1, <1>2, <1>3, <1>5, <2>1
  <2>3. /\ NaiveStart(e + 1) \in Nat /\ NaiveEnd(e + 1) \in Nat /\ DayLength \in Nat
        /\ NaiveStart(e + 1) <= NaiveEnd(e + 1) /\ NaiveEnd(e + 1) < DayLength
    BY <1>1, <1>5, JobFacts, SlotsConstants
  <2>4. NaiveStart(e + 1) \in Starts(e + 1)
    BY <1>1, <1>5, StartsApart
  <2> QED BY <2>2, <2>3, <2>4
<1>6. a \in 0..DayLength
  <2>1. CASE e < LastDay /\ Works(e + 1)
    BY <1>2, <1>5, <2>1 DEF Days
  <2>2. CASE ~(e < LastDay /\ Works(e + 1))
    BY <1>1, <1>2, <1>3, <2>2, SlotsConstants
  <2> QED BY <2>1, <2>2
<1>7. /\ JobOK' /\ day' \in 0..LastDay + 1 /\ at' \in 0..DayLength
      /\ day' \in Days /\ Works(day)' => at' \in Starts(day)' /\ at' <= NaiveEnd(day)'
      /\ left' \in 1..Len(job.busy)' + 1
      /\ slots' \in Seq(Interval)
  <2>1. Works(day)' = Works(e + 1) /\ Starts(day)' = Starts(e + 1)
        /\ NaiveEnd(day)' = NaiveEnd(e + 1)
    BY <1>1, <1>2 DEF Works, WindowFor, NaiveStart, NaiveEnd, ToTheMinute, Starts
  <2>2. day' = e + 1 /\ day' \in 0..LastDay + 1
    BY <1>1, <1>2
  <2>3. day' \in Days /\ Works(day)' => at' \in Starts(day)' /\ at' <= NaiveEnd(day)'
    BY <1>3, <1>5, <2>1, <2>2
  <2> QED BY <1>1, <1>3, <1>6, <2>2, <2>3, JobStays
(* What is found.                                                          *)
<1>8. ASSUME WindowsAvoidChange PROVE Passed' /\ Ordered' /\ Found'
  <2>1. Passed /\ Ordered /\ Found
    BY <1>8 DEF SlotsIInv
  <2>2. ASSUME NEW d \in Days, NEW w \in 0..DayLength
        PROVE  /\ Localized(d, w)' = Localized(d, w)
               /\ Ahead(d, w)' => Ahead(d, w)
    <3>1. d \in Int
      BY SlotsConstants DEF Days
    <3>2. Ahead(d, w)' => Open(d, w) /\ e < d
      BY <1>1, <1>2, <3>1, JobStays DEF Ahead
    <3> QED BY <1>1, <1>2, <3>2, JobStays DEF Ahead
  <2>3. \A t : Behind(t) => \A d \in Days, w \in 0..DayLength : Ahead(d, w)' => t <= Localized(d, w)'
    BY <2>2 DEF Behind
  <2>4. Passed'
    BY <1>1, <2>1, <2>3 DEF Passed, Behind
  <2>5. Ordered'
    BY <1>1, <2>1, <2>3 DEF Ordered, Behind
  <2>6. ASSUME NEW d \in Days, NEW w \in 0..DayLength, Position(d, w)
        PROVE  Reached(d, w)' <=> Reached(d, w)
    <3>1. /\ d \in Int /\ w \in Nat /\ Works(d) /\ d \notin job.off /\ w \in Starts(d)
          /\ w + k <= NaiveEnd(d) /\ NaiveStart(d) <= w
          /\ NaiveEnd(d) \in Nat
      <4>1. Works(d) /\ d \notin job.off /\ w \in Starts(d) /\ w + k <= NaiveEnd(d)
        BY <1>4, <2>6 DEF Position
      <4>2. w \in Nat /\ NaiveStart(d) <= w /\ NaiveEnd(d) \in Nat
        BY <1>1, <4>1, JobFacts, StartsApart
      <4> QED BY <4>1, <4>2, SlotsConstants DEF Days
    <3>2. Reached(d, w)' <=> d < e + 1 \/ (d = e + 1 /\ w < a)
      BY <1>1, <1>2, <1>3 DEF Reached
    <3>3. d = e + 1 => ~(w < a)
      <4>1. d = e + 1 => a = NaiveStart(d)
        BY <1>5, <3>1
      <4>2. NaiveStart(d) \in Nat
        BY <1>1, <3>1, JobFacts
      <4> QED BY <3>1, <4>1, <4>2
    <3>4. d = e => w < at
      <4>1. SUFFICES ASSUME d = e PROVE w < at
        OBVIOUS
      <4>2. ~(at + k <= NaiveEnd(d))
        BY <1>1, <1>2, <1>4, <3>1, <4>1 DEF Fits
      <4>3. at \in Nat
        BY <1>1, SlotsConstants
      <4> QED BY <1>4, <3>1, <4>2, <4>3
    <3> QED BY <1>2, <3>1, <3>2, <3>3, <3>4 DEF Reached
  <2>7. \A i \in DOMAIN slots' : \E d \in Days, w \in 0..DayLength :
          Position(d, w) /\ Reached(d, w)' /\ slots'[i] = SlotAt(d, w) /\ Vacant(slots'[i])
    BY <1>1, <2>1, <2>6 DEF Found
  <2>8. \A d \in Days, w \in 0..DayLength :
          Position(d, w) /\ Reached(d, w)' /\ Vacant(SlotAt(d, w)) =>
            \E i \in DOMAIN slots' : slots'[i] = SlotAt(d, w)
    BY <1>1, <2>1, <2>6 DEF Found
  <2>9. Found'
    BY <1>1, <2>7, <2>8, FoundAfter
  <2> QED BY <2>4, <2>5, <2>9
<1>9. WindowsAvoidChange' => Passed' /\ Ordered' /\ Found'
  BY <1>1, <1>8, JobStays
<1> QED BY <1>7, <1>9 DEF SlotsIInv

LEMMA SlotsInitially == SlotsInit => SlotsIInv
<1> SUFFICES ASSUME SlotsInit PROVE SlotsIInv
  OBVIOUS
<1>1. PICK hours \in [Days -> Windows \cup {NoWindow}], off \in SUBSET Days, clock \in Clocks,
           duration \in Durations, busy \in SortedByStart, when \in Nows :
        job = [hours |-> hours, off |-> off, clock |-> clock, duration |-> duration,
               busy |-> busy, now |-> when]
  BY Zenon DEF SlotsInit
<1>2. /\ day = 0 /\ at = (IF Works(0) THEN NaiveStart(0) ELSE 0)
      /\ left = 1 /\ slots = << >>
  BY DEF SlotsInit
<1>3. busy \in Seq(Interval) /\ \A i, j \in DOMAIN busy : i < j => busy[i].start <= busy[j].start
  <2>1. busy \in BoundedSeq(BusyTimes, MaxBusy)
    BY DEF SortedByStart
  <2>2. PICK n \in 0..MaxBusy : busy \in [1..n -> BusyTimes]
    BY <2>1, SlotsConstants DEF BoundedSeq, SeqOf
  <2>3. n \in Nat /\ busy \in [1..n -> Interval]
    BY <2>2, SlotsConstants
  <2>4. busy \in Seq(Interval)
    BY <2>3
  <2> QED BY <2>4 DEF SortedByStart
<1>4. JobOK
  <2>1. job \in [hours : [Days -> Windows \cup {NoWindow}], off : SUBSET Days, clock : Clocks,
                 duration : Durations, busy : Seq(Interval), now : Nows]
    BY <1>1, <1>3
  <2>2. job.busy = busy
    BY <1>1
  <2> QED BY <1>3, <2>1, <2>2 DEF JobOK
<1>5. 0 \in Days /\ LastDay \in Nat /\ DayLength \in Nat
  BY SlotsConstants DEF Days
<1>6. Works(0) => at \in Starts(0) /\ at <= NaiveEnd(0) /\ at = NaiveStart(0)
  BY <1>2, <1>4, <1>5, JobFacts, StartsApart
<1>7. at \in 0..DayLength
  <2>1. CASE Works(0)
    <3>1. /\ NaiveStart(0) \in Nat /\ NaiveEnd(0) \in Nat
          /\ NaiveStart(0) <= NaiveEnd(0) /\ NaiveEnd(0) < DayLength
      BY <1>4, <1>5, <2>1, JobFacts
    <3> QED BY <1>5, <1>6, <2>1, <3>1
  <2>2. CASE ~Works(0)
    BY <1>2, <1>5, <2>2
  <2> QED BY <2>1, <2>2
<1>8. left \in 1..Len(job.busy) + 1
  <2>1. Len(job.busy) \in Nat
    BY <1>4, JobFacts
  <2> QED BY <1>2, <2>1
<1>9. Passed /\ Ordered
  BY <1>2 DEF Passed, Ordered
<1>10. Found
  <2>1. DOMAIN slots = {}
    BY <1>2
  <2>2. ASSUME NEW d \in Days, NEW w \in 0..DayLength, Position(d, w), Reached(d, w) PROVE FALSE
    <3>1. d \in Nat /\ Works(d) /\ w \in Nat /\ NaiveStart(d) <= w /\ NaiveStart(d) \in Nat
      <4>1. Works(d) /\ w \in Starts(d)
        BY <2>2 DEF Position
      <4>2. w \in Nat /\ NaiveStart(d) <= w /\ NaiveStart(d) \in Nat
        BY <1>4, <4>1, JobFacts, StartsApart
      <4> QED BY <4>1, <4>2, SlotsConstants DEF Days
    <3>2. d = 0 /\ w < at
      BY <1>2, <2>2, <3>1 DEF Reached
    <3> QED BY <1>6, <3>1, <3>2
  <2> QED BY <2>1, <2>2 DEF Found
<1>11. /\ day \in 0..LastDay + 1 /\ slots \in Seq(Interval)
       /\ day \in Days /\ Works(day) => at \in Starts(day) /\ at <= NaiveEnd(day)
  BY <1>2, <1>5, <1>6
<1> QED BY <1>4, <1>7, <1>8, <1>9, <1>10, <1>11 DEF SlotsIInv

LEMMA SlotsInductive == SlotsIInv /\ [SlotsNext]_slotVars => SlotsIInv'
<1> SUFFICES ASSUME SlotsIInv, [SlotsNext]_slotVars PROVE SlotsIInv'
  OBVIOUS
<1>1. CASE Carve
  BY <1>1, CarveStep
<1>2. CASE NextDay
  BY <1>2, NextDayStep
<1>3. CASE UNCHANGED slotVars
  <2>1. /\ job' = job /\ day' = day /\ at' = at /\ left' = left /\ slots' = slots
    BY <1>3 DEF slotVars
  <2>2. \A t : Behind(t)' <=> Behind(t)
    BY <2>1, JobStays DEF Behind, Ahead
  <2>3. (Passed' <=> Passed) /\ (Ordered' <=> Ordered)
    BY <2>1, <2>2 DEF Passed, Ordered
  <2>4. Found => Found'
    <3>1. \A d, w : Reached(d, w)' <=> Reached(d, w)
      BY <2>1 DEF Reached
    <3> QED BY <2>1, <3>1, FoundAfter DEF Found
  <2>5. \A d : (Works(d)' <=> Works(d)) /\ WindowFor(d)' = WindowFor(d) /\ Starts(d)' = Starts(d)
    BY <2>1, JobStays
  <2>6. /\ JobOK' /\ day' \in 0..LastDay + 1 /\ at' \in 0..DayLength
        /\ day' \in Days /\ Works(day)' => at' \in Starts(day)' /\ at' <= NaiveEnd(day)'
        /\ left' \in 1..Len(job.busy)' + 1
        /\ slots' \in Seq(Interval)
    <3>1. /\ JobOK /\ day \in 0..LastDay + 1 /\ at \in 0..DayLength
          /\ day \in Days /\ Works(day) => at \in Starts(day) /\ at <= NaiveEnd(day)
          /\ left \in 1..Len(job.busy) + 1 /\ slots \in Seq(Interval)
      BY DEF SlotsIInv
    <3>2. (Works(day)' <=> Works(day)) /\ NaiveEnd(day)' = NaiveEnd(day)
          /\ Starts(day)' = Starts(day)
      BY <2>1 DEF Works, WindowFor, NaiveStart, NaiveEnd, ToTheMinute, Starts
    <3> QED BY <2>1, <3>1, <3>2, JobStays
  <2>7. WindowsAvoidChange' => Passed' /\ Ordered' /\ Found'
    BY <2>1, <2>3, <2>4, JobStays DEF SlotsIInv
  <2> QED BY <2>6, <2>7 DEF SlotsIInv
<1> QED BY <1>1, <1>2, <1>3 DEF SlotsNext


(* At all times what was offered so far is what is free of what was carved.*)
THEOREM SlotsInvariance == SlotsSpec => []SlotsIInv
<1> QED BY SlotsInitially, SlotsInductive, PTL DEF SlotsSpec

LEMMA SlotsTyped == SlotsIInv => SlotsTypeOK
<1> SUFFICES ASSUME SlotsIInv PROVE SlotsTypeOK
  OBVIOUS
<1>1. /\ JobOK /\ day \in 0..LastDay + 1 /\ at \in 0..DayLength
      /\ day \in Days /\ Works(day) => at \in Starts(day) /\ at <= NaiveEnd(day)
      /\ left \in 1..Len(job.busy) + 1 /\ slots \in Seq(Interval)
  BY DEF SlotsIInv
<1>2. ASSUME day <= LastDay, Works(day) PROVE at \in NaiveStart(day)..NaiveEnd(day)
  <2>1. day \in Days
    BY <1>1, <1>2, SlotsConstants DEF Days
  <2>2. at \in Nat /\ NaiveStart(day) <= at /\ at <= NaiveEnd(day)
    BY <1>1, <1>2, <2>1, StartsApart
  <2>3. NaiveStart(day) \in Nat /\ NaiveEnd(day) \in Nat
    BY <1>1, <1>2, <2>1, JobFacts
  <2> QED BY <2>2, <2>3
<1>3. \A i \in DOMAIN slots : slots[i] \in Interval
  BY <1>1
<1> QED BY <1>1, <1>2, <1>3 DEF SlotsTypeOK

(* Every variable of generate_slots() keeps its type, and the carving of a *)
(* day stays inside its window.                                            *)
THEOREM SlotsTypeCorrect == SlotsSpec => []SlotsTypeOK
<1> QED BY SlotsTyped, SlotsInvariance, PTL

(* The slots of the range are those that begin at a position.              *)
LEMMA CandidatesArePositions ==
  ASSUME JobOK, NEW s
  PROVE  s \in Candidates <=> \E d \in Days, w \in 0..DayLength : Position(d, w) /\ s = SlotAt(d, w)
<1> DEFINE Begins(d) == {v \in Starts(d) : v + job.duration <= NaiveEnd(d)}
<1>1. \A w : \A d \in Days : d \notin job.off /\ Works(d) /\ w \in Begins(d) <=> Position(d, w)
  BY DEF Position
<1>2. \A w : \A d \in Days : Position(d, w) => w \in 0..DayLength
  BY PositionFacts
<1>3. s \in Candidates <=>
        \E d \in {e \in Days \ job.off : Works(e)} : s \in {SlotAt(d, w) : w \in Begins(d)}
  BY Zenon DEF Candidates, SlotAt, Starts
<1>4. s \in Candidates <=>
        \E d \in Days : d \notin job.off /\ Works(d) /\ \E w \in Begins(d) : s = SlotAt(d, w)
  BY <1>3
<1> HIDE DEF Begins
<1> QED BY <1>1, <1>2, <1>4

(* The one sweep with two pointers offers exactly the slots that a check   *)
(* of every slot against every busy time would, in order, for every        *)
(* calendar, every working week and any number of busy times               *)
(* (generate_slots()).                                                     *)
THEOREM SlotsAreTheFreeOnes == SlotsSpec => []OffersTheFreeSlots
<1>1. SlotsIInv => OffersTheFreeSlots
  <2> SUFFICES ASSUME SlotsIInv, Finished, WindowsAvoidChange
               PROVE  /\ {slots[i] : i \in DOMAIN slots} =
                           {s \in Candidates : \A i \in DOMAIN job.busy : ~Overlaps(s, job.busy[i])}
                      /\ \A i, j \in DOMAIN slots : i < j => slots[i].end <= slots[j].start
    BY DEF OffersTheFreeSlots
  <2>1. JobOK /\ Ordered /\ Found /\ day = LastDay + 1
    BY DEF SlotsIInv, Finished
  <2>2. \A w : \A d \in Days : Reached(d, w)
    <3>1. \A d \in Days : d \in Int /\ d < LastDay + 1
      BY SlotsConstants DEF Days
    <3> QED BY <2>1, <3>1 DEF Reached
  <2>3. \A i \in DOMAIN slots : slots[i] \in Candidates /\ Vacant(slots[i])
    BY <2>1, CandidatesArePositions DEF Found
  <2>4. ASSUME NEW s \in Candidates, Vacant(s) PROVE \E i \in DOMAIN slots : slots[i] = s
    <3>1. PICK d \in Days, w \in 0..DayLength : Position(d, w) /\ s = SlotAt(d, w)
      BY <2>1, CandidatesArePositions
    <3> QED BY <2>1, <2>2, <2>4, <3>1 DEF Found
  <2>5. {slots[i] : i \in DOMAIN slots} =
          {s \in Candidates : \A i \in DOMAIN job.busy : ~Overlaps(s, job.busy[i])}
    BY <2>3, <2>4 DEF Vacant
  <2> QED BY <2>1, <2>5 DEF Ordered
<1> QED BY <1>1, SlotsInvariance, PTL

(* is_available() accepts what is offered, whatever the clocks do between  *)
(* the windows, and refuses of it only the first slot of a window that     *)
(* opens within a minute (propose_slots(), generate_slots()).              *)
THEOREM SlotsAreAcceptable == SlotsSpec => []OffersAreAcceptable
<1>1. SlotsIInv => OffersAreAcceptable
  <2> SUFFICES ASSUME SlotsIInv, Finished, WindowsAvoidChange, NEW s \in Proposed
               PROVE  IsRange(s) /\ (IsAvailable(s) <=> ~BeforeOpening(s))
    BY DEF OffersAreAcceptable
  <2>1. JobOK /\ Found
    BY DEF SlotsIInv
  <2>2. PICK i \in DOMAIN slots : s = slots[i]
    BY DEF Proposed
  <2>3. PICK d \in Days, w \in 0..DayLength : Position(d, w) /\ s = SlotAt(d, w)
    BY <2>1, <2>2 DEF Found
  <2>4. /\ Works(d) /\ w \in Nat /\ w < w + job.duration
        /\ Open(d, w) /\ Open(d, w + job.duration)
    BY <2>1, <2>3, PositionFacts
  <2>5. s.start = Localized(d, w) /\ s.end = Localized(d, w + job.duration)
    BY <2>3 DEF SlotAt
  <2>6. IsRange(s)
    BY <2>1, <2>4, <2>5, LocalizedRises DEF IsRange
  <2>7. /\ LocalDate(s.start) = d /\ LocalTime(s.start) = w
        /\ LocalDate(s.end) = d /\ LocalTime(s.end) = w + job.duration
    BY <2>1, <2>4, <2>5, LocalOfWindow
  <2>8. d \in Days \ job.off /\ w \in Starts(d) /\ w + job.duration <= NaiveEnd(d)
    BY <2>3 DEF Position
  <2>9. /\ NaiveStart(d) \in Nat /\ WindowFor(d)[1] \in Nat /\ NaiveStart(d) <= WindowFor(d)[1]
        /\ WindowFor(d)[1] < NaiveStart(d) + Minute /\ Minute \in Nat
        /\ NaiveEnd(d) \in Nat /\ WindowFor(d)[2] \in Nat /\ NaiveEnd(d) <= WindowFor(d)[2]
        /\ job.duration \in Nat /\ job.duration >= Minute
    BY <2>1, <2>4, JobFacts
  <2>10. NaiveStart(d) <= w /\ (w < NaiveStart(d) + job.duration => w <= NaiveStart(d))
    BY <2>1, <2>4, <2>8, StartsApart
  <2>11. IsAvailable(s) <=> WindowFor(d)[1] <= w
    <3>1. w + job.duration <= WindowFor(d)[2]
      BY <2>4, <2>8, <2>9
    <3> QED BY <2>4, <2>7, <2>8, <3>1 DEF IsAvailable, InWindow
  <2>12. BeforeOpening(s) <=> NaiveStart(d) < WindowFor(d)[1] /\ w = NaiveStart(d)
    <3>1. ASSUME NEW e \in Days, Works(e), s.start = Localized(e, NaiveStart(e))
          PROVE  e = d /\ NaiveStart(e) = w
      <4>1. Open(e, NaiveStart(e))
        BY <2>1, <3>1, JobFacts DEF Open
      <4> QED BY <2>1, <2>7, <3>1, <4>1, LocalOfWindow
    <3> QED BY <2>4, <2>5, <3>1 DEF BeforeOpening
  <2>13. WindowFor(d)[1] <= w <=> ~(NaiveStart(d) < WindowFor(d)[1] /\ w = NaiveStart(d))
    BY <2>4, <2>9, <2>10
  <2> QED BY <2>6, <2>11, <2>12, <2>13
<1> QED BY <1>1, SlotsInvariance, PTL


----------------------------------------------------------------------------
(* The parts together.                                                     *)

(* Each part keeps its invariant while another runs, so every variable     *)
(* keeps its type (OffersNext).                                            *)
THEOREM OffersTypeCorrect == OffersSpec => []OffersTypeOK
<1> DEFINE IInv == LiveIInv /\ SlotsIInv /\ LimitIInv /\ SchedulesIInv
<1>1. OffersInit => IInv
  BY LiveInitially, SlotsInitially, LimitInitially, SchedulesInitially DEF OffersInit
<1>2. IInv /\ [OffersNext]_offersVars => IInv'
  <2>1. [OffersNext]_offersVars =>
          [LiveNext]_liveVars /\ [SlotsNext]_slotVars /\ [LimitNext]_limitVars
            /\ [SchedulesNext]_scheduleVars
    BY DEF OffersNext, offersVars, SchedulesNext
  <2> QED BY <2>1, LiveInductive, SlotsInductive, LimitInvariance, SchedulesInvariance
<1>3. IInv => OffersTypeOK
  <2>1. LiveIInv => LiveTypeOK
    BY NoticesAreOnePerParty DEF LiveIInv, LiveTyped, LiveTypeOK
  <2>2. LimitIInv => LimitTypeOK
    BY DEF LimitIInv
  <2>3. SchedulesIInv => SchedulesTypeOK
    BY DEF SchedulesIInv, HoursInv, DatesInv, SchedulesTypeOK
  <2> QED BY <2>1, <2>2, <2>3, SlotsTyped DEF OffersTypeOK
<1> QED BY <1>1, <1>2, <1>3, PTL DEF OffersSpec

=============================================================================
