---------------------------- MODULE BookingLimit ----------------------------
(***************************************************************************)
(* The limit on the cancellations of one customer.  A cancellation takes   *)
(* the time when it starts and counts when its transaction commits; a      *)
(* booking reads the clock, then the committed cancellations of the window *)
(* and is refused with the time when booking reopens, or goes on.  Nothing *)
(* locks the two against each other.                                       *)
(***************************************************************************)
EXTENDS Integers, FiniteSets, FiniteSetsExt, Absence

CONSTANTS
  Appts,             (* the customer's appointments                        *)
  Bookings,          (* the customer's requests to book                    *)
  MaxCancellations,  (* fsm_booking_cancel_limit; 0 turns the check off    *)
  WindowLength,      (* fsm_booking_cancel_window_hours                    *)
  Cooloff,           (* fsm_booking_cancel_cooloff_hours                   *)
  MaxTime            (* bound: ticks of the clock                          *)

ASSUME BookingLimitAssumption ==
  /\ MaxCancellations \in Nat /\ WindowLength \in Nat \ {0} /\ Cooloff \in Nat \ {0}
  /\ MaxTime \in Nat
  /\ IsFiniteSet(Appts)
  /\ None \notin 0..MaxTime + Cooloff

Times == 0..MaxTime

Booking == [step : {"idle", "counting", "admitted", "refused"},
            now : Times \cup {None}, retry : (1..MaxTime + Cooloff) \cup {None}]

VARIABLES
  now,               (* the clock                                          *)
  cancelled,         (* occurred_at of the CANCELLED audit, committed      *)
  cancelling,        (* the time an open transaction took                  *)
  booking,           (* what a request does                                *)
  seen,              (* history: the cancellations a request could count   *)
  unseen             (* history: those that were open when it counted      *)

limitVars == <<now, cancelled, cancelling, booking, seen, unseen>>

NoBooking == [step |-> "idle", now |-> None, retry |-> None]

LimitInit ==
  /\ now = 0
  /\ cancelled = [a \in Appts |-> None] /\ cancelling = [a \in Appts |-> None]
  /\ booking = [b \in Bookings |-> NoBooking]
  /\ seen = [b \in Bookings |-> {}] /\ unseen = [b \in Bookings |-> {}]

(* list_customer_cancellations_since(): whoever cancelled.                 *)
CancellationsSince(since) ==
  {cancelled[a] : a \in {x \in Appts : cancelled[x] # None /\ cancelled[x] >= since}}

CountSince(since) == Cardinality({x \in Appts : cancelled[x] # None /\ cancelled[x] >= since})

(* Mutant: the pause begins one cancellation late.                         *)
OneMore(t) == CountSince(t - WindowLength) > MaxCancellations

(* More cancellations than the limit in the window that ends at t.         *)
TooMany(t) == CountSince(t - WindowLength) >= MaxCancellations

(* max(recent) + cooloff.                                                  *)
ReopensAt(t) ==
  IF CancellationsSince(t - WindowLength) = {} THEN t
  ELSE Max(CancellationsSince(t - WindowLength)) + Cooloff

(* Mutant: the time named is that of the first cancellation's cool-off.    *)
FirstReopening(t) ==
  IF TooMany(t) /\ ReopensAt(t) > t
  THEN Min(CancellationsSince(t - WindowLength)) + Cooloff ELSE None

(* blocked_until(): when booking reopens, None when it is allowed.         *)
BlockedUntil(t) ==
  IF TooMany(t) /\ ReopensAt(t) > t THEN ReopensAt(t) ELSE None

----------------------------------------------------------------------------
Tick ==
  /\ now < MaxTime /\ now' = now + 1
  /\ UNCHANGED <<cancelled, cancelling, booking, seen, unseen>>

(* cancel_appointment(): the clock is read.                                *)
Cancel(a) ==
  /\ cancelled[a] = None /\ cancelling[a] = None
  /\ cancelling' = [cancelling EXCEPT ![a] = now]
  /\ UNCHANGED <<now, cancelled, booking, seen, unseen>>

(* Its transaction commits, or fails.                                      *)
CancelCommits(a) ==
  /\ cancelling[a] # None
  /\ cancelled' = [cancelled EXCEPT ![a] = cancelling[a]]
  /\ cancelling' = [cancelling EXCEPT ![a] = None]
  /\ UNCHANGED <<now, booking, seen, unseen>>

CancelFails(a) ==
  /\ cancelling[a] # None
  /\ cancelling' = [cancelling EXCEPT ![a] = None]
  /\ UNCHANGED <<now, cancelled, booking, seen, unseen>>

(* book_appointment(): now = clock().                                      *)
Book(b) ==
  /\ booking[b].step = "idle"
  /\ booking' = [booking EXCEPT ![b] = [step |-> "counting", now |-> now, retry |-> None]]
  /\ UNCHANGED <<now, cancelled, cancelling, seen, unseen>>

(* _guard_not_rate_limited().                                              *)
Guard(b) ==
  LET t == booking[b].now
      retry == IF MaxCancellations = 0 THEN None ELSE BlockedUntil(t)
  IN
  /\ booking[b].step = "counting"
  /\ booking' = [booking EXCEPT ![b] =
       [step |-> IF retry = None THEN "admitted" ELSE "refused", now |-> t, retry |-> retry]]
  /\ seen' = [seen EXCEPT ![b] = {a \in Appts : cancelled[a] # None}]
  /\ unseen' = [unseen EXCEPT ![b] = {a \in Appts : cancelling[a] # None}]
  /\ UNCHANGED <<now, cancelled, cancelling>>

LimitNext ==
  \/ Tick
  \/ \E a \in Appts : Cancel(a) \/ CancelCommits(a) \/ CancelFails(a)
  \/ \E b \in Bookings : Book(b) \/ Guard(b)

LimitSpec == LimitInit /\ [][LimitNext]_limitVars

----------------------------------------------------------------------------
(* Every variable keeps its type, and a refusal names a later time.        *)
LimitTypeOK ==
  /\ now \in Times
  /\ cancelled \in [Appts -> Times \cup {None}]
  /\ cancelling \in [Appts -> Times \cup {None}]
  /\ booking \in [Bookings -> Booking]
  /\ seen \in [Bookings -> SUBSET Appts] /\ unseen \in [Bookings -> SUBSET Appts]
  /\ \A b \in Bookings :
       /\ booking[b].step # "idle" <=> booking[b].now # None
       /\ booking[b].step = "refused" <=> booking[b].retry # None
       /\ booking[b].retry # None => booking[b].retry > booking[b].now

(* A request is not admitted within the cool-off after earlier             *)
(* cancellations that reach the limit, also by what is known of them in    *)
(* the end, but for those that were still open when it counted             *)
(* (_guard_not_rate_limited() reads what is committed and locks nothing).  *)
AdmittedOnlyUnderTheLimit ==
  \A b \in Bookings :
    LET t == booking[b].now
        counted == {a \in Appts : cancelled[a] # None /\ cancelled[a] < t
                                    /\ cancelled[a] + WindowLength >= t}
    IN booking[b].step = "admitted" =>
         \/ MaxCancellations = 0
         \/ Cardinality(counted \ unseen[b]) < MaxCancellations
         \/ \A a \in counted \ unseen[b] : cancelled[a] + Cooloff <= t

(* The time a refusal names is late enough: from then on the customer is   *)
(* admitted, unless there are cancellations that the refusal did not count *)
(* ("retry_at is the moment booking reopens", errors.py:41).               *)
RetryIsLateEnough ==
  \A b \in Bookings :
    booking[b].step = "refused" /\ now >= booking[b].retry =>
      \/ BlockedUntil(now) = None
      \/ \E a \in Appts \ seen[b] : cancelled[a] # None
=============================================================================
