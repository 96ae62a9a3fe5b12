------------------------------- MODULE Slots -------------------------------
(***************************************************************************)
(* The slots offered to a customer: generate_slots() carves the working    *)
(* windows of a range of days into slots, each boundary a wall-clock time  *)
(* that is localized by itself, and sweeps the busy times with a pointer   *)
(* that only moves forward; propose_slots() drops what has begun.  Time is *)
(* counted in ticks, of which a minute has Minute, since a window may be   *)
(* given to the second.  The clocks change at most once: on the day of the *)
(* change the wall clock jumps ahead from `at` on, or repeats the ticks    *)
(* before it.  One step carves one slot or ends one day.                   *)
(***************************************************************************)
EXTENDS Integers, Sequences, SequencesExt

CONSTANTS
  LastDay,     (* days are 0..LastDay                                      *)
  DayLength,   (* ticks of a day                                           *)
  Minute,      (* ticks of a minute                                        *)
  Windows,     (* working windows <<start, end>> of wall-clock ticks       *)
  Durations,   (* lengths of slots                                         *)
  BusyTimes,   (* busy intervals, in absolute ticks                        *)
  MaxBusy,     (* bound: busy intervals at once                            *)
  Clocks,      (* changes of the clocks: [day, at, shift]                  *)
  Nows         (* instants of the request                                  *)

Days == 0..LastDay

Interval == [start : Int, end : Int]

(* A window begins before it ends, on the same day (DailyHours), a slot    *)
(* has at least a minute (the route's slot_minutes), and the clocks change *)
(* within a day.                                                           *)
ASSUME SlotsAssumption ==
  /\ LastDay \in Nat /\ DayLength \in Nat \ {0} /\ MaxBusy \in Nat
  /\ Minute \in Nat \ {0}
  /\ \A w \in Windows : w \in Nat \X Nat /\ w[1] < w[2] /\ w[2] < DayLength
  /\ \A k \in Durations : k \in Nat /\ k >= Minute
  /\ BusyTimes \subseteq Interval
  /\ \A c \in Clocks : /\ c \in [day : Int, at : 0..DayLength, shift : Int]
                       /\ c.at + c.shift \in 0..DayLength
  /\ Nows \subseteq Int

VARIABLES
  job,         (* the request: what generate_slots() and is_available() get*)
  day,         (* current                                                  *)
  at,          (* naive_s                                                  *)
  left,        (* left_ptr, counted from 1                                 *)
  slots        (* the slots found, in order                                *)

slotVars == <<job, day, at, left, slots>>

(* TimeRange.                                                              *)
IsRange(r) == r.start < r.end

Overlaps(r, s) == r.start < s.end /\ s.start < r.end

(* window_for(): the window of a day, if it is worked.                     *)
WindowFor(d) == job.hours[d]

NoWindow == <<0, 0>>

Works(d) == WindowFor(d) # NoWindow

(* datetime(..., hour, minute): the seconds of a time are dropped.         *)
ToTheMinute(wall) == wall - (wall % Minute)

(* naive_window_start and naive_window_end: what is carved of a window.    *)
NaiveStart(d) == ToTheMinute(WindowFor(d)[1])
NaiveEnd(d) == ToTheMinute(WindowFor(d)[2])

(* replace(tzinfo=tz): the instant of a wall-clock time.  A time that the  *)
(* clocks skip or repeat has the offset of before.                         *)
Localized(d, wall) ==
  LET c == job.clock
      instant == d * DayLength + wall
      change == c.day * DayLength + c.at
  IN IF c.shift >= 0
     THEN IF instant < change + c.shift THEN instant ELSE instant - c.shift
     ELSE IF instant < change THEN instant ELSE instant - c.shift

(* astimezone(tz): the wall-clock instant of an instant.                   *)
AsTimezone(t) ==
  LET c == job.clock
      change == c.day * DayLength + c.at
  IN IF t < change THEN t ELSE t + c.shift

LocalDate(t) == AsTimezone(t) \div DayLength
LocalTime(t) == AsTimezone(t) % DayLength

----------------------------------------------------------------------------
(* The inputs.                                                             *)

(* The busy times sorted by their start, those of one start in any order.  *)
SortedByStart ==
  {B \in BoundedSeq(BusyTimes, MaxBusy) :
     \A i, j \in DOMAIN B : i < j => B[i].start <= B[j].start}

SlotsInit ==
  /\ \E hours \in [Days -> Windows \cup {NoWindow}], off \in SUBSET Days, clock \in Clocks,
        duration \in Durations, busy \in SortedByStart, now \in Nows :
       job = [hours |-> hours, off |-> off, clock |-> clock, duration |-> duration,
              busy |-> busy, now |-> now]
  /\ day = 0
  /\ at = IF Works(0) THEN NaiveStart(0) ELSE 0
  /\ left = 1 /\ slots = << >>

(* Another slot fits into the window of the day.                           *)
Fits == day \notin job.off /\ Works(day) /\ at + job.duration <= NaiveEnd(day)

Candidate == [start |-> Localized(day, at), end |-> Localized(day, at + job.duration)]

(* Mutant: the sweep stops at the first busy time that has ended.          *)
NeverAdvanced(slot) == left + (IF left <= Len(job.busy) /\ job.busy[left].start < slot.start THEN 1 ELSE 0)

(* left_ptr after the busy times that end before the slot.                 *)
Advanced(slot) ==
  CHOOSE k \in left..Len(job.busy) + 1 :
    /\ \A i \in left..k - 1 : job.busy[i].end <= slot.start
    /\ k <= Len(job.busy) => job.busy[k].end > slot.start

(* The scan from left_ptr on, up to the first that starts after the slot.  *)
Free(slot, k) ==
  \A i \in k..Len(job.busy) :
    (\A j \in k..i : job.busy[j].start < slot.end) => ~Overlaps(slot, job.busy[i])

Carve ==
  LET slot == Candidate
      k == Advanced(slot)
  IN
  /\ day \in Days /\ Fits
  /\ left' = k
  /\ slots' = IF Free(slot, k) THEN Append(slots, slot) ELSE slots
  /\ at' = at + job.duration
  /\ UNCHANGED <<job, day>>

NextDay ==
  /\ day \in Days /\ ~Fits
  /\ day' = day + 1
  /\ at' = IF day < LastDay /\ Works(day + 1) THEN NaiveStart(day + 1) ELSE 0
  /\ UNCHANGED <<job, left, slots>>

SlotsNext == Carve \/ NextDay

SlotsSpec == SlotsInit /\ [][SlotsNext]_slotVars

----------------------------------------------------------------------------
(* The result and the policy.                                              *)

Finished == day = LastDay + 1

(* propose_slots(): what has begun is dropped.                             *)
Proposed == {s \in {slots[i] : i \in DOMAIN slots} : s.start >= job.now}

(* Mutant: the end of the window is not part of it.                        *)
EndsInside(d, r) ==
  WindowFor(d)[1] <= LocalTime(r.start) /\ LocalTime(r.end) < WindowFor(d)[2]

InWindow(d, r) ==
  WindowFor(d)[1] <= LocalTime(r.start) /\ LocalTime(r.end) <= WindowFor(d)[2]

(* is_available().                                                         *)
IsAvailable(r) ==
  LET d == LocalDate(r.start) IN
  /\ LocalDate(r.end) = d
  /\ d \in Days \ job.off
  /\ Works(d) /\ InWindow(d, r)

(* The wall-clock times of the day that the clocks skip, or repeat.        *)
Changed(c) == IF c.shift >= 0 THEN c.at..c.at + c.shift - 1 ELSE c.at + c.shift..c.at - 1

(* No window holds such a time, its end included: what generate_slots()    *)
(* says of the system's windows.                                           *)
WindowsAvoidChange ==
  LET c == job.clock IN
  c.day \in Days /\ Works(c.day) =>
    \A wall \in NaiveStart(c.day)..NaiveEnd(c.day) : wall \notin Changed(c)

(* All slots of the range, without regard to busy times: those of a day    *)
(* begin one duration apart and end inside what is carved of its window.   *)
Candidates ==
  UNION {{[start |-> Localized(d, w), end |-> Localized(d, w + job.duration)] :
            w \in {v \in {NaiveStart(d) + n * job.duration : n \in 0..DayLength} :
                     v + job.duration <= NaiveEnd(d)}} :
         d \in {e \in Days \ job.off : Works(e)}}

(* Every variable keeps its type, and the carving of a day stays inside    *)
(* its window.                                                             *)
SlotsTypeOK ==
  /\ day \in 0..LastDay + 1 /\ at \in 0..DayLength
  /\ day <= LastDay /\ Works(day) => at \in NaiveStart(day)..NaiveEnd(day)
  /\ left \in 1..Len(job.busy) + 1
  /\ \A i \in DOMAIN slots : slots[i] \in Interval

(* The one sweep with two pointers offers exactly the slots that a check   *)
(* of every slot against every busy time would, in order, where no window  *)
(* contains the change of the clocks (generate_slots()).                   *)
OffersTheFreeSlots ==
  Finished /\ WindowsAvoidChange =>
    /\ {slots[i] : i \in DOMAIN slots} =
         {s \in Candidates : \A i \in DOMAIN job.busy : ~Overlaps(s, job.busy[i])}
    /\ \A i, j \in DOMAIN slots : i < j => slots[i].end <= slots[j].start

(* A slot of the minute in which a window opens, before the window does.   *)
BeforeOpening(s) ==
  \E d \in Days : /\ Works(d) /\ NaiveStart(d) < WindowFor(d)[1]
                  /\ s.start = Localized(d, NaiveStart(d))

(* The policy for times moved in the calendar accepts exactly the slots    *)
(* that are offered, on the day of a change of the clocks too, but for the *)
(* first slot of a window that does not open on a whole minute: carving    *)
(* drops the seconds (generate_slots()), the policy compares full times    *)
(* (is_available()), and nothing later of such a day is refused.           *)
OffersAreAcceptable ==
  Finished /\ WindowsAvoidChange =>
    \A s \in Proposed : IsRange(s) /\ (IsAvailable(s) <=> ~BeforeOpening(s))

----------------------------------------------------------------------------
(* What the repository says and the code does not keep.                    *)

(* availability.py: each working day is carved from the window start.      *)
SlotsLieInWindows ==
  Finished /\ WindowsAvoidChange => \A s \in Proposed : IsAvailable(s)
=============================================================================
