----------------------------- MODULE Schedules -----------------------------
(***************************************************************************)
(* When a technician works: the weekly hours that a PUT replaces, the days *)
(* off, the cached holidays, and the requests that put them together for   *)
(* the slots offered to customers and for the check of a time moved in the *)
(* calendar.  Transactions are READ COMMITTED: each statement of a request *)
(* sees what is committed when it starts, and the next may see more.  One  *)
(* technician is modelled; no statement reads rows of two.                 *)
(***************************************************************************)
EXTENDS Integers, FiniteSets, Bags

CONSTANTS
  Puts,        (* requests to replace the working hours                    *)
  Lookups,     (* requests that need the hours and the excluded dates      *)
  WeekDays,    (* weekdays                                                 *)
  LastDate,    (* dates are 0..LastDate                                    *)
  Hours,       (* windows of a day                                         *)
  StandardDays,(* weekdays of the standard week                            *)
  StandardHours,
  MaxRefreshes (* bound: runs of the holiday job                           *)

ASSUME SchedulesAssumption ==
  /\ WeekDays \subseteq Nat /\ LastDate \in Nat /\ MaxRefreshes \in Nat
  /\ StandardDays \subseteq WeekDays /\ StandardHours \in Hours

Dates == 0..LastDate

VARIABLES
  rows,        (* working_hours, committed: [weekday, hours, put]          *)
  puts,        (* [step, hours, old, since]: old are the rows DELETE saw,  *)
               (* since the PUTs that had begun and not ended              *)
  daysOff,     (* time_off: dates                                          *)
  holidays,    (* holiday: dates                                           *)
  refresh,     (* [step, items]: the holiday job and what Google listed    *)
  refreshes,   (* runs of the job                                          *)
  lookups,     (* [step, from, to, hours, excluded, whole]                 *)
  mixed,       (* history: two PUTs that overlapped have both committed    *)
  lasting      (* history: the days off, and the holidays, that were there *)
               (* since a lookup began                                     *)

putVars == <<rows, puts, mixed>>
dateVars == <<daysOff, holidays, refresh, refreshes>>
scheduleVars == <<rows, puts, mixed, daysOff, holidays, refresh, refreshes, lookups, lasting>>

(* DailyHours and WeeklyWorkingHours: at most one window of a weekday.     *)
Weeks == UNION {[D -> Hours] : D \in SUBSET WeekDays}

(* WorkingHoursRow.                                                        *)
WorkingHoursRow == [weekday : WeekDays, hours : Hours, put : Puts]

Put == [step : {"idle", "deleting", "deleted", "inserted", "done", "failed"},
        hours : Weeks, old : SUBSET WorkingHoursRow, since : SUBSET Puts]

Lookup == [step : {"idle", "hours", "holidays", "ready"}, from : Dates, to : Dates,
           hours : Weeks, excluded : SUBSET Dates, whole : BOOLEAN]

NoHours == [d \in {} |-> StandardHours]

NoPut == [step |-> "idle", hours |-> NoHours, old |-> {}, since |-> {}]
NoLookup == [step |-> "idle", from |-> 0, to |-> 0, hours |-> NoHours, excluded |-> {},
             whole |-> TRUE]
NoRefresh == [step |-> "idle", items |-> EmptyBag]

HoursInit == rows = {} /\ puts = [p \in Puts |-> NoPut] /\ mixed = FALSE
DaysOffInit == daysOff = {}
HolidaysInit == holidays = {} /\ refresh = NoRefresh /\ refreshes = 0

SchedulesInit ==
  /\ HoursInit /\ DaysOffInit /\ HolidaysInit
  /\ lookups = [r \in Lookups |-> NoLookup]
  /\ lasting = [r \in Lookups |-> [off |-> {}, holidays |-> {}]]

----------------------------------------------------------------------------
(* Working hours.                                                          *)

(* The row of a weekday.                                                   *)
RowOf(p, d) == [weekday |-> d, hours |-> puts[p].hours[d], put |-> p]

Written(p) == {RowOf(p, d) : d \in DOMAIN puts[p].hours}

(* WeeklyWorkingHours.default().                                           *)
StandardWeek == [d \in StandardDays |-> StandardHours]

(* get_for_technician().                                                   *)
WeekOf(R) ==
  IF R = {} THEN StandardWeek
  ELSE [d \in {row.weekday : row \in R} |-> (CHOOSE row \in R : row.weekday = d).hours]

Running(p) == puts[p].step \in {"deleted", "inserted"}

(* Mutant: nothing is deleted.                                             *)
Kept(p) == {}

(* The rows that the DELETE of p removes: those it saw and that no other   *)
(* transaction has removed since.                                          *)
Removed(p) == puts[p].old \cap rows

(* put_working_hours(): a valid body, and the snapshot of the DELETE.      *)
PutBegin(p) ==
  /\ puts[p].step = "idle"
  /\ \E week \in Weeks :
       puts' = [puts EXCEPT ![p] = [step |-> "deleting", hours |-> week, old |-> rows,
                                    since |-> {q \in Puts : Running(q) \/ puts[q].step = "deleting"}]]
  /\ UNCHANGED <<rows, mixed, dateVars, lookups, lasting>>

(* The DELETE waits for the transactions that have removed rows it saw.    *)
PutDelete(p) ==
  /\ puts[p].step = "deleting"
  /\ \A q \in Puts \ {p} : Running(q) => puts[q].old \cap puts[p].old \cap rows = {}
  /\ puts' = [puts EXCEPT ![p] = [puts[p] EXCEPT !.step = "deleted", !.old = Removed(p)]]
  /\ UNCHANGED <<rows, mixed, dateVars, lookups, lasting>>

(* Mutant: no primary key.                                                 *)
NoKey(p) == TRUE

(* PRIMARY KEY (technician_id, weekday): no other row of the same weekday. *)
KeyAllows(p) ==
  \A row \in rows \ puts[p].old : row.weekday \notin DOMAIN puts[p].hours

(* The INSERTs wait for those of other transactions of the same weekday    *)
(* and fail when such a row has been committed.                            *)
PutInsert(p) ==
  /\ puts[p].step = "deleted"
  /\ \A q \in Puts \ {p} : puts[q].step = "inserted" =>
       DOMAIN puts[q].hours \cap DOMAIN puts[p].hours = {}
  /\ KeyAllows(p)
  /\ puts' = [puts EXCEPT ![p] = [puts[p] EXCEPT !.step = "inserted"]]
  /\ UNCHANGED <<rows, mixed, dateVars, lookups, lasting>>

Overlapped(p, q) == q \in puts[p].since \/ p \in puts[q].since

PutCommit(p) ==
  /\ puts[p].step = "inserted"
  /\ rows' = (rows \ puts[p].old) \cup Written(p)
  /\ puts' = [puts EXCEPT ![p] = [puts[p] EXCEPT !.step = "done", !.old = {}]]
  /\ mixed' = (mixed \/ \E q \in Puts : puts[q].step = "done" /\ Overlapped(p, q))
  /\ UNCHANGED <<dateVars, lookups, lasting>>

(* IntegrityError, a deadlock that the database resolves, or a crash.      *)
PutFail(p) ==
  /\ puts[p].step \in {"deleting", "deleted", "inserted"}
  /\ puts' = [puts EXCEPT ![p] = [NoPut EXCEPT !.step = "failed"]]
  /\ UNCHANGED <<rows, mixed, dateVars, lookups, lasting>>

----------------------------------------------------------------------------
(* Days off and holidays.                                                  *)

Lasting(off, days) ==
  [r \in Lookups |-> [off |-> lasting[r].off \cap off, holidays |-> lasting[r].holidays \cap days]]

(* add_day_off(): nothing happens to a date that is marked already.        *)
AddDayOff(d) ==
  /\ d \notin daysOff
  /\ daysOff' = daysOff \cup {d}
  /\ UNCHANGED <<putVars, holidays, refresh, refreshes, lookups, lasting>>

(* remove_day_off().                                                       *)
RemoveDayOff(d) ==
  /\ d \in daysOff
  /\ daysOff' = daysOff \ {d}
  /\ lasting' = Lasting(daysOff', holidays)
  /\ UNCHANGED <<putVars, holidays, refresh, refreshes, lookups>>

(* list_holidays(): the dates of the all-day events; two may share one.    *)
RefreshFetch ==
  /\ refresh.step = "idle" /\ refreshes < MaxRefreshes
  /\ refreshes' = refreshes + 1
  /\ \E D \in SUBSET Dates, twice \in SUBSET Dates :
       /\ twice \subseteq D
       /\ refresh' = [step |-> "fetched", items |-> SetToBag(D) (+) SetToBag(twice)]
  /\ UNCHANGED <<putVars, daysOff, holidays, lookups, lasting>>

(* ON CONFLICT DO UPDATE refuses to touch a row twice.                     *)
UpsertFails(items) == \E d \in DOMAIN items : items[d] > 1

(* upsert_many(): dates are added or renamed, never removed.               *)
UpsertMany(items) == IF UpsertFails(items) THEN holidays ELSE holidays \cup DOMAIN items

RefreshStore ==
  /\ refresh.step = "fetched"
  /\ holidays' = UpsertMany(refresh.items)
  /\ refresh' = NoRefresh
  /\ lasting' = Lasting(daysOff, holidays')
  /\ UNCHANGED <<putVars, daysOff, refreshes, lookups>>

----------------------------------------------------------------------------
(* Lookups: _compute_slots() for a range of dates, and the inputs of the   *)
(* policy of inbound reconciliation for one.                               *)

LookupHours(r) ==
  /\ lookups[r].step = "idle"
  /\ \E from, to \in Dates :
       /\ from <= to
       /\ lookups' = [lookups EXCEPT ![r] = [step |-> "hours", from |-> from, to |-> to,
                        hours |-> WeekOf(rows), excluded |-> {}, whole |-> TRUE]]
  /\ lasting' = [lasting EXCEPT ![r] = [off |-> daysOff, holidays |-> holidays]]
  /\ UNCHANGED <<putVars, dateVars>>

(* Mutant: the last date of the range is left out.                         *)
Before(S, r) == {d \in S : lookups[r].from <= d /\ d < lookups[r].to}

(* list_between() of either repository.                                    *)
ListBetween(S, r) == {d \in S : lookups[r].from <= d /\ d <= lookups[r].to}

(* _load_holidays(), _load_days_off(): a failed read excludes nothing.     *)
Load(r, step, next, S) ==
  /\ lookups[r].step = step
  /\ \/ lookups' = [lookups EXCEPT ![r] =
          [lookups[r] EXCEPT !.step = next, !.excluded = @ \cup ListBetween(S, r)]]
     \/ lookups' = [lookups EXCEPT ![r] = [lookups[r] EXCEPT !.step = next, !.whole = FALSE]]
  /\ UNCHANGED <<putVars, dateVars, lasting>>

LoadHolidays(r) == Load(r, "hours", "holidays", holidays)
LoadDaysOff(r) == Load(r, "holidays", "ready", daysOff)

HoursNext ==
  \/ \E p \in Puts : PutBegin(p) \/ PutDelete(p) \/ PutInsert(p) \/ PutCommit(p) \/ PutFail(p)
  \/ \E r \in Lookups : LookupHours(r)

DatesNext ==
  \/ \E d \in Dates : AddDayOff(d) \/ RemoveDayOff(d)
  \/ RefreshFetch \/ RefreshStore
  \/ \E r \in Lookups : LookupHours(r) \/ LoadHolidays(r) \/ LoadDaysOff(r)

SchedulesNext == HoursNext \/ DatesNext

SchedulesSpec == SchedulesInit /\ [][SchedulesNext]_scheduleVars

----------------------------------------------------------------------------
(* Every variable keeps its type, and a technician has at most one window  *)
(* of a weekday, so that what is stored can be read (WeeklyWorkingHours).  *)
SchedulesTypeOK ==
  /\ rows \subseteq WorkingHoursRow
  /\ \A row, other \in rows : row.weekday = other.weekday => row = other
  /\ puts \in [Puts -> Put] /\ mixed \in BOOLEAN
  /\ daysOff \subseteq Dates /\ holidays \subseteq Dates
  /\ refresh.step \in {"idle", "fetched"} /\ DOMAIN refresh.items \subseteq Dates
  /\ refreshes \in 0..MaxRefreshes
  /\ lookups \in [Lookups -> Lookup]
  /\ lasting \in [Lookups -> [off : SUBSET Dates, holidays : SUBSET Dates]]

(* The hours in effect are those of one PUT, or the standard week, unless  *)
(* two PUTs overlapped and both were accepted ("Replace all working-hours  *)
(* rows for technician_id atomically", working_hours_repository.py:34).    *)
HoursComeFromOnePut ==
  \/ mixed
  \/ rows = {} /\ \A p \in Puts : puts[p].step # "done"
  \/ \E p \in Puts : puts[p].step = "done" /\ rows = Written(p)

(* A date that was a day off or a cached holiday from the first read of a  *)
(* lookup to its last is excluded, whatever changed meanwhile, unless a    *)
(* read failed (_compute_slots(), _load_holidays(), _load_days_off()).     *)
LastingDatesAreExcluded ==
  \A r \in Lookups :
    lookups[r].step = "ready" /\ lookups[r].whole =>
      (lasting[r].off \cup lasting[r].holidays) \cap (lookups[r].from..lookups[r].to)
        \subseteq lookups[r].excluded
=============================================================================
