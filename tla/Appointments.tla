---------------------------- MODULE Appointments ----------------------------
(***************************************************************************)
(* The appointment table, its audit log and the calendar outbox, written   *)
(* by concurrent HTTP requests.  Every request is one unit of work: one    *)
(* PostgreSQL transaction at READ COMMITTED with no row locks and no       *)
(* version column.  A request reads an appointment into a detached domain  *)
(* object (its "copy"), checks its guards on it, mutates it, and save()    *)
(* re-reads the row (the "basis") and issues an UPDATE of the columns in   *)
(* which the copy and the basis differ.  Other transactions may commit     *)
(* between any two of these steps.                                         *)
(***************************************************************************)
EXTENDS Integers, Sequences

CONSTANTS
  Txns,     (* units of work; each one carries at most one outbox entry    *)
  Appts,    (* appointment ids uuid4 may generate                          *)
  Calls,    (* service call ids                                            *)
  Techs,    (* approved technicians                                        *)
  Ranges,   (* time ranges a request may ask for                           *)
  Texts,    (* appointment details                                         *)
  None      (* NULL, and "no row"                                          *)

(* TimeRange.__post_init__ refuses a range that does not start before it   *)
(* ends, so no request carries one.                                        *)
ASSUME RangesAssumption ==
  /\ Ranges \subseteq [start : Int, end : Int]
  /\ \A r \in Ranges : r.start < r.end

Statuses == {"SCHEDULED", "RESCHEDULED", "CANCELLED"}
Ops      == {"BOOK", "RESCHEDULE", "CANCEL", "ADD_DETAILS"}

AuditActions == {"BOOKED", "RESCHEDULED", "CANCELLED", "DETAILS_ADDED"}

(* The id of the Google event made for an appointment is determined by the *)
(* appointment's iCalUID, so the appointment's own id stands for it.       *)
Row == [call : Calls, tech : Techs, start : Int, end : Int,
        status : Statuses, details : Texts \cup {None},
        event : Appts \cup {None}, updated : Nat]

Entry == [op : {"CREATE", "UPDATE", "DELETE"}, appt : Appts,
          event : Appts \cup {None},
          status : {"PENDING", "PROCESSED", "FAILED"},
          attempts : Nat, created : Nat]

Txn == [phase : {"idle", "loaded", "mutated", "reread", "done"},
        op : Ops \cup {None}, appt : Appts \cup {None},
        want : Ranges \cup {None}, copy : Row \cup {None},
        basis : Row \cup {None}, began : Nat]

ASSUME NoneAssumption ==
  /\ None \notin Row
  /\ None \notin Entry
  /\ None \notin Ranges
  /\ None \notin Appts
  /\ None \notin [tech : Techs, start : Int, end : Int]
  /\ None \notin {"OPEN", "SCHEDULED"}

VARIABLES
  calls,    (* service call -> its status, None before it is opened        *)
  rows,     (* appointment -> its committed row                            *)
  audits,   (* appointment -> its committed audit rows, oldest first       *)
  outbox,   (* transaction -> the calendar_outbox row it committed         *)
  txns,     (* transaction -> its phase and its local state                *)
  clock     (* wall clock: one tick per transaction start and mutation     *)

coreVars == <<calls, rows, audits, outbox, txns, clock>>

----------------------------------------------------------------------------
(* Rules of the domain and of the schema.                                  *)

Active(row) == row.status # "CANCELLED"

(* tstzrange && tstzrange: an empty range meets nothing.                   *)
Meets(r, s) == /\ r.start < r.end
               /\ s.start < s.end
               /\ r.start < s.end
               /\ s.start < r.end

(* A row is loaded into a domain object whose TimeRange is constructed     *)
(* anew: one with an empty or inverted range raises InvalidTimeRange.      *)
Readable(row) == row.start < row.end

(* Mutant: only freshly booked rows stand in the way.                      *)
ConflictingScheduledOnly(a, tech, range) ==
  {b \in Appts \ {a} : /\ rows[b] # None
                       /\ rows[b].status = "SCHEDULED"
                       /\ rows[b].tech = tech
                       /\ Meets(rows[b], range)}

(* The rows list_for_technician_between returns, less the excluded id.     *)
Conflicting(a, tech, range) ==
  {b \in Appts \ {a} : /\ rows[b] # None
                       /\ Active(rows[b])
                       /\ rows[b].tech = tech
                       /\ Meets(rows[b], range)}

(* Mutant: the exclusion constraint is gone, the guards alone remain.      *)
ConstraintMissing(a, row) == Active(row) => row.start <= row.end

(* What the exclusion constraint appointment_no_overlap lets a row become. *)
ConstraintAllows(a, row) ==
  Active(row) => /\ row.start <= row.end
                 /\ Conflicting(a, row.tech, row) = {}

NewRow(c, k, r) ==
  [call |-> c, tech |-> k, start |-> r.start, end |-> r.end,
   status |-> "SCHEDULED", details |-> None, event |-> None, updated |-> 0]

Rescheduled(appt, r, now) ==
  [appt EXCEPT !.start = r.start, !.end = r.end,
               !.status = "RESCHEDULED", !.updated = now]

Cancelled(appt, now) == [appt EXCEPT !.status = "CANCELLED", !.updated = now]

Detailed(appt, text, now) ==
  [appt EXCEPT !.details = text, !.updated = now]

(* One column of SQLAlchemy's UPDATE: it is written when the value put on  *)
(* the re-read row differs from the value read, and left alone otherwise.  *)
Column(new, read, current) == IF new # read THEN new ELSE current

Merged(copy, basis, row) ==
  [row EXCEPT !.start   = Column(copy.start, basis.start, @),
              !.end     = Column(copy.end, basis.end, @),
              !.status  = Column(copy.status, basis.status, @),
              !.details = Column(copy.details, basis.details, @),
              !.event   = Column(copy.event, basis.event, @),
              !.updated = Column(copy.updated, basis.updated, @)]

AuditAction(op) == CASE op = "BOOK"        -> "BOOKED"
                     [] op = "RESCHEDULE"  -> "RESCHEDULED"
                     [] op = "CANCEL"      -> "CANCELLED"
                     [] op = "ADD_DETAILS" -> "DETAILS_ADDED"

(* The change of the calendar each request calls for.                      *)
OutboxOp(op) == CASE op = "BOOK"   -> "CREATE"
                  [] op = "CANCEL" -> "DELETE"
                  [] OTHER         -> "UPDATE"

(* Mutant: the operation is stored under the name of the request.          *)
EnqueuedUntranslated(t) ==
  [op |-> txns[t].op, appt |-> txns[t].appt, event |-> txns[t].copy.event,
   status |-> "PENDING", attempts |-> 0, created |-> txns[t].began]

(* Mutant: a cancellation is projected like any other change.              *)
EnqueuedNoDelete(t) ==
  [op |-> IF txns[t].op = "BOOK" THEN "CREATE" ELSE "UPDATE",
   appt |-> txns[t].appt, event |-> None,
   status |-> "PENDING", attempts |-> 0, created |-> txns[t].began]

(* The outbox row of a unit of work.  created_at defaults to now(), which  *)
(* in PostgreSQL is the start of the transaction.  Only DELETE carries an  *)
(* event id: the one on the copy the request loaded.                       *)
Enqueued(t) ==
  [op       |-> OutboxOp(txns[t].op),
   appt     |-> txns[t].appt,
   event    |-> IF txns[t].op = "CANCEL" THEN txns[t].copy.event ELSE None,
   status   |-> "PENDING",
   attempts |-> 0,
   created  |-> txns[t].began]

----------------------------------------------------------------------------
(* Requests.                                                               *)

Unbound(phase) == [phase |-> phase, op |-> None, appt |-> None, want |-> None,
                   copy |-> None, basis |-> None, began |-> 0]

CoreInit ==
  /\ calls  = [c \in Calls |-> None]
  /\ rows   = [a \in Appts |-> None]
  /\ audits = [a \in Appts |-> <<>>]
  /\ outbox = [t \in Txns |-> None]
  /\ txns   = [t \in Txns |-> Unbound("idle")]
  /\ clock  = 1

OpenServiceCall(c) ==
  /\ calls[c] = None
  /\ calls' = [calls EXCEPT ![c] = "OPEN"]
  /\ UNCHANGED <<rows, audits, outbox, txns, clock>>

Begin(t, phase, op, a, want, copy) ==
  /\ txns[t].phase = "idle"
  /\ txns' = [txns EXCEPT ![t] =
                [phase |-> phase, op |-> op, appt |-> a, want |-> want,
                 copy |-> copy, basis |-> None, began |-> clock]]
  /\ clock' = clock + 1
  /\ UNCHANGED <<calls, rows, audits, outbox>>

(* book_appointment: read the call and require it to be OPEN.  The copy    *)
(* already holds what the request asked for.                               *)
BookLoad(t, c, k, r) ==
  /\ calls[c] = "OPEN"
  /\ Begin(t, "loaded", "BOOK", None, r, NewRow(c, k, r))

(* The overlap guard, then the new entity under a fresh id.                *)
BookCheck(t, a) ==
  /\ txns[t].phase = "loaded"
  /\ txns[t].op = "BOOK"
  /\ Conflicting(None, txns[t].copy.tech, txns[t].want) = {}
  /\ rows[a] = None
  /\ \A u \in Txns : txns[u].appt # a
  /\ txns' = [txns EXCEPT ![t] = [@ EXCEPT !.phase = "mutated", !.appt = a,
                                           !.copy.updated = clock]]
  /\ clock' = clock + 1
  /\ UNCHANGED <<calls, rows, audits, outbox>>

(* Mutant: the service call is saved in a transaction of its own that is   *)
(* lost.                                                                   *)
BookCommitCallUnsaved(t) ==
  LET a == txns[t].appt IN
  /\ txns[t].phase = "mutated"
  /\ txns[t].op = "BOOK"
  /\ ConstraintAllows(a, txns[t].copy)
  /\ rows'   = [rows EXCEPT ![a] = txns[t].copy]
  /\ audits' = [audits EXCEPT ![a] = Append(@, AuditAction("BOOK"))]
  /\ outbox' = [outbox EXCEPT ![t] = Enqueued(t)]
  /\ txns'   = [txns EXCEPT ![t] = Unbound("done")]
  /\ UNCHANGED <<calls, clock>>

(* appointments.add, service_calls.save and the enqueue, and the commit.   *)
(* save() re-reads the call and writes SCHEDULED whatever it has become.   *)
BookCommit(t) ==
  LET a == txns[t].appt IN
  /\ txns[t].phase = "mutated"
  /\ txns[t].op = "BOOK"
  /\ ConstraintAllows(a, txns[t].copy)
  /\ rows'   = [rows EXCEPT ![a] = txns[t].copy]
  /\ audits' = [audits EXCEPT ![a] = Append(@, AuditAction("BOOK"))]
  /\ calls'  = [calls EXCEPT ![txns[t].copy.call] = "SCHEDULED"]
  /\ outbox' = [outbox EXCEPT ![t] = Enqueued(t)]
  /\ txns'   = [txns EXCEPT ![t] = Unbound("done")]
  /\ UNCHANGED clock

(* reschedule_appointment reads the appointment before it checks overlap.  *)
RescheduleLoad(t, a, r) ==
  /\ rows[a] # None
  /\ Readable(rows[a])
  /\ Begin(t, "loaded", "RESCHEDULE", a, r, rows[a])

(* The overlap guard, then Appointment.reschedule on the copy.             *)
RescheduleCheck(t) ==
  LET a == txns[t].appt IN
  /\ txns[t].phase = "loaded"
  /\ txns[t].op = "RESCHEDULE"
  /\ Conflicting(a, txns[t].copy.tech, txns[t].want) = {}
  /\ Active(txns[t].copy)
  /\ txns' = [txns EXCEPT ![t] =
                [@ EXCEPT !.phase = "mutated",
                          !.copy = Rescheduled(txns[t].copy, txns[t].want, clock)]]
  /\ clock' = clock + 1
  /\ UNCHANGED <<calls, rows, audits, outbox>>

(* cancel_appointment: Appointment.cancel on the copy just read.           *)
CancelLoad(t, a) ==
  /\ rows[a] # None
  /\ Readable(rows[a])
  /\ Active(rows[a])
  /\ Begin(t, "mutated", "CANCEL", a, None, Cancelled(rows[a], clock))

(* add_details: Appointment.add_details on the copy just read.             *)
AddDetailsLoad(t, a, text) ==
  /\ rows[a] # None
  /\ Readable(rows[a])
  /\ Active(rows[a])
  /\ Begin(t, "mutated", "ADD_DETAILS", a, None,
           Detailed(rows[a], text, clock))

(* save() re-reads the row: the first read's object is no longer in the    *)
(* session's weak identity map.                                            *)
SaveReread(t) ==
  /\ txns[t].phase = "mutated"
  /\ txns[t].op # "BOOK"
  /\ txns' = [txns EXCEPT ![t] = [@ EXCEPT !.phase = "reread",
                                           !.basis = rows[txns[t].appt]]]
  /\ UNCHANGED <<calls, rows, audits, outbox, clock>>

(* Mutant: the appointment commits before its outbox entry, which is lost. *)
SaveCommitNotEnqueued(t) ==
  LET a   == txns[t].appt
      new == Merged(txns[t].copy, txns[t].basis, rows[a])
  IN
  /\ txns[t].phase = "reread"
  /\ ConstraintAllows(a, new)
  /\ rows'   = [rows EXCEPT ![a] = new]
  /\ audits' = [audits EXCEPT ![a] = Append(@, AuditAction(txns[t].op))]
  /\ txns'   = [txns EXCEPT ![t] = Unbound("done")]
  /\ UNCHANGED <<calls, outbox, clock>>

(* Mutant: the audit rows are rebuilt from the operation at hand.          *)
SaveCommitLogReplaced(t) ==
  LET a   == txns[t].appt
      new == Merged(txns[t].copy, txns[t].basis, rows[a])
  IN
  /\ txns[t].phase = "reread"
  /\ ConstraintAllows(a, new)
  /\ rows'   = [rows EXCEPT ![a] = new]
  /\ audits' = [audits EXCEPT ![a] = <<AuditAction(txns[t].op)>>]
  /\ outbox' = [outbox EXCEPT ![t] = Enqueued(t)]
  /\ txns'   = [txns EXCEPT ![t] = Unbound("done")]
  /\ UNCHANGED <<calls, clock>>

(* The UPDATE, the audit row, the enqueue and the commit.  A row locked by *)
(* another transaction's UPDATE is waited for, so the flush acts on the    *)
(* row as the last commit left it.                                         *)
SaveCommit(t) ==
  LET a   == txns[t].appt
      new == Merged(txns[t].copy, txns[t].basis, rows[a])
  IN
  /\ txns[t].phase = "reread"
  /\ ConstraintAllows(a, new)
  /\ rows'   = [rows EXCEPT ![a] = new]
  /\ audits' = [audits EXCEPT ![a] = Append(@, AuditAction(txns[t].op))]
  /\ outbox' = [outbox EXCEPT ![t] = Enqueued(t)]
  /\ txns'   = [txns EXCEPT ![t] = Unbound("done")]
  /\ UNCHANGED <<calls, clock>>

(* The unit of work ends without commit: a guard raised, the constraint    *)
(* fired, the rate limit or the contact check refused the booking, or the  *)
(* process died.                                                           *)
Rollback(t) ==
  /\ txns[t].phase \notin {"idle", "done"}
  /\ txns' = [txns EXCEPT ![t] = Unbound("done")]
  /\ UNCHANGED <<calls, rows, audits, outbox, clock>>

Request(t) ==
  \/ \E c \in Calls, k \in Techs, r \in Ranges : BookLoad(t, c, k, r)
  \/ \E a \in Appts : BookCheck(t, a)
  \/ BookCommit(t)
  \/ \E a \in Appts, r \in Ranges : RescheduleLoad(t, a, r)
  \/ RescheduleCheck(t)
  \/ \E a \in Appts : CancelLoad(t, a)
  \/ \E a \in Appts, text \in Texts : AddDetailsLoad(t, a, text)
  \/ SaveReread(t)
  \/ SaveCommit(t)
  \/ Rollback(t)

CoreNext ==
  \/ \E c \in Calls : OpenServiceCall(c)
  \/ \E t \in Txns : Request(t)

CoreSpec == CoreInit /\ [][CoreNext]_coreVars

----------------------------------------------------------------------------
(* Properties.                                                             *)

TypeOK ==
  /\ calls  \in [Calls -> {None, "OPEN", "SCHEDULED"}]
  /\ rows   \in [Appts -> Row \cup {None}]
  /\ audits \in [Appts -> Seq(AuditActions)]
  /\ outbox \in [Txns -> Entry \cup {None}]
  /\ txns   \in [Txns -> Txn]
  /\ clock  \in Nat

(* No instant belongs to two active appointments of one technician,        *)
(* whatever requests race and whatever columns their saves merge: the      *)
(* guards read stale rows, the exclusion constraint does not.              *)
Instants == {r.start : r \in Ranges}

Occupies(a, x) == /\ rows[a] # None
                  /\ Active(rows[a])
                  /\ rows[a].start <= x
                  /\ x < rows[a].end

NoDoubleBooking ==
  \A a, b \in Appts : \A x \in Instants :
    (a # b /\ Occupies(a, x) /\ Occupies(b, x)) => rows[a].tech # rows[b].tech

(* Booking is atomic: a service call is SCHEDULED exactly when an          *)
(* appointment was booked for it, although the insert, the call's save and *)
(* the enqueue are separate statements and a booking may fail after any.   *)
ScheduledIffBooked ==
  \A c \in Calls :
    calls[c] = "SCHEDULED" <=> \E a \in Appts : rows[a] # None /\ rows[a].call = c

(* The entry of t is committed by this step.                               *)
Appears(t) == outbox[t] = None /\ outbox'[t] # None

Projects(op, a) ==
  /\ op = "CREATE" <=> rows[a] = None
  /\ (rows[a] # None /\ Active(rows[a]) /\ ~Active(rows'[a])) => op = "DELETE"

EnqueuedWithChange ==
  /\ \A a \in Appts : rows'[a] # rows[a] =>
       \E t \in Txns : Appears(t) /\ outbox'[t].appt = a /\ Projects(outbox'[t].op, a)
  /\ \A t \in Txns : Appears(t) =>
       rows'[outbox'[t].appt] # rows[outbox'[t].appt]

(* The outbox is transactional: the step that commits a change of a row    *)
(* commits one outbox entry for that appointment with it, and no entry     *)
(* comes alone.  A booking brings a CREATE and only a booking does; giving *)
(* up the slot brings a DELETE.                                            *)
EveryChangeIsEnqueued == [][EnqueuedWithChange]_coreVars

AuditedWithChange ==
  \A a \in Appts :
    IF rows'[a] # rows[a]
    THEN \E act \in AuditActions : audits'[a] = Append(audits[a], act)
    ELSE audits'[a] = audits[a]

(* The audit log is append-only and complete: a change of a row appends    *)
(* exactly one audit row in the same transaction, and nothing else does.   *)
EveryChangeIsAudited == [][AuditedWithChange]_coreVars

(* A slot is given up only by a cancellation: whatever a save merges into  *)
(* the row, an appointment that stops being active has CANCELLED in its    *)
(* log and a DELETE in the outbox, so the calendar is told.                *)
CancelledIsProjected ==
  \A a \in Appts :
    rows[a] # None /\ ~Active(rows[a]) =>
      /\ \E i \in DOMAIN audits[a] : audits[a][i] = "CANCELLED"
      /\ \E t \in Txns : outbox[t] # None /\ outbox[t].op = "DELETE" /\ outbox[t].appt = a

(* The stretch of its technician's time an active row holds.               *)
ClaimOf(row) ==
  IF row # None /\ Active(row)
  THEN [tech |-> row.tech, start |-> row.start, end |-> row.end]
  ELSE None

Claims == [a \in Appts |-> ClaimOf(rows[a])]

Board == INSTANCE BookingBoard WITH claims <- Claims

(* The appointment table implements the booking board: every commit takes  *)
(* free time, exchanges a claim for free time of the same technician, or   *)
(* releases a claim, although guard, re-read and write are separate steps. *)
ImplementsBoard == Board!Spec

----------------------------------------------------------------------------
(* What the repository says and the code does not keep when requests race. *)

(* appointment.py: CANCELLED is a terminal state.                          *)
CancelledIsTerminal ==
  [][\A a \in Appts : rows[a] # None /\ ~Active(rows[a]) => ~Active(rows'[a])]_coreVars

(* appointment_service.py: only OPEN calls may be booked.                  *)
OnlyOpenCallsAreBooked ==
  [][\A a \in Appts : rows[a] = None /\ rows'[a] # None =>
                        calls[rows'[a].call] = "OPEN"]_coreVars

=============================================================================
