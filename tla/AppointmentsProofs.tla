------------------------- MODULE AppointmentsProofs -------------------------
(***************************************************************************)
(* Proofs about Appointments, for any number of requests, appointments,    *)
(* technicians and time ranges: its type invariant, that no instant is     *)
(* booked twice, what a step commits together (a row, the status of its    *)
(* service call, its audit row and its outbox entry), and that the table   *)
(* implements BookingBoard.                                                *)
(***************************************************************************)
EXTENDS Appointments, TLAPS

----------------------------------------------------------------------------
(* The inductive invariant.                                                *)

(* What the phase of a request says about its local state.                 *)
WellFormed(x) ==
  /\ x.phase \in {"loaded", "mutated", "reread"} => x.copy \in Row /\ x.op \in Ops
  /\ x.phase = "loaded"  => x.want \in Ranges
  /\ x.phase \in {"mutated", "reread"} => x.appt \in Appts
  /\ x.phase = "loaded" /\ x.op # "BOOK" => x.appt \in Appts
  /\ x.phase = "reread" => x.op # "BOOK" /\ x.basis \in Row

(* A request that changes an appointment found its row, and rows are never *)
(* deleted, so the row is still there when save() re-reads it.             *)
Saves(x) == x.phase \in {"loaded", "mutated", "reread"} /\ x.op # "BOOK"

Grounded ==
  \A t \in Txns : /\ WellFormed(txns[t])
                  /\ Saves(txns[t]) => rows[txns[t].appt] # None

(* Active rows of one technician do not meet: what the exclusion           *)
(* constraint maintains, whatever the guards let through.                  *)
Apart ==
  \A a, b \in Appts :
    (/\ a # b
     /\ rows[a] # None
     /\ rows[b] # None
     /\ Active(rows[a])
     /\ Active(rows[b])
     /\ rows[a].tech = rows[b].tech)
    => ~Meets(rows[a], rows[b])

IInv == TypeOK /\ Grounded /\ Apart

----------------------------------------------------------------------------
(* Lemmas about the operators.                                             *)

(* A value a request may carry is a pair of integers.                      *)
LEMMA RangeIsIntegers ==
  ASSUME NEW r \in Ranges
  PROVE  r.start \in Int /\ r.end \in Int
BY RangesAssumption

(* The mutations of the domain object keep it a row.                       *)
LEMMA MutatedIsRow ==
  ASSUME NEW row \in Row, NEW r \in Ranges, NEW text \in Texts, NEW now \in Nat
  PROVE  /\ Rescheduled(row, r, now) \in Row
         /\ Cancelled(row, now) \in Row
         /\ Detailed(row, text, now) \in Row
<1>1. Rescheduled(row, r, now) \in Row
  BY RangeIsIntegers DEF Rescheduled, Row, Statuses
<1>2. Cancelled(row, now) \in Row
  BY DEF Cancelled, Row, Statuses
<1>3. Detailed(row, text, now) \in Row
  BY DEF Detailed, Row
<1> QED BY <1>1, <1>2, <1>3

(* A save merges columns and leaves a row, of the same technician.         *)
LEMMA MergedIsRow ==
  ASSUME NEW copy \in Row, NEW basis \in Row, NEW row \in Row
  PROVE  /\ Merged(copy, basis, row) \in Row
         /\ Merged(copy, basis, row).tech = row.tech
<1>1. /\ Column(copy.start, basis.start, row.start) \in Int
      /\ Column(copy.end, basis.end, row.end) \in Int
      /\ Column(copy.status, basis.status, row.status) \in Statuses
      /\ Column(copy.updated, basis.updated, row.updated) \in Nat
  BY DEF Column, Row
<1>2. /\ Column(copy.details, basis.details, row.details) \in Texts \cup {None}
      /\ Column(copy.event, basis.event, row.event) \in Appts \cup {None}
  BY DEF Column, Row
<1> QED BY <1>1, <1>2 DEF Merged, Row

(* A unit of work enqueues an entry of the outbox.                         *)
LEMMA EnqueuedIsEntry ==
  ASSUME NEW t \in Txns, txns[t] \in Txn, txns[t].copy \in Row, txns[t].appt \in Appts
  PROVE  Enqueued(t) \in Entry
<1>1. /\ txns[t].began \in Nat
      /\ (IF txns[t].op = "CANCEL" THEN txns[t].copy.event ELSE None) \in Appts \cup {None}
  BY DEF Txn, Row
<1>2. OutboxOp(txns[t].op) \in {"CREATE", "UPDATE", "DELETE"}
  BY DEF OutboxOp
<1> QED BY <1>1, <1>2 DEF Enqueued, Entry

(* The one way a row is written: what the constraint allows keeps the      *)
(* active rows apart.                                                      *)
LEMMA WriteKeepsApart ==
  ASSUME rows \in [Appts -> Row \cup {None}], Apart,
         NEW a \in Appts, NEW row \in Row, ConstraintAllows(a, row),
         rows' = [rows EXCEPT ![a] = row]
  PROVE  Apart'
<1> SUFFICES ASSUME NEW b \in Appts, NEW c \in Appts, b # c,
                    rows'[b] # None, rows'[c] # None,
                    Active(rows'[b]), Active(rows'[c]),
                    rows'[b].tech = rows'[c].tech
             PROVE  ~Meets(rows'[b], rows'[c])
  BY DEF Apart
<1>1. ASSUME NEW d \in Appts \ {a}, rows[d] # None, Active(rows[d]),
             rows[d].tech = row.tech, Active(row)
      PROVE  ~Meets(rows[d], row)
  BY <1>1 DEF ConstraintAllows, Conflicting
<1>2. CASE b = a
  <2>1. rows'[b] = row /\ rows'[c] = rows[c]
    BY <1>2
  <2>2. ~Meets(rows[c], row)
    BY <1>1, <1>2, <2>1
  <2> QED BY <2>1, <2>2 DEF Meets
<1>3. CASE c = a
  <2>1. rows'[c] = row /\ rows'[b] = rows[b]
    BY <1>3
  <2> QED BY <1>1, <1>3, <2>1
<1>4. CASE b # a /\ c # a
  BY <1>4 DEF Apart
<1> QED BY <1>2, <1>3, <1>4

----------------------------------------------------------------------------
(* The inductive step.                                                     *)

(* A step that changes the local state of one request and no table.        *)
LEMMA LocalStep ==
  ASSUME IInv, NEW t \in Txns, NEW x \in Txn,
         txns' = [txns EXCEPT ![t] = x],
         WellFormed(x), Saves(x) => rows[x.appt] # None,
         clock' \in Nat,
         UNCHANGED <<calls, rows, audits, outbox>>
  PROVE  IInv'
<1>1. TypeOK'
  BY DEF IInv, TypeOK
<1>2. Grounded'
  <2> SUFFICES ASSUME NEW u \in Txns
               PROVE  /\ WellFormed(txns'[u])
                      /\ Saves(txns'[u]) => rows'[txns'[u].appt] # None
    BY DEF Grounded
  <2>1. CASE u = t
    BY <2>1 DEF IInv, TypeOK
  <2>2. CASE u # t
    BY <2>2 DEF IInv, TypeOK, Grounded
  <2> QED BY <2>1, <2>2
<1>3. Apart'
  BY DEF IInv, Apart
<1> QED BY <1>1, <1>2, <1>3 DEF IInv

(* The commit of a request: a row the constraint allows, its audit row and *)
(* its outbox entry.                                                       *)
LEMMA CommitStep ==
  ASSUME IInv, NEW t \in Txns, NEW a \in Appts, NEW row \in Row,
         txns[t].phase \in {"mutated", "reread"}, a = txns[t].appt,
         ConstraintAllows(a, row),
         rows'   = [rows EXCEPT ![a] = row],
         audits' = [audits EXCEPT ![a] = Append(@, AuditAction(txns[t].op))],
         outbox' = [outbox EXCEPT ![t] = Enqueued(t)],
         txns'   = [txns EXCEPT ![t] = Unbound("done")],
         calls'  \in [Calls -> {None, "OPEN", "SCHEDULED"}],
         UNCHANGED clock
  PROVE  IInv'
<1> USE DEF IInv
<1>1. /\ txns[t] \in Txn /\ txns[t].op \in Ops
      /\ txns[t].copy \in Row /\ txns[t].appt \in Appts
  BY DEF TypeOK, Grounded, WellFormed
<1>2. Enqueued(t) \in Entry
  BY <1>1, EnqueuedIsEntry
<1>3. AuditAction(txns[t].op) \in AuditActions
  BY <1>1 DEF AuditAction, AuditActions, Ops
<1>4. Unbound("done") \in Txn /\ WellFormed(Unbound("done")) /\ ~Saves(Unbound("done"))
  BY DEF Unbound, Txn, WellFormed, Saves
<1>5. TypeOK'
  <2>1. audits' \in [Appts -> Seq(AuditActions)]
    BY <1>3 DEF TypeOK
  <2> QED BY <2>1, <1>2, <1>4 DEF TypeOK
<1>6. Grounded'
  <2> SUFFICES ASSUME NEW u \in Txns
               PROVE  /\ WellFormed(txns'[u])
                      /\ Saves(txns'[u]) => rows'[txns'[u].appt] # None
    BY DEF Grounded
  <2>1. CASE u = t
    BY <2>1, <1>4 DEF TypeOK
  <2>2. CASE u # t
    <3>1. WellFormed(txns[u]) /\ (Saves(txns[u]) => rows[txns[u].appt] # None)
      BY DEF Grounded
    <3>2. row # None
      BY NoneAssumption
    <3>3. Saves(txns[u]) => txns[u].appt \in Appts
      BY <3>1 DEF Saves, WellFormed
    <3> QED BY <2>2, <3>1, <3>2, <3>3 DEF TypeOK
  <2> QED BY <2>1, <2>2
<1>7. Apart'
  BY WriteKeepsApart DEF TypeOK
<1> QED BY <1>5, <1>6, <1>7

(* The first step of a request that found an appointment.                  *)
LEMMA BeginStep ==
  ASSUME IInv, NEW t \in Txns, NEW phase \in {"loaded", "mutated"},
         NEW op \in Ops, NEW a \in Appts \cup {None},
         NEW want \in Ranges \cup {None}, NEW copy \in Row,
         phase = "loaded"  => want \in Ranges,
         phase = "mutated" => op # "BOOK",
         op # "BOOK" => a \in Appts /\ rows[a] # None,
         Begin(t, phase, op, a, want, copy)
  PROVE  IInv'
<1> DEFINE x == [phase |-> phase, op |-> op, appt |-> a, want |-> want,
                 copy |-> copy, basis |-> None, began |-> clock]
<1>1. x \in Txn
  BY DEF IInv, TypeOK, Txn
<1>2. WellFormed(x) /\ (Saves(x) => rows[x.appt] # None)
  BY DEF WellFormed, Saves
<1>3. clock' \in Nat
  BY DEF Begin, IInv, TypeOK
<1>4. txns' = [txns EXCEPT ![t] = x] /\ UNCHANGED <<calls, rows, audits, outbox>>
  BY DEF Begin
<1> HIDE DEF x
<1> QED BY <1>1, <1>2, <1>3, <1>4, LocalStep

(* Every step of every request preserves the inductive invariant.          *)
LEMMA Inductive == IInv /\ [CoreNext]_coreVars => IInv'
<1> SUFFICES ASSUME IInv, [CoreNext]_coreVars PROVE IInv'
  OBVIOUS
<1>1. ASSUME NEW c \in Calls, OpenServiceCall(c) PROVE IInv'
  <2>1. TypeOK'
    BY <1>1 DEF OpenServiceCall, IInv, TypeOK
  <2>2. Grounded' /\ Apart'
    BY <1>1 DEF OpenServiceCall, IInv, Grounded, Apart
  <2> QED BY <2>1, <2>2 DEF IInv
<1>2. ASSUME NEW t \in Txns, NEW c \in Calls, NEW k \in Techs, NEW r \in Ranges,
             BookLoad(t, c, k, r)
      PROVE  IInv'
  <2>1. NewRow(c, k, r) \in Row
    BY RangeIsIntegers DEF NewRow, Row, Statuses
  <2> QED BY <1>2, <2>1, BeginStep DEF BookLoad, Ops
<1>3. ASSUME NEW t \in Txns, NEW a \in Appts, BookCheck(t, a) PROVE IInv'
  <2> DEFINE x == [txns[t] EXCEPT !.phase = "mutated", !.appt = a, !.copy.updated = clock]
  <2>1. txns[t] \in Txn /\ txns[t].copy \in Row /\ txns[t].op = "BOOK" /\ clock \in Nat
    BY <1>3 DEF BookCheck, IInv, TypeOK, Grounded, WellFormed
  <2>2. [txns[t].copy EXCEPT !.updated = clock] \in Row
    BY <2>1 DEF Row
  <2>3. x = [txns[t] EXCEPT !.phase = "mutated", !.appt = a,
                            !.copy = [txns[t].copy EXCEPT !.updated = clock]]
    BY <2>1 DEF Txn
  <2>4. x \in Txn /\ WellFormed(x) /\ ~Saves(x)
    BY <2>1, <2>2, <2>3 DEF Txn, WellFormed, Saves, Ops
  <2>5. txns' = [txns EXCEPT ![t] = x] /\ clock' \in Nat /\ UNCHANGED <<calls, rows, audits, outbox>>
    BY <1>3, <2>1 DEF BookCheck, IInv, TypeOK
  <2> HIDE DEF x
  <2> QED BY <2>4, <2>5, LocalStep
<1>4. ASSUME NEW t \in Txns, BookCommit(t) PROVE IInv'
  <2>1. txns[t].appt \in Appts /\ txns[t].copy \in Row
    BY <1>4 DEF BookCommit, IInv, Grounded, WellFormed
  <2>2. calls' \in [Calls -> {None, "OPEN", "SCHEDULED"}]
    BY <1>4 DEF BookCommit, IInv, TypeOK
  <2> QED BY <1>4, <2>1, <2>2, CommitStep DEF BookCommit
<1>5. ASSUME NEW t \in Txns, NEW a \in Appts, NEW r \in Ranges, RescheduleLoad(t, a, r)
      PROVE  IInv'
  <2>1. rows[a] \in Row
    BY <1>5 DEF RescheduleLoad, IInv, TypeOK
  <2> QED BY <1>5, <2>1, BeginStep DEF RescheduleLoad, Ops
<1>6. ASSUME NEW t \in Txns, RescheduleCheck(t) PROVE IInv'
  <2> DEFINE x == [txns[t] EXCEPT !.phase = "mutated",
                                  !.copy = Rescheduled(@, txns[t].want, clock)]
  <2>1. /\ txns[t] \in Txn /\ txns[t].copy \in Row /\ txns[t].want \in Ranges
        /\ txns[t].op = "RESCHEDULE" /\ txns[t].appt \in Appts /\ clock \in Nat
    BY <1>6 DEF RescheduleCheck, IInv, TypeOK, Grounded, WellFormed
  <2>2. rows[txns[t].appt] # None
    BY <1>6 DEF RescheduleCheck, IInv, Grounded, Saves
  <2>3. Rescheduled(txns[t].copy, txns[t].want, clock) \in Row
    BY <2>1, RangeIsIntegers DEF Rescheduled, Row, Statuses
  <2>4. x \in Txn /\ WellFormed(x) /\ x.appt = txns[t].appt
    BY <2>1, <2>3 DEF Txn, WellFormed, Ops
  <2>5. txns' = [txns EXCEPT ![t] = x]
    BY <1>6 DEF RescheduleCheck
  <2>6. clock' \in Nat /\ UNCHANGED <<calls, rows, audits, outbox>>
    BY <1>6, <2>1 DEF RescheduleCheck
  <2> HIDE DEF x
  <2> QED BY <2>2, <2>4, <2>5, <2>6, LocalStep
<1>7. ASSUME NEW t \in Txns, NEW a \in Appts, CancelLoad(t, a) PROVE IInv'
  <2>1. rows[a] \in Row /\ clock \in Nat
    BY <1>7 DEF CancelLoad, IInv, TypeOK
  <2>2. Cancelled(rows[a], clock) \in Row
    BY <2>1 DEF Cancelled, Row, Statuses
  <2> QED BY <1>7, <2>2, BeginStep DEF CancelLoad, Ops
<1>8. ASSUME NEW t \in Txns, NEW a \in Appts, NEW text \in Texts, AddDetailsLoad(t, a, text)
      PROVE  IInv'
  <2>1. rows[a] \in Row /\ clock \in Nat
    BY <1>8 DEF AddDetailsLoad, IInv, TypeOK
  <2>2. Detailed(rows[a], text, clock) \in Row
    BY <2>1 DEF Detailed, Row
  <2> QED BY <1>8, <2>2, BeginStep DEF AddDetailsLoad, Ops
<1>9. ASSUME NEW t \in Txns, SaveReread(t) PROVE IInv'
  <2> DEFINE x == [txns[t] EXCEPT !.phase = "reread", !.basis = rows[txns[t].appt]]
  <2>1. /\ txns[t] \in Txn /\ WellFormed(txns[t]) /\ txns[t].phase = "mutated"
        /\ txns[t].op # "BOOK" /\ txns[t].appt \in Appts
    BY <1>9 DEF SaveReread, IInv, TypeOK, Grounded, WellFormed
  <2>2. rows[txns[t].appt] # None /\ rows[txns[t].appt] \in Row
    BY <2>1 DEF IInv, TypeOK, Grounded, Saves
  <2>3. x \in Txn /\ WellFormed(x) /\ x.appt = txns[t].appt
    BY <2>1, <2>2 DEF Txn, WellFormed
  <2>4. txns' = [txns EXCEPT ![t] = x] /\ clock' \in Nat /\ UNCHANGED <<calls, rows, audits, outbox>>
    BY <1>9 DEF SaveReread, IInv, TypeOK
  <2> HIDE DEF x
  <2> QED BY <2>2, <2>3, <2>4, LocalStep
<1>10. ASSUME NEW t \in Txns, SaveCommit(t) PROVE IInv'
  <2> DEFINE a   == txns[t].appt
             new == Merged(txns[t].copy, txns[t].basis, rows[a])
  <2>1. a \in Appts /\ txns[t].copy \in Row /\ txns[t].basis \in Row /\ rows[a] \in Row
    BY <1>10 DEF SaveCommit, IInv, TypeOK, Grounded, WellFormed, Saves
  <2>2. new \in Row
    BY <2>1, MergedIsRow
  <2>3. calls' \in [Calls -> {None, "OPEN", "SCHEDULED"}]
    BY <1>10 DEF SaveCommit, IInv, TypeOK
  <2>4. /\ txns[t].phase = "reread"
        /\ ConstraintAllows(a, new)
        /\ rows'   = [rows EXCEPT ![a] = new]
        /\ audits' = [audits EXCEPT ![a] = Append(@, AuditAction(txns[t].op))]
        /\ outbox' = [outbox EXCEPT ![t] = Enqueued(t)]
        /\ txns'   = [txns EXCEPT ![t] = Unbound("done")]
        /\ UNCHANGED clock
    BY <1>10 DEF SaveCommit
  <2>5. a = txns[t].appt
    OBVIOUS
  <2> HIDE DEF a, new
  <2> QED BY <2>1, <2>2, <2>3, <2>4, <2>5, CommitStep
<1>11. ASSUME NEW t \in Txns, Rollback(t) PROVE IInv'
  <2>1. Unbound("done") \in Txn /\ WellFormed(Unbound("done")) /\ ~Saves(Unbound("done"))
    BY DEF Unbound, Txn, WellFormed, Saves
  <2>2. clock' \in Nat
    BY <1>11 DEF Rollback, IInv, TypeOK
  <2> QED BY <1>11, <2>1, <2>2, LocalStep DEF Rollback
<1>12. CASE UNCHANGED coreVars
  BY <1>12 DEF coreVars, IInv, TypeOK, Grounded, Apart
<1> QED BY <1>1, <1>2, <1>3, <1>4, <1>5, <1>6, <1>7, <1>8, <1>9, <1>10, <1>11, <1>12
        DEF CoreNext, Request

(* The invariant holds of the empty tables.                                *)
LEMMA Initially == CoreInit => IInv
<1> SUFFICES ASSUME CoreInit PROVE IInv
  OBVIOUS
<1>1. Unbound("idle") \in Txn /\ WellFormed(Unbound("idle")) /\ ~Saves(Unbound("idle"))
  BY DEF Unbound, Txn, WellFormed, Saves
<1>2. TypeOK
  BY <1>1 DEF CoreInit, TypeOK
<1>3. Grounded /\ Apart
  BY <1>1 DEF CoreInit, Grounded, Apart
<1> QED BY <1>2, <1>3 DEF IInv

----------------------------------------------------------------------------
(* Theorems.                                                               *)

(* In every behaviour the tables and the requests keep their shape, a      *)
(* request that saves finds its row and active rows stay apart.            *)
THEOREM Invariance == CoreSpec => []IInv
BY Initially, Inductive, PTL DEF CoreSpec

(* The tables, the outbox and the requests' local state stay well typed:   *)
(* the columns a save merges out of two versions of a row make a row.      *)
THEOREM TypeCorrect == CoreSpec => []TypeOK
<1>1. IInv => TypeOK
  BY DEF IInv
<1> QED BY <1>1, Invariance, PTL

(* Rows that are apart share no instant.                                   *)
LEMMA ApartMeansNoDoubleBooking == IInv => NoDoubleBooking
<1> SUFFICES ASSUME IInv, NEW a \in Appts, NEW b \in Appts, NEW x \in Instants,
                    a # b, Occupies(a, x), Occupies(b, x),
                    rows[a].tech = rows[b].tech
             PROVE  FALSE
  BY DEF NoDoubleBooking
<1>1. x \in Int
  BY RangeIsIntegers DEF Instants
<1>2. rows[a] \in Row /\ rows[b] \in Row
  BY DEF Occupies, IInv, TypeOK
<1>3. Meets(rows[a], rows[b])
  BY <1>1, <1>2 DEF Occupies, Meets, Row
<1> QED BY <1>3 DEF IInv, Apart, Occupies

(* No instant is booked twice for one technician, however many requests    *)
(* race and whichever columns their saves merge.                           *)
THEOREM NeverDoubleBooked == CoreSpec => []NoDoubleBooking
BY Invariance, ApartMeansNoDoubleBooking, PTL

----------------------------------------------------------------------------
(* The inductive invariant.                                                *)

(* The request holds a copy it has mutated and not yet committed.          *)
Mutated(x) == x.phase \in {"mutated", "reread"}

Books(x) == x.phase = "mutated" /\ x.op = "BOOK"

(* The id of a booking in progress is its own: no row and no other request *)
(* has it.                                                                 *)
Fresh ==
  \A t \in Txns : Books(txns[t]) =>
    /\ rows[txns[t].appt] = None
    /\ \A u \in Txns \ {t} : txns[u].appt # txns[t].appt

(* A unit of work enqueues once, when it commits.                          *)
NotYetEnqueued == \A t \in Txns : txns[t].phase # "done" => outbox[t] = None

(* Only a cancellation writes CANCELLED: a booking starts SCHEDULED and    *)
(* the others refuse a cancelled copy.                                     *)
Writes(x) == Mutated(x) \/ (x.phase = "loaded" /\ x.op = "BOOK")

OnlyCancelCancels ==
  \A t \in Txns : Writes(txns[t]) => Active(txns[t].copy) \/ txns[t].op = "CANCEL"

(* updated_at tells a mutated copy from every row and from every other     *)
(* copy, so a save always changes the row it writes.                       *)
Stamped ==
  /\ \A a \in Appts : rows[a] # None => rows[a].updated < clock
  /\ \A t \in Txns : Mutated(txns[t]) =>
       /\ txns[t].copy.updated < clock
       /\ \A a \in Appts : rows[a] # None => rows[a].updated # txns[t].copy.updated
       /\ \A u \in Txns \ {t} : Mutated(txns[u]) => txns[u].copy.updated # txns[t].copy.updated
  /\ \A t \in Txns : txns[t].phase = "reread" =>
       txns[t].basis.updated # txns[t].copy.updated

LInv == IInv /\ Fresh /\ NotYetEnqueued /\ OnlyCancelCancels /\ Stamped

----------------------------------------------------------------------------
(* The inductive step.                                                     *)

(* A step that changes the local state of one request and no table.        *)
LEMMA LocalLogStep ==
  ASSUME LInv, IInv', NEW t \in Txns, NEW x,
         txns' = [txns EXCEPT ![t] = x],
         UNCHANGED <<rows, outbox>>,
         clock' \in {clock, clock + 1},
         x.phase # "done" => txns[t].phase # "done",
         x.appt \in {None, txns[t].appt} \/ rows[x.appt] # None
           \/ \A u \in Txns : txns[u].appt # x.appt,
         Books(x) => rows[x.appt] = None /\ \A u \in Txns \ {t} : txns[u].appt # x.appt,
         Writes(x) => Active(x.copy) \/ x.op = "CANCEL",
         Mutated(x) => \/ x.copy.updated = clock /\ clock' = clock + 1
                       \/ Mutated(txns[t]) /\ x.copy.updated = txns[t].copy.updated,
         x.phase = "reread" => x.basis.updated # x.copy.updated
  PROVE  LInv'
<1>1. /\ txns \in [Txns -> Txn] /\ clock \in Nat /\ rows \in [Appts -> Row \cup {None}]
      /\ txns'[t] = x /\ \A u \in Txns \ {t} : txns'[u] = txns[u]
  BY DEF LInv, IInv, TypeOK
<1>2. Fresh'
  <2> SUFFICES ASSUME NEW u \in Txns, Books(txns'[u])
               PROVE  /\ rows[txns'[u].appt] = None
                      /\ \A v \in Txns \ {u} : txns'[v].appt # txns'[u].appt
    BY DEF Fresh
  <2>1. CASE u = t
    BY <1>1, <2>1
  <2>2. CASE u # t
    <3>1. rows[txns[u].appt] = None /\ \A v \in Txns \ {u} : txns[v].appt # txns[u].appt
      BY <1>1, <2>2 DEF LInv, Fresh
    <3>2. txns[u].appt # None
      BY <1>1, <2>2, NoneAssumption DEF LInv, IInv, Grounded, WellFormed, Books
    <3>3. x.appt # txns[u].appt
      BY <2>2, <3>1, <3>2
    <3> QED BY <1>1, <2>2, <3>1, <3>3
  <2> QED BY <2>1, <2>2
<1>3. NotYetEnqueued' /\ OnlyCancelCancels'
  BY <1>1 DEF LInv, NotYetEnqueued, OnlyCancelCancels
<1>4. Stamped'
  <2>1. \A a \in Appts : rows'[a] # None => rows'[a].updated < clock'
    BY <1>1 DEF LInv, Stamped, Row
  <2>2. \A u \in Txns : Mutated(txns[u]) => txns[u].copy.updated \in Nat
    BY <1>1 DEF LInv, IInv, Grounded, WellFormed, Mutated, Row
  <2>3. \A a \in Appts : rows[a] # None => rows[a].updated \in Nat
    BY <1>1 DEF Row
  <2>4. ASSUME NEW u \in Txns, Mutated(txns'[u])
        PROVE  /\ txns'[u].copy.updated < clock'
               /\ \A a \in Appts : rows'[a] # None => rows'[a].updated # txns'[u].copy.updated
    BY <1>1, <2>2, <2>3, <2>4 DEF LInv, Stamped
  <2>5. ASSUME NEW u \in Txns, NEW v \in Txns \ {u}, Mutated(txns'[u]), Mutated(txns'[v])
        PROVE  txns'[v].copy.updated # txns'[u].copy.updated
    BY <1>1, <2>2, <2>5 DEF LInv, Stamped
  <2>6. \A u \in Txns : txns'[u].phase = "reread" => txns'[u].basis.updated # txns'[u].copy.updated
    BY <1>1 DEF LInv, Stamped
  <2> QED BY <2>1, <2>4, <2>5, <2>6 DEF Stamped
<1> QED BY <1>2, <1>3, <1>4 DEF LInv

(* A commit writes one row, whose updated_at is that of the copy.          *)
LEMMA CommitLogStep ==
  ASSUME LInv, IInv', NEW t \in Txns, NEW row \in Row, NEW entry,
         Mutated(txns[t]),
         row.updated = txns[t].copy.updated,
         rows'   = [rows EXCEPT ![txns[t].appt] = row],
         outbox' = [outbox EXCEPT ![t] = entry],
         txns'   = [txns EXCEPT ![t] = Unbound("done")],
         UNCHANGED clock
  PROVE  LInv'
<1> DEFINE a == txns[t].appt
<1>1. /\ a \in Appts /\ row # None
      /\ rows \in [Appts -> Row \cup {None}]
      /\ rows'[a] = row /\ \A b \in Appts \ {a} : rows'[b] = rows[b]
      /\ txns'[t] = Unbound("done") /\ \A u \in Txns \ {t} : txns'[u] = txns[u]
  BY NoneAssumption DEF LInv, IInv, TypeOK, Grounded, WellFormed, Mutated
<1>2. /\ ~Books(Unbound("done")) /\ ~Mutated(Unbound("done")) /\ ~Writes(Unbound("done"))
      /\ Unbound("done").phase = "done" /\ Unbound("done").appt = None
  BY DEF Unbound, Books, Mutated, Writes
<1>3. Fresh'
  <2> SUFFICES ASSUME NEW u \in Txns \ {t}, Books(txns[u])
               PROVE  /\ rows'[txns[u].appt] = None
                      /\ \A v \in Txns \ {u} : txns'[v].appt # txns[u].appt
    BY <1>1, <1>2 DEF Fresh
  <2>1. /\ rows[txns[u].appt] = None /\ txns[u].appt \in Appts /\ txns[u].appt # None
        /\ \A v \in Txns \ {u} : txns[v].appt # txns[u].appt
    BY NoneAssumption DEF LInv, Fresh, IInv, Grounded, WellFormed, Books
  <2>2. txns[u].appt # a
    BY <2>1
  <2> QED BY <1>1, <1>2, <2>1, <2>2
<1>4. NotYetEnqueued' /\ OnlyCancelCancels'
  BY <1>1, <1>2 DEF LInv, IInv, TypeOK, NotYetEnqueued, OnlyCancelCancels
<1>5. Stamped'
  <2>1. \A b \in Appts : rows'[b] # None =>
          rows'[b].updated < clock' /\ (rows'[b] = rows[b] \/ rows'[b].updated = txns[t].copy.updated)
    BY <1>1 DEF LInv, Stamped
  <2>2. ASSUME NEW u \in Txns, Mutated(txns'[u])
        PROVE  /\ u # t /\ txns'[u] = txns[u]
               /\ txns[u].copy.updated < clock'
               /\ txns[u].copy.updated # txns[t].copy.updated
               /\ \A v \in Txns \ {u} : Mutated(txns[v]) => txns[v].copy.updated # txns[u].copy.updated
    BY <1>1, <1>2, <2>2 DEF LInv, Stamped
  <2>3. ASSUME NEW u \in Txns, Mutated(txns'[u]), NEW b \in Appts, rows'[b] # None
        PROVE  rows'[b].updated # txns'[u].copy.updated
    BY <2>1, <2>2, <2>3 DEF LInv, Stamped
  <2>4. ASSUME NEW u \in Txns, Mutated(txns'[u]), NEW v \in Txns \ {u}, Mutated(txns'[v])
        PROVE  txns'[v].copy.updated # txns'[u].copy.updated
    BY <2>2, <2>4
  <2>5. \A u \in Txns : txns'[u].phase = "reread" => txns'[u].basis.updated # txns'[u].copy.updated
    BY <1>1, <1>2 DEF LInv, Stamped
  <2> QED BY <2>1, <2>2, <2>3, <2>4, <2>5 DEF Stamped
<1> QED BY <1>3, <1>4, <1>5 DEF LInv

(* What BookCommit and SaveCommit find: the copy they write.               *)
LEMMA CommitFacts ==
  ASSUME LInv, NEW t \in Txns, Mutated(txns[t])
  PROVE  /\ txns[t] \in Txn /\ txns[t].appt \in Appts
         /\ txns[t].copy \in Row /\ outbox[t] = None
         /\ txns[t].op \in Ops
         /\ txns[t].op # "BOOK" => rows[txns[t].appt] \in Row
         /\ txns[t].phase = "reread" =>
              /\ txns[t].op # "BOOK"
              /\ txns[t].basis \in Row
              /\ LET new == Merged(txns[t].copy, txns[t].basis, rows[txns[t].appt])
                 IN  /\ new \in Row
                     /\ new.updated = txns[t].copy.updated
                     /\ new.call = rows[txns[t].appt].call
                     /\ new.tech = rows[txns[t].appt].tech
                     /\ new.status \in {txns[t].copy.status, rows[txns[t].appt].status}
<1>1. /\ txns[t] \in Txn /\ txns[t].appt \in Appts
      /\ txns[t].copy \in Row /\ outbox[t] = None /\ txns[t].op \in Ops
  BY DEF LInv, IInv, TypeOK, Grounded, WellFormed, Mutated, NotYetEnqueued
<1>2. txns[t].op # "BOOK" => rows[txns[t].appt] \in Row
  BY <1>1 DEF LInv, IInv, TypeOK, Grounded, Saves, Mutated
<1>3. ASSUME txns[t].phase = "reread"
      PROVE  txns[t].op # "BOOK" /\ txns[t].basis \in Row
               /\ txns[t].basis.updated # txns[t].copy.updated
  BY <1>3 DEF LInv, IInv, Grounded, WellFormed, Stamped
<1>4. ASSUME txns[t].phase = "reread"
      PROVE  LET new == Merged(txns[t].copy, txns[t].basis, rows[txns[t].appt])
             IN  /\ new.updated = txns[t].copy.updated
                 /\ new.call = rows[txns[t].appt].call
                 /\ new.tech = rows[txns[t].appt].tech
                 /\ new.status \in {txns[t].copy.status, rows[txns[t].appt].status}
  BY <1>1, <1>2, <1>3, <1>4 DEF Merged, Column, Row
<1>5. ASSUME txns[t].phase = "reread"
      PROVE  Merged(txns[t].copy, txns[t].basis, rows[txns[t].appt]) \in Row
  BY <1>1, <1>2, <1>3, <1>5, MergedIsRow
<1> QED BY <1>1, <1>2, <1>3, <1>4, <1>5

LEMMA LogInductive == LInv /\ [CoreNext]_coreVars => LInv'
<1> SUFFICES ASSUME LInv, [CoreNext]_coreVars PROVE LInv'
  OBVIOUS
<1>0. IInv' /\ txns \in [Txns -> Txn] /\ clock \in Nat
  BY Inductive DEF LInv, IInv, TypeOK
<1>1. ASSUME NEW c \in Calls, OpenServiceCall(c) PROVE LInv'
  BY <1>0, <1>1
     DEF OpenServiceCall, LInv, Fresh, NotYetEnqueued, OnlyCancelCancels, Stamped
<1>2. ASSUME NEW t \in Txns, NEW c \in Calls, NEW k \in Techs, NEW r \in Ranges,
             BookLoad(t, c, k, r)
      PROVE  LInv'
  <2> DEFINE x == [phase |-> "loaded", op |-> "BOOK", appt |-> None, want |-> r,
                   copy |-> NewRow(c, k, r), basis |-> None, began |-> clock]
  <2>1. x.phase = "loaded" /\ x.appt = None /\ ~Mutated(x) /\ ~Books(x) /\ Active(x.copy)
    BY DEF Mutated, Books, NewRow, Active
  <2>2. /\ txns[t].phase = "idle" /\ txns' = [txns EXCEPT ![t] = x]
        /\ UNCHANGED <<rows, outbox>> /\ clock' = clock + 1
    BY <1>2 DEF BookLoad, Begin
  <2> HIDE DEF x
  <2> QED BY <1>0, <2>1, <2>2, LocalLogStep
<1>3. ASSUME NEW t \in Txns, NEW a \in Appts, BookCheck(t, a) PROVE LInv'
  <2> DEFINE x == [txns[t] EXCEPT !.phase = "mutated", !.appt = a, !.copy.updated = clock]
  <2>1. txns[t] \in Txn /\ txns[t].copy \in Row /\ txns[t].phase = "loaded" /\ txns[t].op = "BOOK"
    BY <1>0, <1>3 DEF BookCheck, LInv, IInv, Grounded, WellFormed
  <2>2. x.phase = "mutated" /\ x.appt = a /\ x.copy.updated = clock
        /\ x.copy.status = txns[t].copy.status
    BY <2>1 DEF Txn, Row
  <2>3. /\ txns' = [txns EXCEPT ![t] = x]
        /\ UNCHANGED <<rows, outbox>> /\ clock' = clock + 1
        /\ rows[a] = None /\ \A u \in Txns : txns[u].appt # a
    BY <1>3 DEF BookCheck
  <2>4. Active(x.copy)
    BY <2>1, <2>2 DEF LInv, OnlyCancelCancels, Writes, Active
  <2> HIDE DEF x
  <2> QED BY <1>0, <2>1, <2>2, <2>3, <2>4, LocalLogStep
<1>4. ASSUME NEW t \in Txns, BookCommit(t) PROVE LInv'
  <2>1. Mutated(txns[t])
    BY <1>4 DEF BookCommit, Mutated
  <2> QED BY <1>0, <1>4, <2>1, CommitFacts, CommitLogStep DEF BookCommit
<1>5. ASSUME NEW t \in Txns, NEW a \in Appts, NEW r \in Ranges, RescheduleLoad(t, a, r)
      PROVE  LInv'
  <2> DEFINE x == [phase |-> "loaded", op |-> "RESCHEDULE", appt |-> a, want |-> r,
                   copy |-> rows[a], basis |-> None, began |-> clock]
  <2>1. x.phase = "loaded" /\ x.appt = a /\ ~Mutated(x) /\ ~Books(x) /\ ~Writes(x)
    BY DEF Mutated, Books, Writes
  <2>2. /\ txns[t].phase = "idle" /\ txns' = [txns EXCEPT ![t] = x]
        /\ UNCHANGED <<rows, outbox>> /\ clock' = clock + 1 /\ rows[a] # None
    BY <1>5 DEF RescheduleLoad, Begin
  <2> HIDE DEF x
  <2> QED BY <1>0, <2>1, <2>2, LocalLogStep
<1>6. ASSUME NEW t \in Txns, RescheduleCheck(t) PROVE LInv'
  <2> DEFINE x == [txns[t] EXCEPT !.phase = "mutated",
                                  !.copy = Rescheduled(txns[t].copy, txns[t].want, clock)]
  <2>1. txns[t] \in Txn /\ txns[t].copy \in Row /\ txns[t].phase = "loaded" /\ txns[t].op = "RESCHEDULE"
    BY <1>0, <1>6 DEF RescheduleCheck, LInv, IInv, Grounded, WellFormed
  <2>2. x.phase = "mutated" /\ x.appt = txns[t].appt /\ x.op = "RESCHEDULE"
        /\ x.copy = Rescheduled(txns[t].copy, txns[t].want, clock)
    BY <2>1 DEF Txn
  <2>3. /\ Rescheduled(txns[t].copy, txns[t].want, clock).updated = clock
        /\ Rescheduled(txns[t].copy, txns[t].want, clock).status = "RESCHEDULED"
    BY <2>1 DEF Rescheduled, Row
  <2>4. /\ txns' = [txns EXCEPT ![t] = x]
        /\ UNCHANGED <<rows, outbox>> /\ clock' = clock + 1
    BY <1>6 DEF RescheduleCheck
  <2>5. ~Books(x) /\ Active(x.copy) /\ x.copy.updated = clock
    BY <2>2, <2>3 DEF Books, Active
  <2> HIDE DEF x
  <2> QED BY <1>0, <2>1, <2>2, <2>3, <2>4, <2>5, LocalLogStep
<1>7. ASSUME NEW t \in Txns, NEW a \in Appts, CancelLoad(t, a) PROVE LInv'
  <2> DEFINE x == [phase |-> "mutated", op |-> "CANCEL", appt |-> a, want |-> None,
                   copy |-> Cancelled(rows[a], clock), basis |-> None, began |-> clock]
  <2>1. rows[a] \in Row
    BY <1>7 DEF CancelLoad, LInv, IInv, TypeOK
  <2>2. x.copy.updated = clock
    BY <2>1 DEF Cancelled, Row
  <2>3. x.phase = "mutated" /\ x.appt = a /\ x.op = "CANCEL" /\ ~Books(x)
    BY DEF Books
  <2>4. /\ txns[t].phase = "idle" /\ txns' = [txns EXCEPT ![t] = x]
        /\ UNCHANGED <<rows, outbox>> /\ clock' = clock + 1 /\ rows[a] # None
    BY <1>7 DEF CancelLoad, Begin
  <2> HIDE DEF x
  <2> QED BY <1>0, <2>2, <2>3, <2>4, LocalLogStep
<1>8. ASSUME NEW t \in Txns, NEW a \in Appts, NEW text \in Texts, AddDetailsLoad(t, a, text)
      PROVE  LInv'
  <2> DEFINE x == [phase |-> "mutated", op |-> "ADD_DETAILS", appt |-> a, want |-> None,
                   copy |-> Detailed(rows[a], text, clock), basis |-> None, began |-> clock]
  <2>1. rows[a] \in Row /\ Active(rows[a])
    BY <1>8 DEF AddDetailsLoad, LInv, IInv, TypeOK
  <2>2. x.copy.updated = clock /\ Active(x.copy)
    BY <2>1 DEF Detailed, Row, Active
  <2>3. x.phase = "mutated" /\ x.appt = a /\ ~Books(x)
    BY DEF Books
  <2>4. /\ txns[t].phase = "idle" /\ txns' = [txns EXCEPT ![t] = x]
        /\ UNCHANGED <<rows, outbox>> /\ clock' = clock + 1 /\ rows[a] # None
    BY <1>8 DEF AddDetailsLoad, Begin
  <2> HIDE DEF x
  <2> QED BY <1>0, <2>2, <2>3, <2>4, LocalLogStep
<1>9. ASSUME NEW t \in Txns, SaveReread(t) PROVE LInv'
  <2> DEFINE x == [txns[t] EXCEPT !.phase = "reread", !.basis = rows[txns[t].appt]]
  <2>1. txns[t] \in Txn /\ txns[t].phase = "mutated" /\ Mutated(txns[t]) /\ txns[t].op # "BOOK"
    BY <1>0, <1>9 DEF SaveReread, Mutated
  <2>2. /\ x.phase = "reread" /\ x.appt = txns[t].appt /\ x.op = txns[t].op
        /\ x.copy = txns[t].copy /\ x.basis = rows[txns[t].appt]
    BY <2>1 DEF Txn
  <2>3. x.basis.updated # x.copy.updated
    BY <2>1, <2>2, CommitFacts, NoneAssumption DEF LInv, Stamped
  <2>4. /\ txns' = [txns EXCEPT ![t] = x] /\ UNCHANGED <<rows, outbox, clock>>
    BY <1>9 DEF SaveReread
  <2>5. ~Books(x) /\ (Active(x.copy) \/ x.op = "CANCEL")
    BY <2>1, <2>2 DEF Books, LInv, OnlyCancelCancels, Writes
  <2> HIDE DEF x
  <2> QED BY <1>0, <2>1, <2>2, <2>3, <2>4, <2>5, LocalLogStep
<1>10. ASSUME NEW t \in Txns, SaveCommit(t) PROVE LInv'
  <2>1. Mutated(txns[t])
    BY <1>10 DEF SaveCommit, Mutated
  <2> QED BY <1>0, <1>10, <2>1, CommitFacts, CommitLogStep DEF SaveCommit
<1>11. ASSUME NEW t \in Txns, Rollback(t) PROVE LInv'
  <2>1. /\ ~Books(Unbound("done")) /\ ~Mutated(Unbound("done")) /\ ~Writes(Unbound("done"))
        /\ Unbound("done").phase = "done" /\ Unbound("done").appt = None
    BY DEF Unbound, Books, Mutated, Writes
  <2> QED BY <1>0, <1>11, <2>1, LocalLogStep DEF Rollback
<1>12. CASE UNCHANGED coreVars
  BY <1>0, <1>12 DEF coreVars, LInv, Fresh, NotYetEnqueued, OnlyCancelCancels, Stamped
<1> QED BY <1>1, <1>2, <1>3, <1>4, <1>5, <1>6, <1>7, <1>8, <1>9, <1>10, <1>11, <1>12
        DEF CoreNext, Request

(* The invariant holds of the empty tables.                                *)
LEMMA LogInitially == CoreInit => LInv
<1> SUFFICES ASSUME CoreInit PROVE LInv
  OBVIOUS
<1>1. /\ ~Books(Unbound("idle")) /\ ~Mutated(Unbound("idle")) /\ ~Writes(Unbound("idle"))
      /\ Unbound("idle").phase = "idle"
  BY DEF Unbound, Books, Mutated, Writes
<1>2. IInv
  BY Initially
<1>3. Fresh /\ NotYetEnqueued /\ OnlyCancelCancels /\ Stamped
  BY <1>1 DEF CoreInit, Fresh, NotYetEnqueued, OnlyCancelCancels, Stamped
<1> QED BY <1>2, <1>3 DEF LInv

(* In every behaviour ids of bookings in progress are fresh, a request     *)
(* enqueues once and updated_at tells the copies apart.                    *)
THEOREM LogInvariance == CoreSpec => []LInv
BY LogInitially, LogInductive, PTL DEF CoreSpec

----------------------------------------------------------------------------
(* What a step writes.                                                     *)

(* The step writes no table but, perhaps, opens a service call.            *)
Inert == UNCHANGED <<rows, audits, outbox>>

(* The step is the commit of request t, which writes row.                  *)
Commits(t, row) ==
  /\ rows'   = [rows EXCEPT ![txns[t].appt] = row]
  /\ audits' = [audits EXCEPT ![txns[t].appt] = Append(@, AuditAction(txns[t].op))]
  /\ outbox' = [outbox EXCEPT ![t] = Enqueued(t)]

(* The row a commit writes, against the row it finds.                      *)
Written(t, row) ==
  /\ Mutated(txns[t])
  /\ row \in Row
  /\ row # rows[txns[t].appt]
  /\ ConstraintAllows(txns[t].appt, row)
  /\ IF txns[t].op = "BOOK"
     THEN rows[txns[t].appt] = None /\ Active(row)
     ELSE /\ rows[txns[t].appt] # None
          /\ row.call = rows[txns[t].appt].call
          /\ row.tech = rows[txns[t].appt].tech
          /\ ~Active(row) => ~Active(rows[txns[t].appt]) \/ txns[t].op = "CANCEL"

(* Every step is inert or the commit of one request, which books a call or *)
(* leaves the calls alone.                                                 *)
LEMMA StepWrites ==
  ASSUME LInv, [CoreNext]_coreVars
  PROVE  \/ Inert /\ \/ UNCHANGED calls
                     \/ \E c \in Calls : calls[c] = None /\ calls' = [calls EXCEPT ![c] = "OPEN"]
         \/ \E t \in Txns, row \in Row :
              /\ Commits(t, row)
              /\ Written(t, row)
              /\ calls' = IF txns[t].op = "BOOK"
                          THEN [calls EXCEPT ![row.call] = "SCHEDULED"] ELSE calls
<1>1. ASSUME NEW c \in Calls, OpenServiceCall(c)
      PROVE  Inert /\ calls[c] = None /\ calls' = [calls EXCEPT ![c] = "OPEN"]
  BY <1>1 DEF OpenServiceCall, Inert
<1>2. ASSUME NEW t \in Txns, BookCommit(t)
      PROVE  \E row \in Row :
               /\ Commits(t, row) /\ Written(t, row) /\ txns[t].op = "BOOK"
               /\ calls' = [calls EXCEPT ![row.call] = "SCHEDULED"]
  <2>1. Mutated(txns[t]) /\ Books(txns[t]) /\ txns[t].op = "BOOK"
    BY <1>2 DEF BookCommit, Mutated, Books
  <2>2. rows[txns[t].appt] = None /\ txns[t].copy \in Row /\ Active(txns[t].copy)
    BY <2>1, CommitFacts DEF LInv, Fresh, OnlyCancelCancels, Writes
  <2>3. txns[t].copy # None
    BY <2>2, NoneAssumption
  <2>4. Commits(t, txns[t].copy) /\ ConstraintAllows(txns[t].appt, txns[t].copy)
    BY <1>2, <2>1 DEF BookCommit, Commits
  <2>5. Written(t, txns[t].copy)
    BY <2>1, <2>2, <2>3, <2>4 DEF Written
  <2> QED BY <1>2, <2>1, <2>2, <2>4, <2>5 DEF BookCommit
<1>3. ASSUME NEW t \in Txns, SaveCommit(t)
      PROVE  \E row \in Row :
               /\ Commits(t, row) /\ Written(t, row) /\ txns[t].op # "BOOK" /\ UNCHANGED calls
  <2> DEFINE new == Merged(txns[t].copy, txns[t].basis, rows[txns[t].appt])
  <2>1. Mutated(txns[t]) /\ txns[t].phase = "reread"
    BY <1>3 DEF SaveCommit, Mutated
  <2>2. /\ txns[t].op # "BOOK" /\ new \in Row /\ rows[txns[t].appt] \in Row
        /\ new.updated = txns[t].copy.updated
        /\ new.call = rows[txns[t].appt].call
        /\ new.tech = rows[txns[t].appt].tech
        /\ new.status \in {txns[t].copy.status, rows[txns[t].appt].status}
        /\ txns[t].appt \in Appts
    BY <2>1, CommitFacts
  <2>3. Commits(t, new) /\ ConstraintAllows(txns[t].appt, new) /\ UNCHANGED calls
    BY <1>3 DEF SaveCommit, Commits
  <2>4. rows[txns[t].appt] # None /\ new # rows[txns[t].appt]
    BY <2>1, <2>2, NoneAssumption DEF LInv, Stamped
  <2>5. ~Active(new) => ~Active(rows[txns[t].appt]) \/ txns[t].op = "CANCEL"
    BY <2>1, <2>2 DEF LInv, OnlyCancelCancels, Writes, Active
  <2> HIDE DEF new
  <2>6. Written(t, new)
    BY <2>1, <2>2, <2>3, <2>4, <2>5 DEF Written
  <2> QED BY <2>2, <2>3, <2>6
<1>4. ASSUME NEW t \in Txns, Request(t), ~BookCommit(t), ~SaveCommit(t)
      PROVE  Inert /\ UNCHANGED calls
  BY <1>4 DEF Request, BookLoad, BookCheck, RescheduleLoad, RescheduleCheck, CancelLoad,
              AddDetailsLoad, SaveReread, Rollback, Begin, Inert
<1>5. CASE UNCHANGED coreVars
  BY <1>5 DEF coreVars, Inert
<1> QED BY <1>1, <1>2, <1>3, <1>4, <1>5 DEF CoreNext

(* What the commit of request t makes of the tables.                       *)
LEMMA CommitTables ==
  ASSUME LInv, NEW t \in Txns, NEW row \in Row, Commits(t, row), Written(t, row)
  PROVE  LET a == txns[t].appt
         IN  /\ a \in Appts
             /\ rows'[a] = row /\ rows'[a] # rows[a] /\ row # None
             /\ audits'[a] = Append(audits[a], AuditAction(txns[t].op))
             /\ outbox[t] = None /\ outbox'[t] = Enqueued(t) /\ outbox'[t] # None
             /\ \A b \in Appts \ {a} : rows'[b] = rows[b] /\ audits'[b] = audits[b]
             /\ \A u \in Txns \ {t} : outbox'[u] = outbox[u]
<1>1. txns[t].appt \in Appts /\ outbox[t] = None
  BY CommitFacts DEF Written
<1>2. outbox'[t] # None
  <2>1. Enqueued(t) # None
    <3>1. /\ txns[t] \in Txn /\ txns[t].copy \in Row /\ txns[t].appt \in Appts
      BY CommitFacts DEF Written
    <3>2. Enqueued(t) \in Entry
      BY <3>1, EnqueuedIsEntry
    <3> QED BY <3>2, NoneAssumption
  <2> QED BY <2>1 DEF Commits, LInv, IInv, TypeOK
<1> QED BY <1>1, <1>2, NoneAssumption DEF Commits, Written, LInv, IInv, TypeOK

LEMMA AuditStep == LInv /\ [CoreNext]_coreVars => [AuditedWithChange]_coreVars
<1> SUFFICES ASSUME LInv, [CoreNext]_coreVars PROVE AuditedWithChange
  OBVIOUS
<1>1. ASSUME Inert PROVE AuditedWithChange
  BY <1>1 DEF Inert, AuditedWithChange
<1>2. ASSUME NEW t \in Txns, NEW row \in Row, Commits(t, row), Written(t, row)
      PROVE  AuditedWithChange
  <2>1. AuditAction(txns[t].op) \in AuditActions
    BY <1>2, CommitFacts DEF Written, AuditAction, AuditActions, Ops
  <2> QED BY <1>2, <2>1, CommitTables DEF AuditedWithChange
<1> QED BY <1>1, <1>2, StepWrites

(* The log of every appointment is append-only and grows by exactly one    *)
(* audit row with each change of its row, in the same transaction.         *)
THEOREM ChangesAreAudited == CoreSpec => EveryChangeIsAudited
BY LogInvariance, AuditStep, PTL DEF CoreSpec, EveryChangeIsAudited

LEMMA EnqueueStep == LInv /\ [CoreNext]_coreVars => [EnqueuedWithChange]_coreVars
<1> SUFFICES ASSUME LInv, [CoreNext]_coreVars PROVE EnqueuedWithChange
  OBVIOUS
<1>1. ASSUME Inert PROVE EnqueuedWithChange
  BY <1>1 DEF Inert, EnqueuedWithChange, Appears
<1>2. ASSUME NEW t \in Txns, NEW row \in Row, Commits(t, row), Written(t, row)
      PROVE  EnqueuedWithChange
  <2> DEFINE a == txns[t].appt
  <2>0. outbox[t] = None /\ outbox'[t] = Enqueued(t) /\ outbox'[t] # None
    BY <1>2, CommitTables
  <2>1. outbox'[t].appt = a /\ Appears(t)
    BY <2>0 DEF Enqueued, Appears
  <2>2. Projects(outbox'[t].op, a)
    <3>1. outbox'[t].op = OutboxOp(txns[t].op)
      BY <2>0 DEF Enqueued
    <3>2. rows'[a] = row
      BY <1>2, CommitTables
    <3> QED BY <1>2, <3>1, <3>2 DEF Projects, Written, OutboxOp
  <2>3. \A u \in Txns : Appears(u) => u = t
    BY <1>2, CommitTables DEF Appears
  <2> QED BY <1>2, <2>1, <2>2, <2>3, CommitTables DEF EnqueuedWithChange
<1> QED BY <1>1, <1>2, StepWrites

(* The outbox is transactional: no change of a row without its entry, no   *)
(* entry without a change, and the entry has the operation the change      *)
(* calls for.                                                              *)
THEOREM ChangesAreEnqueued == CoreSpec => EveryChangeIsEnqueued
BY LogInvariance, EnqueueStep, PTL DEF CoreSpec, EveryChangeIsEnqueued

----------------------------------------------------------------------------
(* Two facts about committed state.                                        *)

LEMMA BookedStep ==
  LInv /\ ScheduledIffBooked /\ [CoreNext]_coreVars => ScheduledIffBooked'
<1> SUFFICES ASSUME LInv, ScheduledIffBooked, [CoreNext]_coreVars PROVE ScheduledIffBooked'
  OBVIOUS
<1>0. calls \in [Calls -> {None, "OPEN", "SCHEDULED"}]
  BY DEF LInv, IInv, TypeOK
<1>1. ASSUME Inert, UNCHANGED calls PROVE ScheduledIffBooked'
  BY <1>1 DEF Inert, ScheduledIffBooked
<1>2. ASSUME Inert, NEW c \in Calls, calls[c] = None, calls' = [calls EXCEPT ![c] = "OPEN"]
      PROVE  ScheduledIffBooked'
  BY <1>0, <1>2, NoneAssumption DEF Inert, ScheduledIffBooked
<1>3. ASSUME NEW t \in Txns, NEW row \in Row, Commits(t, row), Written(t, row),
             calls' = IF txns[t].op = "BOOK"
                      THEN [calls EXCEPT ![row.call] = "SCHEDULED"] ELSE calls
      PROVE  ScheduledIffBooked'
  <2> DEFINE a == txns[t].appt
  <2>1. /\ a \in Appts /\ rows'[a] = row /\ row # None /\ row.call \in Calls
        /\ \A b \in Appts \ {a} : rows'[b] = rows[b]
    BY <1>3, CommitTables DEF Row
  <2>2. CASE txns[t].op = "BOOK"
    <3>1. rows[a] = None /\ calls' = [calls EXCEPT ![row.call] = "SCHEDULED"]
      BY <1>3, <2>2 DEF Written
    <3> HIDE DEF a
    <3> QED BY <1>0, <2>1, <3>1 DEF ScheduledIffBooked
  <2>3. CASE txns[t].op # "BOOK"
    <3>1. rows[a] # None /\ row.call = rows[a].call /\ calls' = calls
      BY <1>3, <2>3 DEF Written
    <3> HIDE DEF a
    <3> QED BY <2>1, <3>1 DEF ScheduledIffBooked
  <2> QED BY <2>2, <2>3
<1> QED BY <1>1, <1>2, <1>3, StepWrites

(* A service call is SCHEDULED exactly when an appointment was booked for  *)
(* it, whatever bookings race for it.                                      *)
THEOREM CallsFollowBookings == CoreSpec => []ScheduledIffBooked
<1>1. CoreInit => ScheduledIffBooked
  BY NoneAssumption DEF CoreInit, ScheduledIffBooked
<1> QED BY <1>1, LogInvariance, BookedStep, PTL DEF CoreSpec

LEMMA CancelledStep ==
  LInv /\ CancelledIsProjected /\ [CoreNext]_coreVars => CancelledIsProjected'
<1> SUFFICES ASSUME LInv, CancelledIsProjected, [CoreNext]_coreVars PROVE CancelledIsProjected'
  OBVIOUS
<1>1. ASSUME Inert PROVE CancelledIsProjected'
  BY <1>1 DEF Inert, CancelledIsProjected
<1>2. ASSUME NEW t \in Txns, NEW row \in Row, Commits(t, row), Written(t, row)
      PROVE  CancelledIsProjected'
  <2> DEFINE a == txns[t].appt
  <2> SUFFICES ASSUME NEW b \in Appts, rows'[b] # None, ~Active(rows'[b])
               PROVE  /\ \E i \in DOMAIN audits'[b] : audits'[b][i] = "CANCELLED"
                      /\ \E u \in Txns : /\ outbox'[u] # None
                                         /\ outbox'[u].op = "DELETE" /\ outbox'[u].appt = b
    BY DEF CancelledIsProjected
  <2>0. audits[b] \in Seq(AuditActions)
    BY DEF LInv, IInv, TypeOK
  <2>1. CASE b = a /\ ~Active(row) /\ txns[t].op = "CANCEL"
    <3>1. audits'[b] = Append(audits[b], "CANCELLED")
      BY <1>2, <2>1, CommitTables DEF AuditAction
    <3>2. Len(audits[b]) + 1 \in DOMAIN audits'[b] /\ audits'[b][Len(audits[b]) + 1] = "CANCELLED"
      BY <2>0, <3>1
    <3>3. outbox'[t] = Enqueued(t) /\ outbox'[t] # None
      BY <1>2, CommitTables
    <3>4. outbox'[t].op = "DELETE" /\ outbox'[t].appt = b
      BY <2>1, <3>3 DEF Enqueued, OutboxOp
    <3> QED BY <3>2, <3>3, <3>4
  <2>2. CASE rows[b] # None /\ ~Active(rows[b])
    <3>1. PICK i \in DOMAIN audits[b] : audits[b][i] = "CANCELLED"
      BY <2>2 DEF CancelledIsProjected
    <3>2. PICK u \in Txns : outbox[u] # None /\ outbox[u].op = "DELETE" /\ outbox[u].appt = b
      BY <2>2 DEF CancelledIsProjected
    <3>3. u # t /\ outbox'[u] = outbox[u]
      BY <1>2, <3>2, CommitTables
    <3>4. audits'[b] = audits[b] \/ audits'[b] = Append(audits[b], AuditAction(txns[t].op))
      BY <1>2, CommitTables
    <3>5. i \in DOMAIN audits'[b] /\ audits'[b][i] = audits[b][i]
      BY <2>0, <3>1, <3>4
    <3> QED BY <3>1, <3>2, <3>3, <3>5
  <2>3. \/ rows[b] # None /\ ~Active(rows[b])
        \/ b = a /\ ~Active(row) /\ txns[t].op = "CANCEL"
    <3>1. rows'[a] = row /\ \A c \in Appts \ {a} : rows'[c] = rows[c]
      BY <1>2, CommitTables
    <3>2. ~Active(row) => rows[a] # None /\ (~Active(rows[a]) \/ txns[t].op = "CANCEL")
      BY <1>2 DEF Written
    <3> HIDE DEF a
    <3> QED BY <3>1, <3>2
  <2> QED BY <2>1, <2>2, <2>3
<1> QED BY <1>1, <1>2, StepWrites

(* An appointment that is not active was cancelled by a request, which     *)
(* left CANCELLED in the log and a DELETE in the outbox.                   *)
THEOREM CancellationsAreProjected == CoreSpec => []CancelledIsProjected
<1>1. CoreInit => CancelledIsProjected
  BY DEF CoreInit, CancelledIsProjected
<1> QED BY <1>1, LogInvariance, CancelledStep, PTL DEF CoreSpec

----------------------------------------------------------------------------
(* Appointments implements BookingBoard: the claims are the stretches the  *)
(* active rows hold, a commit takes, moves or releases one claim, and      *)
(* every other step leaves the board alone.                                *)

(* The empty board of the abstract specification.                          *)
LEMMA BoardInitially == CoreInit => Board!Init
<1> SUFFICES ASSUME CoreInit PROVE Board!Init
  OBVIOUS
<1>1. \A a \in Appts : ClaimOf(rows[a]) = None
  BY DEF CoreInit, ClaimOf
<1>2. Claims = [a \in Appts |-> None]
  BY <1>1 DEF Claims
<1> QED BY <1>2 DEF Board!Init

(* What the claim of a written row amounts to.                             *)
LEMMA ClaimIsTyped ==
  ASSUME NEW row \in Row, Active(row)
  PROVE  /\ ClaimOf(row) \in Board!Claim
         /\ ClaimOf(row) # None
         /\ ClaimOf(row) = [tech |-> row.tech, start |-> row.start, end |-> row.end]
<1>1. row # None
  BY NoneAssumption
<1>2. ClaimOf(row) = [tech |-> row.tech, start |-> row.start, end |-> row.end]
  BY <1>1 DEF ClaimOf
<1>3. row.tech \in Techs /\ row.start \in Int /\ row.end \in Int
  BY DEF Row
<1>4. ClaimOf(row) \in [tech : Techs, start : Int, end : Int]
  BY <1>2, <1>3
<1> QED BY <1>2, <1>4, NoneAssumption DEF Board!Claim

(* The constraint lets a row take only time that is free on the board.     *)
LEMMA AllowedIsFree ==
  ASSUME rows \in [Appts -> Row \cup {None}],
         NEW a \in Appts, NEW row \in Row, Active(row), ConstraintAllows(a, row),
         NEW b \in Appts \ {a}, ClaimOf(rows[b]) # None
  PROVE  ~Board!Clash(ClaimOf(rows[b]), ClaimOf(row))
<1>1. rows[b] # None /\ Active(rows[b])
  BY DEF ClaimOf
<1>2. rows[b] \in Row
  BY <1>1
<1>3. rows[b].tech = row.tech => ~Meets(rows[b], row)
  BY <1>1 DEF ConstraintAllows, Conflicting
<1>4. /\ ClaimOf(rows[b]) = [tech |-> rows[b].tech, start |-> rows[b].start, end |-> rows[b].end]
      /\ ClaimOf(row) = [tech |-> row.tech, start |-> row.start, end |-> row.end]
  BY <1>1, <1>2, ClaimIsTyped
<1> QED BY <1>3, <1>4 DEF Board!Clash, Meets

(* A write of one row that the constraint allows takes, moves or releases  *)
(* a claim, or leaves the board.                                           *)
LEMMA WriteIsBoardStep ==
  ASSUME rows \in [Appts -> Row \cup {None}],
         NEW a \in Appts, NEW row \in Row, ConstraintAllows(a, row),
         rows[a] # None => row.tech = rows[a].tech,
         rows' = [rows EXCEPT ![a] = row]
  PROVE  [Board!Next]_Claims
<1>1. row # None
  BY NoneAssumption
<1>2. /\ Claims[a] = ClaimOf(rows[a]) /\ Claims'[a] = ClaimOf(row)
      /\ \A b \in Appts : Claims[b] = ClaimOf(rows[b])
      /\ \A b \in Appts \ {a} : Claims'[b] = Claims[b]
      /\ Claims = [b \in Appts |-> Claims[b]] /\ Claims' = [b \in Appts |-> Claims'[b]]
  BY DEF Claims, ClaimOf
<1>3. Claims' = [b \in Appts |-> IF b \in {a} THEN Claims'[b] ELSE Claims[b]]
  BY <1>2
<1>4. ASSUME Board!Take(a) \/ Board!Move(a) \/ Board!Release(a) PROVE [Board!Next]_Claims
  BY <1>3, <1>4 DEF Board!Next, Board!Exchange
<1>5. ASSUME ~Active(row) PROVE [Board!Next]_Claims
  <2>1. Claims'[a] = None
    BY <1>2, <1>5 DEF ClaimOf
  <2>2. CASE Claims[a] = None
    BY <1>2, <2>1, <2>2
  <2>3. CASE Claims[a] # None
    BY <1>4, <2>1, <2>3 DEF Board!Release
  <2> QED BY <2>2, <2>3
<1>6. ASSUME Active(row) PROVE [Board!Next]_Claims
  <2>1. Claims'[a] \in Board!Claim /\ Claims'[a].tech = row.tech
    BY <1>2, <1>6, ClaimIsTyped
  <2>2. \A b \in Appts \ {a} : Claims'[b] # None => ~Board!Clash(Claims'[b], Claims'[a])
    BY <1>2, <1>6, AllowedIsFree
  <2>3. Board!Free(a)
    BY <2>2 DEF Board!Free
  <2>4. CASE Claims[a] = None
    BY <1>4, <2>1, <2>3, <2>4 DEF Board!Take
  <2>5. CASE Claims[a] # None
    <3>1. Claims[a].tech = Claims'[a].tech
      BY <1>2, <2>1, <2>5, ClaimIsTyped DEF ClaimOf
    <3> QED BY <1>4, <2>1, <2>3, <2>5, <3>1 DEF Board!Move
  <2> QED BY <2>4, <2>5
<1> QED BY <1>5, <1>6

(* Every step takes, moves or releases one claim, or leaves the board.     *)
LEMMA BoardStep == LInv /\ [CoreNext]_coreVars => [Board!Next]_Claims
<1> SUFFICES ASSUME LInv, [CoreNext]_coreVars PROVE [Board!Next]_Claims
  OBVIOUS
<1>1. ASSUME Inert PROVE Claims' = Claims
  BY <1>1 DEF Inert, Claims, ClaimOf
<1>2. ASSUME NEW t \in Txns, NEW row \in Row, Commits(t, row), Written(t, row)
      PROVE  [Board!Next]_Claims
  <2>1. rows \in [Appts -> Row \cup {None}] /\ txns[t].appt \in Appts
    BY <1>2, CommitTables DEF LInv, IInv, TypeOK
  <2>2. /\ ConstraintAllows(txns[t].appt, row)
        /\ rows[txns[t].appt] # None => row.tech = rows[txns[t].appt].tech
        /\ rows' = [rows EXCEPT ![txns[t].appt] = row]
    BY <1>2 DEF Written, Commits
  <2> QED BY <2>1, <2>2, WriteIsBoardStep
<1> QED BY <1>1, <1>2, StepWrites

(* The appointment table implements the booking board, whatever requests   *)
(* race and whatever columns their saves merge.                            *)
THEOREM AppointmentsImplementBoard == CoreSpec => ImplementsBoard
BY LogInvariance, BoardInitially, BoardStep, PTL DEF CoreSpec, ImplementsBoard, Board!Spec

=============================================================================
