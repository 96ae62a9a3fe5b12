------------------------------ MODULE Inbound ------------------------------
(***************************************************************************)
(* The inbound sync poller: people edit the projected events on Google     *)
(* Calendar, and the worker that holds the sync lease fetches what changed *)
(* since the stored sync token, reconciles the batch into the appointment  *)
(* table in one unit of work and stores the next token in another.         *)
(* Requests and dispatchers run meanwhile.                                 *)
(***************************************************************************)
EXTENDS Projection

CONSTANTS
  Pollers,       (* worker processes that compete for the sync lease       *)
  OpenRanges,    (* ranges is_available accepts                            *)
  EditRanges,    (* times people give events                               *)
  MaxEdits,      (* bound: edits by people in a behaviour                  *)
  MaxClock       (* bound: the poller mutates nothing after this time      *)

(* InboundEventChange.                                                     *)
Change == [cancelled : BOOLEAN, declined : BOOLEAN, start : Int, end : Int,
           updated : Nat]

ASSUME InboundAssumption ==
  /\ EditRanges \subseteq [start : Int, end : Int]
  /\ MaxEdits \in Nat
  /\ MaxClock \in Nat
  /\ None \notin Change \cup Pollers

VARIABLES
  stamps,    (* appointment -> "updated" of its Google event               *)
  unread,    (* appointments whose event changed since the stored token    *)
  lease,     (* the poller whose session holds the advisory lock           *)
  poll,      (* poller -> its phase, its batch and its unit of work        *)
  edits,     (* edits by people so far                                     *)
  seen,      (* appointment -> stamp of the newest version reconciled      *)
             (* (history)                                                  *)
  raced,     (* appointments whose event changed between the fetch and the *)
             (* reconciliation of an older version (history)               *)
  rewritten  (* appointments whose row was changed by more than its event  *)
             (* id in a CREATE's write-back (history)                      *)

syncVars == <<stamps, unread, lease, poll, edits, seen, raced, rewritten>>
allVars == <<vars, syncVars>>

Poll == [phase : {"standby", "idle", "fetched", "committed"},
         tech : Techs \cup {None},
         batch : [Appts -> Change \cup {None}],
         left : SUBSET Appts, since : SUBSET Appts, began : Nat,
         copies : [Appts -> Row \cup {None}],
         bases : [Appts -> Row \cup {None}],
         entries : [Appts -> Entry \cup {None}]]

Nothing == [a \in Appts |-> None]

Resting(phase) ==
  [phase |-> phase, tech |-> None, batch |-> Nothing, left |-> {}, since |-> {},
   began |-> 0, copies |-> Nothing, bases |-> Nothing, entries |-> Nothing]

SyncInit ==
  /\ stamps = [a \in Appts |-> 0]
  /\ unread = {}
  /\ lease = None
  /\ poll = [p \in Pollers |-> Resting("standby")]
  /\ edits = 0
  /\ seen = [a \in Appts |-> 0]
  /\ raced = {}
  /\ rewritten = {}

----------------------------------------------------------------------------
(* Changes of the calendar.                                                *)

Touched == {a \in Appts : events'[a] # events[a]}

(* Rows a step without a request changes beyond their event id.            *)
Rewrites ==
  {a \in Appts : /\ rows[a] # None
                 /\ txns' = txns
                 /\ rows'[a] # [rows[a] EXCEPT !.event = rows'[a].event]}

(* Google stamps a changed event and lists it after every older token.     *)
Noticed ==
  /\ stamps' = [a \in Appts |-> IF a \in Touched THEN clock ELSE stamps[a]]
  /\ unread' = unread \cup Touched
  /\ poll' = [p \in Pollers |->
                IF poll[p].phase \in {"fetched", "committed"}
                THEN [poll[p] EXCEPT !.since = @ \cup Touched]
                ELSE poll[p]]
  /\ raced' = raced \cup {a \in Touched : \E p \in Pollers : a \in poll[p].left}
  /\ rewritten' = rewritten \cup Rewrites
  /\ UNCHANGED <<lease, seen>>

Edit(a, event) ==
  /\ edits < MaxEdits
  /\ IsLive(a)
  /\ event # events[a]
  /\ edits' = edits + 1
  /\ events' = [events EXCEPT ![a] = event]
  /\ UNCHANGED <<coreVars, disp, crashes>>
  /\ Noticed

(* The technician, or the guest, who may modify the event, moves it.       *)
MoveEvent(a, r) == Edit(a, [events[a] EXCEPT !.start = r.start, !.end = r.end])

RemoveEvent(a) == Edit(a, [events[a] EXCEPT !.live = FALSE])

DeclineEvent(a) == Edit(a, [events[a] EXCEPT !.declined = TRUE])

----------------------------------------------------------------------------
(* The lease.                                                              *)

AcquireLease(p) ==
  /\ poll[p].phase = "standby"
  /\ lease = None
  /\ lease' = p
  /\ poll' = [poll EXCEPT ![p] = Resting("idle")]
  /\ UNCHANGED <<vars, stamps, unread, edits, seen, raced, rewritten>>

(* The lease's session loses its connection.  The loop polls on other      *)
(* sessions and does not notice.                                           *)
LoseLease(p) ==
  /\ lease = p
  /\ crashes < MaxCrashes
  /\ crashes' = crashes + 1
  /\ lease' = None
  /\ UNCHANGED <<coreVars, events, disp, stamps, unread, poll, edits, seen, raced, rewritten>>

(* The worker dies, with its lease and its open unit of work.              *)
Die(p) ==
  /\ poll[p].phase # "standby"
  /\ crashes < MaxCrashes
  /\ crashes' = crashes + 1
  /\ lease' = IF lease = p THEN None ELSE lease
  /\ poll' = [poll EXCEPT ![p] = Resting("standby")]
  /\ UNCHANGED <<coreVars, events, disp, stamps, unread, edits, seen, raced, rewritten>>

----------------------------------------------------------------------------
(* One sweep of a connection.                                              *)

OnCalendar(k, S) == {a \in S : events[a] # None /\ rows[a].tech = k}

MapEvent(a) ==
  [cancelled |-> ~events[a].live, declined |-> events[a].declined,
   start |-> events[a].start, end |-> events[a].end, updated |-> stamps[a]]

(* list_changes since the stored token, or of the whole calendar when the  *)
(* token has expired.  Mapping an event builds its TimeRange, so one empty *)
(* event fails the whole fetch.  An empty batch changes nothing.           *)
Fetch(p, k, expired) ==
  LET found == OnCalendar(k, IF expired THEN Appts ELSE unread) IN
  /\ poll[p].phase = "idle"
  /\ found # {}
  /\ \A a \in found : Readable(events[a])
  /\ poll' = [poll EXCEPT ![p] =
       [Resting("fetched") EXCEPT
          !.tech = k,
          !.left = found,
          !.batch = [a \in Appts |-> IF a \in found THEN MapEvent(a) ELSE None]]]
  /\ UNCHANGED <<vars, stamps, unread, lease, edits, seen, raced, rewritten>>

(* The table as the unit of work sees it: its own flushed saves included.  *)
View(p) ==
  [a \in Appts |-> IF poll[p].bases[a] = None THEN rows[a]
                   ELSE Merged(poll[p].copies[a], poll[p].bases[a], rows[a])]

Clashing(p, a, range) ==
  LET view == View(p) IN
  {b \in Appts \ {a} : /\ view[b] # None
                       /\ Active(view[b])
                       /\ view[b].tech = rows[a].tech
                       /\ Meets(view[b], range)}

Flushed(p) == \A a \in Appts : poll[p].copies[a] # None => poll[p].bases[a] # None

(* reconcile is called for the change of a.                                *)
Reconciling(p, a) ==
  /\ poll[p].phase = "fetched"
  /\ a \in poll[p].left
  /\ Flushed(p)
  /\ Readable(rows[a])

(* The transaction starts with the first statement.                        *)
Began(p) == IF poll[p].began = 0 THEN clock ELSE poll[p].began

Decided(p, a, copy, entry) ==
  poll' = [poll EXCEPT ![p] =
    [poll[p] EXCEPT !.left = poll[p].left \ {a},
                    !.began = Began(p),
                    !.copies = [poll[p].copies EXCEPT ![a] = copy],
                    !.entries = [poll[p].entries EXCEPT ![a] = entry]]]

(* Mutant: the entry is stored under a status the dispatcher never claims. *)
OwedUnclaimed(p, a, op, event) ==
  [op |-> op, appt |-> a, event |-> event, status |-> "NEW", attempts |-> 0,
   created |-> Began(p)]

Owed(p, a, op, event) ==
  [op |-> op, appt |-> a, event |-> event, status |-> "PENDING", attempts |-> 0,
   created |-> Began(p)]

Moves(change, row) == <<change.start, change.end>> # <<row.start, row.end>>

(* The change is newer than the row, and the row can still change.         *)
Applies(change, row) ==
  /\ change.updated > row.updated
  /\ Active(row)
  /\ change.cancelled \/ change.declined \/ Moves(change, row)

Accepts(p, a, change) ==
  /\ [start |-> change.start, end |-> change.end] \in OpenRanges
  /\ Clashing(p, a, change) = {}

Ignore(p, a) ==
  /\ Reconciling(p, a)
  /\ ~Applies(poll[p].batch[a], rows[a])
  /\ Decided(p, a, None, None)
  /\ UNCHANGED <<vars, stamps, unread, lease, edits, seen, raced, rewritten>>

(* The event is gone, or the guest declined: Appointment.cancel.  A        *)
(* declined event is still there and is owed a DELETE.                     *)
CancelInbound(p, a) ==
  LET change == poll[p].batch[a] IN
  /\ Reconciling(p, a)
  /\ clock < MaxClock
  /\ Applies(change, rows[a])
  /\ change.cancelled \/ change.declined
  /\ Decided(p, a, Cancelled(rows[a], clock),
             IF change.cancelled THEN None ELSE Owed(p, a, "DELETE", rows[a].event))
  /\ clock' = clock + 1
  /\ UNCHANGED <<calls, rows, audits, outbox, txns, projVars,
                 stamps, unread, lease, edits, seen, raced, rewritten>>

(* reconcile() reads the row and _accepts() the overlapping ones in        *)
(* statements of their own; they are one step, as what commits in between  *)
(* meets the constraint when the batch is saved.                           *)
RescheduleInbound(p, a) ==
  LET change == poll[p].batch[a] IN
  /\ Reconciling(p, a)
  /\ clock < MaxClock
  /\ Applies(change, rows[a])
  /\ ~change.cancelled
  /\ ~change.declined
  /\ Accepts(p, a, change)
  /\ Decided(p, a, Rescheduled(rows[a], change, clock), None)
  /\ clock' = clock + 1
  /\ UNCHANGED <<calls, rows, audits, outbox, txns, projVars,
                 stamps, unread, lease, edits, seen, raced, rewritten>>

(* Mutant: a rejected move is left on the calendar.                        *)
RejectUnprojected(p, a) ==
  /\ Reconciling(p, a)
  /\ Applies(poll[p].batch[a], rows[a])
  /\ ~poll[p].batch[a].cancelled
  /\ ~poll[p].batch[a].declined
  /\ ~Accepts(p, a, poll[p].batch[a])
  /\ Decided(p, a, None, None)
  /\ UNCHANGED <<vars, stamps, unread, lease, edits, seen, raced, rewritten>>

(* The database wins: the authoritative time is owed to the event.         *)
RejectInbound(p, a) ==
  LET change == poll[p].batch[a] IN
  /\ Reconciling(p, a)
  /\ Applies(change, rows[a])
  /\ ~change.cancelled
  /\ ~change.declined
  /\ ~Accepts(p, a, change)
  /\ Decided(p, a, None, Owed(p, a, "UPDATE", None))
  /\ UNCHANGED <<vars, stamps, unread, lease, edits, seen, raced, rewritten>>

(* The re-read of save().                                                  *)
InboundReread(p, a) ==
  /\ poll[p].phase = "fetched"
  /\ poll[p].copies[a] # None
  /\ poll[p].bases[a] = None
  /\ poll' = [poll EXCEPT ![p].bases[a] = rows[a]]
  /\ UNCHANGED <<vars, stamps, unread, lease, edits, seen, raced, rewritten>>

Saved(p) == {a \in Appts : poll[p].copies[a] # None}

(* Mutant: the poller trusts the check it made when it read the rows.      *)
BatchUnchecked(p) == \A a \in Saved(p) : View(p)[a].start <= View(p)[a].end

ConstraintAllowsBatch(p) ==
  LET view == View(p) IN
  \A a \in Saved(p) : Active(view[a]) => /\ view[a].start <= view[a].end
                                         /\ Clashing(p, a, view[a]) = {}

(* The commit of the batch.  Its entries take ids that no request will use.*)
CommitBatch(p) ==
  LET owing == {a \in Appts : poll[p].entries[a] # None}
      read  == {a \in Appts : poll[p].batch[a] # None}
  IN
  /\ poll[p].phase = "fetched"
  /\ poll[p].left = {}
  /\ Flushed(p)
  /\ ConstraintAllowsBatch(p)
  /\ rows' = View(p)
  /\ audits' = [a \in Appts |->
       IF a \in Saved(p)
       THEN Append(audits[a], IF poll[p].copies[a].status = "CANCELLED"
                              THEN "CANCELLED" ELSE "RESCHEDULED")
       ELSE audits[a]]
  /\ \E id \in [owing -> {t \in Txns : txns[t].phase = "idle"}] :
       /\ \A a, b \in owing : id[a] = id[b] => a = b
       /\ outbox' = [t \in Txns |->
            IF \E a \in owing : id[a] = t
            THEN poll[p].entries[CHOOSE a \in owing : id[a] = t] ELSE outbox[t]]
       /\ txns' = [t \in Txns |->
            IF \E a \in owing : id[a] = t THEN Unbound("done") ELSE txns[t]]
  /\ seen' = [a \in Appts |-> IF a \in read /\ poll[p].batch[a].updated > seen[a]
                               THEN poll[p].batch[a].updated ELSE seen[a]]
  /\ poll' = [poll EXCEPT ![p] =
       [Resting("committed") EXCEPT !.tech = poll[p].tech, !.since = poll[p].since]]
  /\ UNCHANGED <<calls, clock, projVars, stamps, unread, lease, edits, raced, rewritten>>

(* A change raises: the row cannot be loaded, or the constraint refuses    *)
(* the save.  The batch is rolled back and fetched again later.            *)
AbortBatch(p) ==
  /\ poll[p].phase = "fetched"
  /\ \/ \E a \in poll[p].left : ~Readable(rows[a])
     \/ ~ConstraintAllowsBatch(p)
  /\ poll' = [poll EXCEPT ![p] = Resting("idle")]
  /\ UNCHANGED <<vars, stamps, unread, lease, edits, seen, raced, rewritten>>

(* Mutant: the token of the moment is stored, not the one fetched.         *)
StoreTokenOfNow(p) ==
  /\ poll[p].phase = "committed"
  /\ unread' = unread \ OnCalendar(poll[p].tech, unread)
  /\ poll' = [poll EXCEPT ![p] = Resting("idle")]
  /\ UNCHANGED <<vars, stamps, lease, edits, seen, raced, rewritten>>

(* set_sync_token, in a transaction of its own.                            *)
StoreToken(p) ==
  /\ poll[p].phase = "committed"
  /\ unread' = OnCalendar(poll[p].tech, poll[p].since)
                 \cup (unread \ OnCalendar(poll[p].tech, unread))
  /\ poll' = [poll EXCEPT ![p] = Resting("idle")]
  /\ UNCHANGED <<vars, stamps, lease, edits, seen, raced, rewritten>>

Sweep(p) ==
  \/ \E k \in Techs : Fetch(p, k, FALSE)
  \/ \E a \in Appts : \/ Ignore(p, a) \/ CancelInbound(p, a)
                      \/ RescheduleInbound(p, a) \/ RejectInbound(p, a)
                      \/ InboundReread(p, a)
  \/ CommitBatch(p) \/ AbortBatch(p) \/ StoreToken(p)

Poller(p) ==
  \/ AcquireLease(p)
  \/ Sweep(p)
  \/ \E k \in Techs : Fetch(p, k, TRUE)
  \/ LoseLease(p)
  \/ Die(p)

SyncNext ==
  \/ Next /\ Noticed /\ UNCHANGED edits
  \/ \E a \in Appts : \/ \E r \in EditRanges : MoveEvent(a, r)
                      \/ RemoveEvent(a) \/ DeclineEvent(a)
  \/ \E p \in Pollers : Poller(p)

SyncSpec == Init /\ SyncInit /\ [][SyncNext]_allVars

----------------------------------------------------------------------------
(* Properties.                                                             *)

SyncTypeOK ==
  /\ ProjectionTypeOK
  /\ stamps \in [Appts -> Nat]
  /\ unread \subseteq Appts
  /\ lease  \in Pollers \cup {None}
  /\ poll   \in [Pollers -> Poll]
  /\ seen   \in [Appts -> Nat]
  /\ raced  \subseteq Appts
  /\ rewritten \subseteq Appts

(* The token never runs ahead of the table: what it no longer lists has    *)
(* been reconciled in its latest version by a batch that committed, though *)
(* batch and token commit apart, workers die between them and a poller may *)
(* work on after its lease is gone.                                        *)
TokenNeverAhead ==
  \A a \in Appts : events[a] # None /\ a \notin unread => seen[a] = stamps[a]

(* The appointment table still implements the booking board: requests,     *)
(* write-backs and batches take, move and release claims, a batch several  *)
(* in one transaction, though it decided on each in a view of its own.     *)
ImplementsBatchBoard == Board!BatchSpec

Quiet == /\ Drained
         /\ unread = {}
         /\ \A p \in Pollers : poll[p].phase \in {"standby", "idle"}

Agrees(a) ==
  IF Active(rows[a])
  THEN IsLive(a) /\ ~Moves(events[a], rows[a])
  ELSE ~IsLive(a)

(* An active row whose cancellation is on its way to the calendar.         *)
Revived(a) == Active(rows[a]) /\ \E t \in EntriesOf(a) : outbox[t].op = "DELETE"

Settled(a) == rows[a] # None /\ Unfailed(a) /\ ~BlindDelete(a) /\ ~Revived(a)

(* Table and calendar end up agreeing on whether and when an appointment   *)
(* takes place, whatever people edit, requests save and Google replays,    *)
(* unless the event changed while an older version of it was being         *)
(* reconciled or a CREATE's write-back rewrote the row.                    *)
AgreedUnlessRaced ==
  Quiet => \A a \in Appts : Settled(a) /\ a \notin raced \cup rewritten => Agrees(a)

----------------------------------------------------------------------------
(* What the repository says and the code does not keep.                    *)

(* data.md: the workers keep Google Calendar aligned with the database.    *)
(* Rows a write-back rewrote are left out.                                 *)
StayAligned ==
  Quiet => \A a \in Appts : Settled(a) /\ a \notin rewritten => Agrees(a)

(* reconciliation_service.py: an echo of our own outbound update is left   *)
(* as a no-op.                                                             *)
EchoesAreNoOps ==
  [][edits = 0 /\ (\E p \in Pollers : poll'[p].phase = "committed" /\ poll[p].phase = "fetched")
       => rows' = rows]_allVars

=============================================================================
