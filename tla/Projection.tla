----------------------------- MODULE Projection -----------------------------
(***************************************************************************)
(* CalendarProjectionDispatcher: worker processes that drain the outbox    *)
(* onto Google Calendar, one entry per transaction, while requests keep    *)
(* committing.  A dispatcher claims the oldest PENDING entry under         *)
(* FOR UPDATE SKIP LOCKED, loads the appointment, calls Google and then    *)
(* settles the entry in the transaction it opened before the call.         *)
(***************************************************************************)
EXTENDS Appointments, FiniteSets

CONSTANTS
  Dispatchers,    (* dispatcher threads, one per worker process            *)
  MaxAttempts,    (* MAX_ATTEMPTS                                          *)
  MaxCrashes      (* bound: worker deaths in a behaviour                   *)

Event == [live : BOOLEAN, start : Int, end : Int, details : Texts \cup {None},
          declined : BOOLEAN]

ASSUME ProjectionAssumption ==
  /\ MaxAttempts \in Nat \ {0}
  /\ MaxCrashes \in Nat
  /\ None \notin Event

VARIABLES
  events,    (* appointment -> the Google event with its iCalUID           *)
  disp,      (* dispatcher -> its phase and its local state                *)
  crashes    (* worker deaths so far                                       *)

projVars == <<events, disp, crashes>>
vars == <<coreVars, projVars>>

Worker == [phase : {"asleep", "claiming", "claimed", "loaded", "returned",
                    "raised", "reread"},
           entry : Txns \cup {None}, copy : Row \cup {None},
           basis : Row \cup {None}]

----------------------------------------------------------------------------
(* Google Calendar, as the dispatcher sees it.                             *)

(* The body lists the customer as an attendee who needs to answer.         *)
Body(appt) == [live |-> TRUE, start |-> appt.start, end |-> appt.end,
               details |-> appt.details, declined |-> FALSE]

IsLive(a) == events[a] # None /\ events[a].live

(* events.insert with the appointment's iCalUID.  A live event with that   *)
(* iCalUID answers 409 and create_event recovers its id, leaving its body; *)
(* for a deleted one the lookup finds nothing and the 409 is raised.       *)
CreateEvent(a, appt) ==
  /\ events[a] = None \/ IsLive(a)
  /\ events' = IF events[a] = None THEN [events EXCEPT ![a] = Body(appt)] ELSE events

(* Mutant: the details are left out of the update body.                    *)
UpdateTimeOnly(a, appt) ==
  /\ IsLive(a)
  /\ events' = [events EXCEPT ![a].start = appt.start, ![a].end = appt.end]

(* Mutant: an update brings a deleted event back.                          *)
UpdateRevives(a, appt) ==
  /\ events[a] # None
  /\ events' = [events EXCEPT ![a] = Body(appt)]

UpdateEvent(a, appt) ==
  /\ IsLive(a)
  /\ events' = [events EXCEPT ![a] = Body(appt)]

DeleteEvent(a) ==
  /\ IsLive(a)
  /\ events' = [events EXCEPT ![a].live = FALSE]

----------------------------------------------------------------------------
(* The outbox.                                                             *)

Pending(e) == outbox[e] # None /\ outbox[e].status = "PENDING"

(* Mutant: claim_next without FOR UPDATE.                                  *)
NeverLocked(e) == FALSE

(* The entry is locked by the open transaction of a dispatcher.            *)
Locked(e) == \E d \in Dispatchers : disp[d].entry = e

Claimable == {e \in Txns : Pending(e) /\ ~Locked(e)}

Oldest(e) == /\ e \in Claimable
             /\ \A f \in Claimable : outbox[e].created <= outbox[f].created

Processed(entry) == [entry EXCEPT !.status = "PROCESSED"]

(* Mutant: the attempt is not counted, so the entry is retried forever.    *)
FailedUncounted(entry) == [entry EXCEPT !.status = "PENDING"]

(* Mutant: a status the schema does not know.                              *)
FailedAbandoned(entry) ==
  [entry EXCEPT !.attempts = @ + 1,
                !.status = IF entry.attempts + 1 >= MaxAttempts THEN "ABANDONED" ELSE @]

Failed(entry) ==
  [entry EXCEPT !.attempts = @ + 1,
                !.status = IF entry.attempts + 1 >= MaxAttempts THEN "FAILED" ELSE @]

----------------------------------------------------------------------------
(* The dispatcher.                                                         *)

Rest(phase) == [phase |-> phase, entry |-> None, copy |-> None, basis |-> None]

ProjInit ==
  /\ events = [a \in Appts |-> None]
  /\ disp = [d \in Dispatchers |-> Rest("asleep")]
  /\ crashes = 0

(* run_forever: the next run_once begins after the dispatch interval.      *)
StartRun(d) ==
  /\ disp[d].phase = "asleep"
  /\ disp' = [disp EXCEPT ![d] = Rest("claiming")]
  /\ UNCHANGED <<coreVars, events, crashes>>

Claim(d) ==
  /\ disp[d].phase = "claiming"
  /\ \E e \in Txns :
       /\ Oldest(e)
       /\ disp' = [disp EXCEPT ![d].phase = "claimed", ![d].entry = e]
  /\ UNCHANGED <<coreVars, events, crashes>>

(* claim_next found nothing it may take: the run is over.                  *)
EndRun(d) ==
  /\ disp[d].phase = "claiming"
  /\ Claimable = {}
  /\ disp' = [disp EXCEPT ![d] = Rest("asleep")]
  /\ UNCHANGED <<coreVars, events, crashes>>

(* appointments.get of the entry's appointment.                            *)
Load(d) ==
  LET row == rows[outbox[disp[d].entry].appt] IN
  /\ disp[d].phase = "claimed"
  /\ \/ /\ Readable(row)
        /\ disp' = [disp EXCEPT ![d].phase = "loaded", ![d].copy = row]
     \/ /\ ~Readable(row)
        /\ disp' = [disp EXCEPT ![d].phase = "raised"]
  /\ UNCHANGED <<coreVars, events, crashes>>

(* mark_failed and commit; run_once goes on to the next claim.             *)
MarkFailed(d) ==
  LET e == disp[d].entry IN
  /\ outbox' = [outbox EXCEPT ![e] = Failed(@)]
  /\ disp' = [disp EXCEPT ![d] = Rest("claiming")]
  /\ UNCHANGED <<calls, rows, audits, txns, clock, events, crashes>>

(* An UPDATE for an appointment that carries no event id is failed without *)
(* a call.                                                                 *)
SkipUpdate(d) ==
  /\ disp[d].phase = "loaded"
  /\ outbox[disp[d].entry].op = "UPDATE"
  /\ disp[d].copy.event = None
  /\ MarkFailed(d)

(* The CalendarPort call of the entry.  A DELETE that captured no event id *)
(* makes none.                                                             *)
Effect(d) ==
  LET entry == outbox[disp[d].entry] IN
  \/ entry.op = "CREATE" /\ CreateEvent(entry.appt, disp[d].copy)
  \/ /\ entry.op = "UPDATE"
     /\ disp[d].copy.event # None
     /\ UpdateEvent(disp[d].copy.event, disp[d].copy)
  \/ entry.op = "DELETE" /\ entry.event # None /\ DeleteEvent(entry.event)
  \/ entry.op = "DELETE" /\ entry.event = None /\ UNCHANGED events

CallReturns(d) ==
  /\ disp[d].phase = "loaded"
  /\ Effect(d)
  /\ disp' = [disp EXCEPT ![d].phase = "returned"]
  /\ UNCHANGED <<coreVars, crashes>>

(* Resolving the calendar or calling it raises: Google refused the call or *)
(* was not reached, or the call took effect and the answer was lost.       *)
CallRaises(d) ==
  /\ disp[d].phase = "loaded"
  /\ Effect(d) \/ UNCHANGED events
  /\ disp' = [disp EXCEPT ![d].phase = "raised"]
  /\ UNCHANGED <<coreVars, crashes>>

(* Mutant: the exception is logged and the entry marked processed.         *)
FailEntrySwallowed(d) ==
  LET e == disp[d].entry IN
  /\ disp[d].phase = "raised"
  /\ outbox' = [outbox EXCEPT ![e] = Processed(@)]
  /\ disp' = [disp EXCEPT ![d] = Rest("claiming")]
  /\ UNCHANGED <<calls, rows, audits, txns, clock, events, crashes>>

FailEntry(d) ==
  /\ disp[d].phase = "raised"
  /\ MarkFailed(d)

(* UPDATE and DELETE: mark_processed and commit.                           *)
SettleEntry(d) ==
  LET e == disp[d].entry IN
  /\ disp[d].phase = "returned"
  /\ outbox[e].op # "CREATE"
  /\ outbox' = [outbox EXCEPT ![e] = Processed(@)]
  /\ disp' = [disp EXCEPT ![d] = Rest("claiming")]
  /\ UNCHANGED <<calls, rows, audits, txns, clock, events, crashes>>

(* CREATE: assign_external_event on the copy, and the re-read of save().   *)
LinkReread(d) ==
  LET a == outbox[disp[d].entry].appt IN
  /\ disp[d].phase = "returned"
  /\ outbox[disp[d].entry].op = "CREATE"
  /\ disp' = [disp EXCEPT ![d].phase = "reread", ![d].copy.event = a,
                          ![d].basis = rows[a]]
  /\ UNCHANGED <<coreVars, events, crashes>>

(* The UPDATE of save(), mark_processed and commit.  When the constraint   *)
(* refuses the row, mark_failed raises on the failed session, nothing is   *)
(* committed and the run is aborted.                                       *)
LinkCommit(d) ==
  LET e   == disp[d].entry
      a   == outbox[e].appt
      new == Merged(disp[d].copy, disp[d].basis, rows[a])
  IN
  /\ disp[d].phase = "reread"
  /\ \/ /\ ConstraintAllows(a, new)
        /\ rows' = [rows EXCEPT ![a] = new]
        /\ outbox' = [outbox EXCEPT ![e] = Processed(@)]
        /\ disp' = [disp EXCEPT ![d] = Rest("claiming")]
     \/ /\ ~ConstraintAllows(a, new)
        /\ disp' = [disp EXCEPT ![d] = Rest("asleep")]
        /\ UNCHANGED <<rows, outbox>>
  /\ UNCHANGED <<calls, audits, txns, clock, events, crashes>>

(* The worker dies: its transaction is rolled back and its locks released. *)
Crash(d) ==
  /\ disp[d].phase # "asleep"
  /\ crashes < MaxCrashes
  /\ crashes' = crashes + 1
  /\ disp' = [disp EXCEPT ![d] = Rest("asleep")]
  /\ UNCHANGED <<coreVars, events>>

Dispatch(d) ==
  \/ StartRun(d) \/ Claim(d) \/ EndRun(d) \/ Load(d) \/ SkipUpdate(d)
  \/ CallReturns(d) \/ CallRaises(d) \/ FailEntry(d) \/ SettleEntry(d)
  \/ LinkReread(d) \/ LinkCommit(d)

Init == CoreInit /\ ProjInit

Next ==
  \/ CoreNext /\ UNCHANGED projVars
  \/ \E d \in Dispatchers : Dispatch(d) \/ Crash(d)

Spec == Init /\ [][Next]_vars

(* The dispatcher thread keeps running; requests owe nobody anything.      *)
FairSpec == Spec /\ \A d \in Dispatchers : WF_vars(Dispatch(d))

----------------------------------------------------------------------------
(* Properties.                                                             *)

ProjectionTypeOK ==
  /\ TypeOK
  /\ events  \in [Appts -> Event \cup {None}]
  /\ disp    \in [Dispatchers -> Worker]
  /\ crashes \in 0 .. MaxCrashes

(* Nobody is at work and nothing waits in the outbox.                      *)
Drained ==
  /\ \A t \in Txns : txns[t].phase \in {"idle", "done"}
  /\ \A t \in Txns : ~Pending(t)
  /\ \A d \in Dispatchers : disp[d].entry = None

EntriesOf(a) == {t \in Txns : outbox[t] # None /\ outbox[t].appt = a}

Unfailed(a) == \A t \in EntriesOf(a) : outbox[t].status # "FAILED"

NeverCancelled(a) ==
  /\ rows[a] # None
  /\ \A t \in EntriesOf(a) : outbox[t].op # "DELETE"

(* An appointment nobody cancelled and whose entries all went through is   *)
(* on Google with the row's time and details, and the row knows the event. *)
Mirrors(a) == /\ rows[a].event = a
              /\ events[a] = Body(rows[a])

MirroredWhenDrained ==
  Drained => \A a \in Appts : NeverCancelled(a) /\ Unfailed(a) => Mirrors(a)

(* An event survives its appointment's cancellation only when a DELETE was *)
(* enqueued blind, before the row carried the event's id.                  *)
BlindDelete(a) == \E t \in EntriesOf(a) : outbox[t].op = "DELETE" /\ outbox[t].event = None

OrphansComeFromBlindDeletes ==
  Drained => \A a \in Appts :
    /\ rows[a] # None
    /\ ~Active(rows[a])
    /\ Unfailed(a)
    /\ IsLive(a)
    => BlindDelete(a)

(* At-least-once delivery: PROCESSED is never recorded ahead of the        *)
(* effect.  A processed CREATE left an event and a processed DELETE that   *)
(* names an event left none alive, whoever crashed in between.             *)
ProcessedMeansDelivered ==
  \A t \in Txns : outbox[t] # None /\ outbox[t].status = "PROCESSED" =>
    /\ outbox[t].op = "CREATE" => events[outbox[t].appt] # None
    /\ outbox[t].op = "DELETE" /\ outbox[t].event # None => ~IsLive(outbox[t].event)

(* An entry is settled once: a status other than PENDING is never written  *)
(* again, although the dispatcher that settles an entry read it a Google   *)
(* call earlier and other dispatchers claim meanwhile.                     *)
SettledForGood ==
  [][\A t \in Txns :
       outbox[t] # None /\ outbox[t].status # "PENDING" => outbox'[t] = outbox[t]]_vars

(* Every entry is settled, PROCESSED or FAILED, though calls raise, saves  *)
(* are refused and workers die.                                            *)
EveryEntrySettles == \A t \in Txns : Pending(t) ~> ~Pending(t)

=============================================================================
