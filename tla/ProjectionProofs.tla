-------------------------- MODULE ProjectionProofs --------------------------
(***************************************************************************)
(* Proofs about Projection, for any number of dispatchers, requests and    *)
(* crashes: what the outbox records is true of the calendar and final, the *)
(* write-back of a dispatcher respects the booking board, whose events the *)
(* entries name, and, with one dispatcher, the calendar mirrors the rows.  *)
(***************************************************************************)
EXTENDS Projection, AppointmentsProofs

----------------------------------------------------------------------------
(* The inductive invariant.                                                *)

(* The dispatcher has claimed an entry and not ended its transaction.      *)
Holding(w) == w.phase \notin {"asleep", "claiming"}

(* What a processed entry says of the calendar, for good: an event never   *)
(* vanishes, and a deleted one never comes back.                           *)
Delivered(e) ==
  /\ outbox[e].op = "CREATE" => events[outbox[e].appt] # None
  /\ outbox[e].op = "DELETE" /\ outbox[e].event # None =>
       events[outbox[e].event] # None /\ ~events[outbox[e].event].live

(* The copy of a dispatcher has an updated_at of its own, as the rows do.  *)
Stale(row) ==
  /\ row.updated < clock
  /\ \A t \in Txns : Mutated(txns[t]) => txns[t].copy.updated # row.updated

(* What the phase of a dispatcher says about its local state.              *)
Sound(w) ==
  /\ ~Holding(w) => w.entry = None /\ w.copy = None
  /\ Holding(w) => w.entry \in Txns \ {None} /\ Pending(w.entry)
  /\ w.phase \in {"loaded", "returned", "reread"} => w.copy \in Row
  /\ w.phase \in {"returned", "reread"} => Delivered(w.entry)
  /\ w.phase = "reread" => w.basis \in Row /\ outbox[w.entry].op = "CREATE"
  /\ w.copy # None => Stale(w.copy)

(* An entry is locked by one dispatcher.                                   *)
Exclusive ==
  \A d, c \in Dispatchers : d # c /\ disp[d].entry # None => disp[c].entry # disp[d].entry

(* The outbox speaks of rows that exist, and the truth.                    *)
Honest(e) ==
  /\ outbox[e] # None => rows[outbox[e].appt] # None
  /\ outbox[e] # None /\ outbox[e].status = "PROCESSED" => Delivered(e)

PInv ==
  /\ LInv
  /\ ProjectionTypeOK
  /\ \A d \in Dispatchers : Sound(disp[d])
  /\ Exclusive
  /\ \A e \in Txns : Honest(e)

----------------------------------------------------------------------------
(* Lemmas about the operators.                                             *)

LEMMA BodyIsEvent ==
  ASSUME NEW appt \in Row
  PROVE  Body(appt) \in Event /\ Body(appt) # None
<1>1. Body(appt) \in Event
  BY DEF Body, Event, Row
<1> QED BY <1>1, ProjectionAssumption

LEMMA RestIsWorker ==
  ASSUME NEW phase \in {"asleep", "claiming"}
  PROVE  /\ Rest(phase) \in Worker /\ ~Holding(Rest(phase)) /\ Rest(phase).phase = phase
         /\ Rest(phase).entry = None /\ Rest(phase).copy = None
BY DEF Rest, Worker, Holding

(* Settling an entry changes its status and its attempts.                  *)
LEMMA SettledIsEntry ==
  ASSUME NEW entry \in Entry
  PROVE  /\ Processed(entry) \in Entry /\ Failed(entry) \in Entry
         /\ Processed(entry).op = entry.op /\ Failed(entry).op = entry.op
         /\ Processed(entry).appt = entry.appt /\ Failed(entry).appt = entry.appt
         /\ Processed(entry).event = entry.event /\ Failed(entry).event = entry.event
         /\ Failed(entry).status \in {entry.status, "FAILED"}
<1>1. Processed(entry) = [entry EXCEPT !.status = "PROCESSED"]
  BY DEF Processed
<1> DEFINE status == IF entry.attempts + 1 >= MaxAttempts THEN "FAILED" ELSE entry.status
           count  == entry.attempts + 1
<1>2. /\ status \in {"PENDING", "PROCESSED", "FAILED"} /\ status \in {entry.status, "FAILED"}
      /\ count \in Nat
  BY DEF Entry
<1>3. Failed(entry) = [entry EXCEPT !.attempts = count, !.status = status]
  BY DEF Failed
<1> HIDE DEF status, count
<1> QED BY <1>1, <1>2, <1>3 DEF Entry

(* The calendar only gains events, and loses none of the deleted.          *)
Grows ==
  /\ events' \in [Appts -> Event \cup {None}]
  /\ \A a \in Appts : events[a] # None => events'[a] # None
  /\ \A a \in Appts : events[a] # None /\ ~events[a].live => ~events'[a].live

LEMMA GrowsMeansDelivered ==
  ASSUME Grows, NEW e \in Txns, outbox[e] \in Entry, outbox'[e] \in Entry,
         outbox'[e].op = outbox[e].op, outbox'[e].appt = outbox[e].appt,
         outbox'[e].event = outbox[e].event, Delivered(e)
  PROVE  Delivered(e)'
<1>1. outbox[e].appt \in Appts /\ outbox[e].event \in Appts \cup {None}
  BY DEF Entry
<1> QED BY <1>1 DEF Delivered, Grows

(* What the call of an entry does to the calendar.                         *)
LEMMA EffectDelivers ==
  ASSUME PInv, NEW d \in Dispatchers, disp[d].phase = "loaded", Effect(d)
  PROVE  /\ Grows
         /\ \A x \in Worker : x.entry = disp[d].entry /\ UNCHANGED outbox => Delivered(x.entry)'
<1> DEFINE e == disp[d].entry
           copy == disp[d].copy
<1>1. /\ e \in Txns /\ outbox[e] \in Entry /\ copy \in Row
      /\ events \in [Appts -> Event \cup {None}]
  BY DEF PInv, Sound, Holding, Pending, LInv, IInv, TypeOK, ProjectionTypeOK
<1>2. /\ outbox[e].appt \in Appts /\ outbox[e].event \in Appts \cup {None}
      /\ copy.event \in Appts \cup {None}
  BY <1>1 DEF Entry, Row
<1>3. Body(copy) \in Event /\ Body(copy) # None /\ Body(copy).live
  BY <1>1, BodyIsEvent DEF Body
<1>4. Effect(d) =>
        \/ outbox[e].op = "CREATE" /\ CreateEvent(outbox[e].appt, copy)
        \/ outbox[e].op = "UPDATE" /\ copy.event # None /\ UpdateEvent(copy.event, copy)
        \/ outbox[e].op = "DELETE" /\ outbox[e].event # None /\ DeleteEvent(outbox[e].event)
        \/ outbox[e].op = "DELETE" /\ outbox[e].event = None /\ UNCHANGED events
  BY DEF Effect
<1> HIDE DEF e, copy
<1>5. CASE outbox[e].op = "CREATE" /\ CreateEvent(outbox[e].appt, copy)
  <2>1. Grows /\ events'[outbox[e].appt] # None
    BY <1>1, <1>2, <1>3, <1>5 DEF CreateEvent, Grows, IsLive
  <2> QED BY <1>5, <2>1 DEF Delivered, e
<1>6. CASE outbox[e].op = "UPDATE" /\ copy.event # None /\ UpdateEvent(copy.event, copy)
  <2>1. Grows
    BY <1>1, <1>2, <1>3, <1>6 DEF UpdateEvent, Grows, IsLive
  <2> QED BY <1>6, <2>1 DEF Delivered, e
<1>7. CASE outbox[e].op = "DELETE" /\ outbox[e].event # None /\ DeleteEvent(outbox[e].event)
  <2> DEFINE a == outbox[e].event
             gone == [events[a] EXCEPT !.live = FALSE]
  <2>1. a \in Appts /\ events[a] \in Event /\ events[a].live
    BY <1>1, <1>2, <1>7 DEF DeleteEvent, IsLive
  <2>2. gone \in Event /\ ~gone.live /\ gone # None
    BY <2>1, ProjectionAssumption DEF Event
  <2>3. events' = [events EXCEPT ![a] = gone]
    BY <1>7 DEF DeleteEvent
  <2> HIDE DEF gone
  <2>4. Grows /\ events'[a] # None /\ ~events'[a].live
    BY <1>1, <2>1, <2>2, <2>3 DEF Grows
  <2> QED BY <1>7, <2>4 DEF Delivered, e
<1>8. CASE outbox[e].op = "DELETE" /\ outbox[e].event = None /\ UNCHANGED events
  <2>1. Grows
    BY <1>1, <1>8 DEF Grows
  <2> QED BY <1>8, <2>1 DEF Delivered, e
<1> QED BY <1>4, <1>5, <1>6, <1>7, <1>8

----------------------------------------------------------------------------
(* Steps of the requests.                                                  *)

(* A mutated copy carries the time of its mutation.                        *)
LEMMA CopiesAreStamped ==
  ASSUME LInv, [CoreNext]_coreVars
  PROVE  /\ clock' \in {clock, clock + 1}
         /\ \A t \in Txns : Mutated(txns'[t]) =>
              \/ Mutated(txns[t]) /\ txns'[t].copy.updated = txns[t].copy.updated
              \/ clock' = clock + 1 /\ txns'[t].copy.updated = clock
<1> DEFINE Same(u) == txns'[u] = txns[u]
           Stamps(u) == Mutated(txns'[u]) =>
              \/ Mutated(txns[u]) /\ txns'[u].copy.updated = txns[u].copy.updated
              \/ clock' = clock + 1 /\ txns'[u].copy.updated = clock
<1>0. /\ txns \in [Txns -> Txn] /\ rows \in [Appts -> Row \cup {None}]
      /\ \A t \in Txns : WellFormed(txns[t])
  BY DEF LInv, IInv, TypeOK, Grounded
<1>1. ASSUME NEW c \in Calls, OpenServiceCall(c) PROVE clock' = clock /\ txns' = txns
  BY <1>1 DEF OpenServiceCall
<1>2. ASSUME NEW t \in Txns, Request(t)
      PROVE  /\ clock' \in {clock, clock + 1} /\ Stamps(t)
             /\ \A u \in Txns \ {t} : Same(u)
  <2>1. ASSUME NEW c \in Calls, NEW k \in Techs, NEW r \in Ranges, BookLoad(t, c, k, r)
        PROVE  clock' = clock + 1 /\ Stamps(t) /\ \A u \in Txns \ {t} : Same(u)
    BY <1>0, <2>1 DEF BookLoad, Begin, Mutated
  <2>2. ASSUME NEW a \in Appts, BookCheck(t, a)
        PROVE  clock' = clock + 1 /\ Stamps(t) /\ \A u \in Txns \ {t} : Same(u)
    <3>1. txns[t] \in Txn /\ txns[t].copy \in Row
      BY <1>0, <2>2 DEF BookCheck, WellFormed
    <3>2. txns'[t].copy = [txns[t].copy EXCEPT !.updated = clock]
      BY <1>0, <2>2, <3>1 DEF BookCheck, Txn
    <3>3. txns'[t].copy.updated = clock
      BY <3>1, <3>2 DEF Row
    <3> QED BY <1>0, <2>2, <3>3 DEF BookCheck
  <2>3. ASSUME NEW a \in Appts, NEW r \in Ranges, RescheduleLoad(t, a, r)
        PROVE  clock' = clock + 1 /\ Stamps(t) /\ \A u \in Txns \ {t} : Same(u)
    BY <1>0, <2>3 DEF RescheduleLoad, Begin, Mutated
  <2>4. ASSUME RescheduleCheck(t)
        PROVE  clock' = clock + 1 /\ Stamps(t) /\ \A u \in Txns \ {t} : Same(u)
    <3>1. txns[t] \in Txn /\ txns[t].copy \in Row
      BY <1>0, <2>4 DEF RescheduleCheck, WellFormed
    <3>2. txns'[t].copy = Rescheduled(txns[t].copy, txns[t].want, clock)
      BY <1>0, <2>4, <3>1 DEF RescheduleCheck, Txn
    <3>3. txns'[t].copy.updated = clock
      BY <3>1, <3>2 DEF Row, Rescheduled
    <3> QED BY <1>0, <2>4, <3>3 DEF RescheduleCheck
  <2>5. ASSUME NEW a \in Appts, CancelLoad(t, a)
        PROVE  clock' = clock + 1 /\ Stamps(t) /\ \A u \in Txns \ {t} : Same(u)
    <3>1. rows[a] \in Row
      BY <1>0, <2>5 DEF CancelLoad
    <3>2. Cancelled(rows[a], clock).updated = clock
      BY <3>1 DEF Cancelled, Row
    <3> QED BY <1>0, <2>5, <3>2 DEF CancelLoad, Begin
  <2>6. ASSUME NEW a \in Appts, NEW text \in Texts, AddDetailsLoad(t, a, text)
        PROVE  clock' = clock + 1 /\ Stamps(t) /\ \A u \in Txns \ {t} : Same(u)
    <3>1. rows[a] \in Row
      BY <1>0, <2>6 DEF AddDetailsLoad
    <3>2. Detailed(rows[a], text, clock).updated = clock
      BY <3>1 DEF Detailed, Row
    <3> QED BY <1>0, <2>6, <3>2 DEF AddDetailsLoad, Begin
  <2>7. ASSUME SaveReread(t)
        PROVE  clock' = clock /\ Stamps(t) /\ \A u \in Txns \ {t} : Same(u)
    BY <1>0, <2>7 DEF SaveReread, Mutated, Txn
  <2>8. ASSUME BookCommit(t) \/ SaveCommit(t) \/ Rollback(t)
        PROVE  clock' = clock /\ Stamps(t) /\ \A u \in Txns \ {t} : Same(u)
    BY <1>0, <2>8 DEF BookCommit, SaveCommit, Rollback, Unbound, Mutated
  <2> HIDE DEF Same, Stamps
  <2> QED BY <1>2, <2>1, <2>2, <2>3, <2>4, <2>5, <2>6, <2>7, <2>8 DEF Request
<1>3. CASE UNCHANGED coreVars
  BY <1>3 DEF coreVars
<1> QED BY <1>1, <1>2, <1>3 DEF CoreNext

(* A request keeps the entries and the rows there are; the entry it adds   *)
(* is PENDING and names a row.                                             *)
LEMMA RequestsOnlyAdd ==
  ASSUME LInv, [CoreNext]_coreVars
  PROVE  /\ \A e \in Txns : outbox[e] # None => outbox'[e] = outbox[e]
         /\ \A e \in Txns : outbox[e] = None /\ outbox'[e] # None =>
              outbox'[e].status = "PENDING" /\ rows'[outbox'[e].appt] # None
         /\ \A a \in Appts : rows[a] # None => rows'[a] # None
<1>1. CASE Inert
  BY <1>1 DEF Inert
<1>2. ASSUME NEW t \in Txns, NEW row \in Row, Commits(t, row), Written(t, row)
      PROVE  /\ \A e \in Txns : outbox[e] # None => outbox'[e] = outbox[e]
             /\ \A e \in Txns : outbox[e] = None /\ outbox'[e] # None =>
                  outbox'[e].status = "PENDING" /\ rows'[outbox'[e].appt] # None
             /\ \A a \in Appts : rows[a] # None => rows'[a] # None
  <2>1. Enqueued(t).status = "PENDING" /\ Enqueued(t).appt = txns[t].appt
    BY DEF Enqueued
  <2> QED BY <1>2, <2>1, CommitTables
<1> QED BY <1>1, <1>2, StepWrites

LEMMA RequestStep == PInv /\ [CoreNext]_coreVars /\ UNCHANGED projVars => PInv'
<1> SUFFICES ASSUME PInv, [CoreNext]_coreVars, UNCHANGED projVars PROVE PInv'
  OBVIOUS
<1> USE DEF PInv
<1>1. LInv' /\ TypeOK'
  BY LogInductive DEF LInv, IInv
<1>2. UNCHANGED <<events, disp, crashes>>
  BY DEF projVars
<1>3. ProjectionTypeOK'
  BY <1>1, <1>2 DEF ProjectionTypeOK
<1>4. /\ \A e \in Txns : outbox[e] # None => outbox'[e] = outbox[e]
      /\ \A e \in Txns : outbox[e] = None /\ outbox'[e] # None =>
           outbox'[e].status = "PENDING" /\ rows'[outbox'[e].appt] # None
      /\ \A a \in Appts : rows[a] # None => rows'[a] # None
  BY RequestsOnlyAdd
<1>5. /\ clock \in Nat /\ clock' \in {clock, clock + 1}
      /\ \A t \in Txns : Mutated(txns'[t]) =>
           \/ Mutated(txns[t]) /\ txns'[t].copy.updated = txns[t].copy.updated
           \/ clock' = clock + 1 /\ txns'[t].copy.updated = clock
  BY CopiesAreStamped DEF LInv, IInv, TypeOK
<1>6. \A d \in Dispatchers : Sound(disp[d])'
  <2> SUFFICES ASSUME NEW d \in Dispatchers PROVE Sound(disp[d])'
    OBVIOUS
  <2>1. Sound(disp[d]) /\ disp'[d] = disp[d] /\ disp[d] \in Worker
    BY <1>2 DEF ProjectionTypeOK
  <2>2. Holding(disp[d]) => outbox'[disp[d].entry] = outbox[disp[d].entry]
    BY <1>4, <2>1 DEF Sound, Pending
  <2>3. disp[d].copy # None => Stale(disp[d].copy)'
    <3> SUFFICES ASSUME disp[d].copy # None PROVE Stale(disp[d].copy)'
      OBVIOUS
    <3>1. disp[d].copy.updated \in Nat /\ Stale(disp[d].copy)
      BY <2>1 DEF Sound, Worker, Row
    <3> QED BY <1>2, <1>5, <2>1, <3>1 DEF Stale
  <2>4. Holding(disp[d]) => Pending(disp[d].entry)'
    BY <1>2, <2>1, <2>2 DEF Sound, Pending
  <2>5. disp[d].phase \in {"returned", "reread"} => Delivered(disp[d].entry)'
    BY <1>2, <2>1, <2>2 DEF Sound, Delivered, Holding
  <2>6. disp[d].phase = "reread" => outbox'[disp[d].entry].op = "CREATE"
    BY <2>1, <2>2 DEF Sound, Holding
  <2> QED BY <2>1, <2>3, <2>4, <2>5, <2>6 DEF Sound, Holding
<1>7. Exclusive'
  BY <1>2 DEF Exclusive
<1>8. \A e \in Txns : Honest(e)'
  <2> SUFFICES ASSUME NEW e \in Txns PROVE Honest(e)'
    OBVIOUS
  <2>1. CASE outbox[e] # None
    <3>1. outbox'[e] = outbox[e] /\ outbox[e].appt \in Appts
      BY <1>4, <2>1 DEF ProjectionTypeOK, TypeOK, Entry
    <3> QED BY <1>2, <1>4, <2>1, <3>1 DEF Honest, Delivered
  <2>2. CASE outbox[e] = None
    BY <1>4, <2>2 DEF Honest
  <2> QED BY <2>1, <2>2
<1> QED BY <1>1, <1>3, <1>6, <1>7, <1>8

----------------------------------------------------------------------------
(* Steps of the dispatchers.                                               *)

(* A dispatcher goes on, in the calendar perhaps, and writes no table.     *)
LEMMA WorkerStep ==
  ASSUME PInv, NEW d \in Dispatchers, NEW w \in Worker,
         disp' = [disp EXCEPT ![d] = w], UNCHANGED coreVars, Grows,
         crashes' \in 0..MaxCrashes,
         w.entry \in {None, disp[d].entry} \/ ~Locked(w.entry),
         Sound(w)'
  PROVE  PInv'
<1> USE DEF PInv
<1>0. /\ disp \in [Dispatchers -> Worker] /\ disp'[d] = w
      /\ \A c \in Dispatchers \ {d} : disp'[c] = disp[c]
      /\ outbox \in [Txns -> Entry \cup {None}]
      /\ UNCHANGED <<rows, outbox, txns, clock>>
  BY DEF ProjectionTypeOK, TypeOK, coreVars
<1>1. LInv'
  BY LogInductive
<1>2. ProjectionTypeOK'
  BY <1>0, <1>1 DEF ProjectionTypeOK, LInv, IInv, Grows
<1>3. ASSUME NEW e \in Txns, outbox[e] # None, Delivered(e) PROVE Delivered(e)'
  <2>1. outbox[e] \in Entry /\ outbox'[e] = outbox[e]
    BY <1>0, <1>3
  <2> QED BY <1>3, <2>1, GrowsMeansDelivered
<1>4. ASSUME NEW c \in Dispatchers PROVE Sound(disp[c])'
  <2>1. CASE c = d
    BY <1>0, <2>1 DEF Sound, Holding, Pending, Delivered, Stale
  <2>2. CASE c # d
    <3>1. Sound(disp[c]) /\ disp'[c] = disp[c]
      BY <1>0, <2>2
    <3>2. disp[c].phase \in {"returned", "reread"} => Delivered(disp[c].entry)'
      BY <1>0, <1>3, <3>1 DEF Sound, Holding, Pending, Delivered
    <3> QED BY <1>0, <3>1, <3>2 DEF Sound, Holding, Pending, Stale
  <2> QED BY <2>1, <2>2
<1>5. Exclusive'
  <2> SUFFICES ASSUME NEW b \in Dispatchers, NEW c \in Dispatchers, b # c,
                      disp'[b].entry # None
               PROVE  disp'[c].entry # disp'[b].entry
    BY DEF Exclusive
  <2>1. CASE b # d /\ c # d
    BY <1>0, <2>1 DEF Exclusive
  <2>2. CASE b = d
    BY <1>0, <2>2 DEF Exclusive, Locked
  <2>3. CASE c = d
    BY <1>0, <2>3 DEF Exclusive, Locked
  <2> QED BY <2>1, <2>2, <2>3
<1>6. ASSUME NEW e \in Txns PROVE Honest(e)'
  BY <1>0, <1>3 DEF Honest, Delivered
<1> QED BY <1>1, <1>2, <1>4, <1>5, <1>6

(* A dispatcher settles the entry it holds, or counts an attempt, and      *)
(* writes a row perhaps.                                                   *)
LEMMA SettleStep ==
  ASSUME PInv, LInv', NEW d \in Dispatchers, NEW e \in Txns, NEW entry \in Entry,
         Holding(disp[d]), e = disp[d].entry,
         disp' = [disp EXCEPT ![d] = Rest("claiming")],
         outbox' = [outbox EXCEPT ![e] = entry],
         entry.op = outbox[e].op, entry.appt = outbox[e].appt, entry.event = outbox[e].event,
         entry.status = "PROCESSED" => Delivered(e),
         \A a \in Appts : rows[a] # None => rows'[a] # None,
         UNCHANGED <<txns, clock, events, crashes>>
  PROVE  PInv'
<1> USE DEF PInv
<1>0. /\ disp \in [Dispatchers -> Worker] /\ disp'[d] = Rest("claiming")
      /\ \A c \in Dispatchers \ {d} : disp'[c] = disp[c]
      /\ outbox \in [Txns -> Entry \cup {None}]
      /\ outbox'[e] = entry /\ \A u \in Txns \ {e} : outbox'[u] = outbox[u]
      /\ outbox[e] \in Entry /\ outbox[e] # None /\ entry # None
  BY NoneAssumption DEF ProjectionTypeOK, TypeOK, Sound, Pending
<1>1. ProjectionTypeOK'
  BY <1>0, RestIsWorker DEF ProjectionTypeOK, LInv, IInv
<1>2. ASSUME NEW u \in Txns, Delivered(u) PROVE Delivered(u)'
  BY <1>0, <1>2 DEF Delivered
<1>3. ASSUME NEW c \in Dispatchers PROVE Sound(disp[c])'
  <2>1. CASE c = d
    BY <1>0, <2>1, RestIsWorker DEF Sound, Holding
  <2>2. CASE c # d
    <3>1. Sound(disp[c]) /\ disp'[c] = disp[c]
      BY <1>0, <2>2
    <3>2. Holding(disp[c]) => disp[c].entry \in Txns \ {e}
      <4>1. disp[d].entry # None => disp[c].entry # disp[d].entry
        BY <2>2 DEF Exclusive
      <4>2. disp[d].entry # None
        BY DEF Sound
      <4>3. Holding(disp[c]) => disp[c].entry \in Txns
        BY <3>1 DEF Sound
      <4> QED BY <4>1, <4>2, <4>3
    <3>3. disp[c].phase \in {"returned", "reread"} => Delivered(disp[c].entry)'
      BY <1>2, <3>1 DEF Sound, Holding
    <3> QED BY <1>0, <3>1, <3>2, <3>3 DEF Sound, Holding, Pending, Stale
  <2> QED BY <2>1, <2>2
<1>4. Exclusive'
  BY <1>0, RestIsWorker DEF Exclusive
<1>5. ASSUME NEW u \in Txns PROVE Honest(u)'
  <2>1. Honest(u) /\ Honest(e)
    OBVIOUS
  <2>2. outbox[u] # None => outbox[u].appt \in Appts
    BY <1>0 DEF Entry
  <2> QED BY <1>0, <1>2, <2>1, <2>2 DEF Honest
<1> QED BY <1>1, <1>3, <1>4, <1>5

(* The write-back of a CREATE merges columns of the copy into the row of   *)
(* the appointment.                                                        *)
LEMMA LinkedRow ==
  ASSUME PInv, NEW d \in Dispatchers, disp[d].phase = "reread"
  PROVE  LET e   == disp[d].entry
             a   == outbox[e].appt
             new == Merged(disp[d].copy, disp[d].basis, rows[a])
         IN  /\ e \in Txns /\ outbox[e] \in Entry /\ a \in Appts
             /\ rows[a] \in Row /\ rows[a] # None
             /\ new \in Row /\ new # None /\ new.tech = rows[a].tech
             /\ Stale(new)
<1> DEFINE e   == disp[d].entry
           a   == outbox[e].appt
           new == Merged(disp[d].copy, disp[d].basis, rows[a])
<1>1. /\ e \in Txns /\ outbox[e] # None /\ outbox[e] \in Entry
      /\ disp[d].copy \in Row /\ disp[d].basis \in Row
      /\ Stale(disp[d].copy)
  BY NoneAssumption
     DEF PInv, Sound, Holding, Pending, ProjectionTypeOK, TypeOK
<1>2. a \in Appts /\ rows[a] # None /\ rows[a] \in Row
  BY <1>1 DEF PInv, Honest, Entry, ProjectionTypeOK, TypeOK
<1>3. new \in Row /\ new # None /\ new.tech = rows[a].tech
  BY <1>1, <1>2, MergedIsRow, NoneAssumption
<1>4. new.updated \in {disp[d].copy.updated, rows[a].updated}
  BY <1>1, <1>2 DEF Merged, Column, Row
<1>5. Stale(rows[a])
  BY <1>2 DEF PInv, LInv, Stamped, Stale
<1> HIDE DEF e, a, new
<1>6. Stale(new)
  BY <1>1, <1>4, <1>5 DEF Stale
<1> QED BY <1>1, <1>2, <1>3, <1>6 DEF e, a, new

(* A settled entry leaves the requests' invariant alone.                   *)
LEMMA SettledKeeps ==
  ASSUME LInv, NEW e \in Txns, outbox[e] # None, NEW entry \in Entry,
         outbox' = [outbox EXCEPT ![e] = entry],
         UNCHANGED <<calls, rows, audits, txns, clock>>
  PROVE  LInv'
<1>1. TypeOK' /\ Grounded' /\ Apart'
  BY DEF LInv, IInv, TypeOK, Grounded, Apart
<1>2. Fresh' /\ OnlyCancelCancels' /\ Stamped'
  BY DEF LInv, Fresh, OnlyCancelCancels, Stamped
<1>3. NotYetEnqueued'
  BY DEF LInv, IInv, TypeOK, NotYetEnqueued
<1> QED BY <1>1, <1>2, <1>3 DEF LInv, IInv

(* So does a row that the constraint allows and no request has stamped.    *)
LEMMA LinkedKeeps ==
  ASSUME LInv, NEW e \in Txns, outbox[e] # None, NEW entry \in Entry,
         outbox' = [outbox EXCEPT ![e] = entry],
         NEW a \in Appts, rows[a] # None, NEW row \in Row, row # None,
         ConstraintAllows(a, row), Stale(row),
         rows' = [rows EXCEPT ![a] = row],
         UNCHANGED <<calls, audits, txns, clock>>
  PROVE  LInv'
<1>0. /\ rows \in [Appts -> Row \cup {None}] /\ rows'[a] = row
      /\ \A b \in Appts \ {a} : rows'[b] = rows[b]
      /\ \A b \in Appts : rows[b] = None <=> rows'[b] = None
  BY DEF LInv, IInv, TypeOK
<1>1. TypeOK'
  BY DEF LInv, IInv, TypeOK
<1>2. Grounded'
  <2> SUFFICES ASSUME NEW t \in Txns
               PROVE  /\ WellFormed(txns'[t])
                      /\ Saves(txns'[t]) => rows'[txns'[t].appt] # None
    BY DEF Grounded
  <2>1. WellFormed(txns[t]) /\ (Saves(txns[t]) => rows[txns[t].appt] # None)
    BY DEF LInv, IInv, Grounded
  <2>2. Saves(txns[t]) => txns[t].appt \in Appts
    BY <2>1 DEF Saves, WellFormed
  <2> QED BY <1>0, <2>1, <2>2
<1>3. Apart'
  BY <1>0, WriteKeepsApart DEF LInv, IInv
<1>4. Fresh'
  <2>1. \A t \in Txns : Books(txns[t]) => txns[t].appt \in Appts
    BY DEF LInv, IInv, Grounded, WellFormed, Books
  <2> QED BY <1>0, <2>1 DEF LInv, Fresh
<1>5. OnlyCancelCancels'
  BY DEF LInv, OnlyCancelCancels
<1>6. NotYetEnqueued'
  BY DEF LInv, IInv, TypeOK, NotYetEnqueued
<1>7. Stamped'
  BY <1>0 DEF LInv, Stamped, Stale
<1> QED BY <1>1, <1>2, <1>3, <1>4, <1>5, <1>6, <1>7 DEF LInv, IInv

(* mark_failed: an attempt is counted.                                     *)
LEMMA FailureStep ==
  ASSUME PInv, NEW d \in Dispatchers, Holding(disp[d]), MarkFailed(d)
  PROVE  PInv'
<1> DEFINE e == disp[d].entry
<1>1. e \in Txns /\ outbox[e] # None /\ outbox[e].status = "PENDING" /\ outbox[e] \in Entry
  BY DEF PInv, Sound, Pending, ProjectionTypeOK, TypeOK
<1>2. /\ Failed(outbox[e]) \in Entry
      /\ Failed(outbox[e]).op = outbox[e].op /\ Failed(outbox[e]).appt = outbox[e].appt
      /\ Failed(outbox[e]).event = outbox[e].event /\ Failed(outbox[e]).status # "PROCESSED"
  BY <1>1, SettledIsEntry
<1>3. /\ outbox' = [outbox EXCEPT ![e] = Failed(outbox[e])]
      /\ disp' = [disp EXCEPT ![d] = Rest("claiming")]
      /\ UNCHANGED <<calls, rows, audits, txns, clock, events, crashes>>
  BY DEF MarkFailed
<1> HIDE DEF e
<1>4. LInv'
  BY <1>1, <1>2, <1>3, SettledKeeps DEF PInv
<1> QED BY <1>1, <1>2, <1>3, <1>4, SettleStep DEF e

(* Every step of a dispatcher, and its death, preserves the invariant.     *)
LEMMA DispatcherStep ==
  ASSUME PInv, NEW d \in Dispatchers, Dispatch(d) \/ Crash(d)
  PROVE  PInv'
<1>0. /\ disp \in [Dispatchers -> Worker] /\ Sound(disp[d])
      /\ outbox \in [Txns -> Entry \cup {None}] /\ crashes \in 0..MaxCrashes
      /\ rows \in [Appts -> Row \cup {None}]
      /\ (UNCHANGED events => Grows)
  BY DEF PInv, ProjectionTypeOK, TypeOK, Grows
<1> PICK w \in Worker : w = disp[d]
  BY <1>0
<1> DEFINE e == w.entry
<1>1. ASSUME NEW phase \in {"asleep", "claiming"}, disp' = [disp EXCEPT ![d] = Rest(phase)],
             UNCHANGED <<coreVars, events>>, crashes' \in 0..MaxCrashes
      PROVE  PInv'
  <2>1. Sound(Rest(phase))'
    BY RestIsWorker DEF Sound, Holding
  <2> QED BY <1>0, <1>1, <2>1, RestIsWorker, WorkerStep
<1>2. CASE StartRun(d) \/ EndRun(d)
  BY <1>0, <1>1, <1>2 DEF StartRun, EndRun
<1>3. CASE Crash(d)
  <2>1. crashes' \in 0..MaxCrashes
    BY <1>0, <1>3, ProjectionAssumption DEF Crash
  <2> QED BY <1>1, <1>3, <2>1 DEF Crash
<1>4. CASE Claim(d)
  <2> SUFFICES ASSUME NEW u \in Txns, Oldest(u), w.phase = "claiming",
                      disp' = [disp EXCEPT ![d].phase = "claimed", ![d].entry = u],
                      UNCHANGED <<coreVars, events, crashes>>
               PROVE  PInv'
    BY <1>4 DEF Claim
  <2>1. Pending(u) /\ ~Locked(u) /\ w.entry = None /\ w.copy = None
    BY <1>0 DEF Oldest, Claimable, Sound, Holding
  <2>2. u # None
    BY <2>1 DEF Locked
  <2>3. PICK x \in Worker : x = [w EXCEPT !.phase = "claimed", !.entry = u]
    BY DEF Worker
  <2>4. x.phase = "claimed" /\ x.entry = u /\ x.copy = None
    BY <2>1, <2>3 DEF Worker
  <2>5. disp' = [disp EXCEPT ![d] = x]
    BY <1>0, <2>3
  <2>6. Pending(u)'
    BY <2>1 DEF Pending, coreVars
  <2>7. Sound(x)'
    BY <2>2, <2>4, <2>6 DEF Sound, Holding
  <2> QED BY <1>0, <2>1, <2>4, <2>5, <2>7, WorkerStep
<1>5. CASE Load(d)
  <2>1. /\ w.phase = "claimed" /\ e \in Txns \ {None} /\ Pending(e)
        /\ UNCHANGED <<coreVars, events, crashes>>
        /\ w.copy # None => Stale(w.copy)
    BY <1>0, <1>5 DEF Load, Sound, Holding
  <2>2. Pending(e)'
    BY <2>1 DEF Pending, coreVars
  <2>3. PICK row \in Row : row = rows[outbox[e].appt] /\ Stale(row)
    <3>1. outbox[e] \in Entry /\ outbox[e] # None
      BY <1>0, <2>1 DEF Pending
    <3>2. outbox[e].appt \in Appts /\ rows[outbox[e].appt] # None
      BY <2>1, <3>1 DEF PInv, Honest, Entry
    <3> QED BY <1>0, <3>2 DEF PInv, LInv, Stamped, Stale
  <2>4. Stale(row)'
    BY <2>1, <2>3 DEF Stale, coreVars
  <2>5. CASE disp' = [disp EXCEPT ![d].phase = "loaded", ![d].copy = row]
    <3>1. PICK x \in Worker : x = [w EXCEPT !.phase = "loaded", !.copy = row]
      BY DEF Worker
    <3>2. x.phase = "loaded" /\ x.entry = e /\ x.copy = row
      BY <3>1 DEF Worker
    <3>3. disp' = [disp EXCEPT ![d] = x]
      BY <1>0, <2>5, <3>1
    <3>4. Sound(x)'
      BY <2>1, <2>2, <2>4, <3>2 DEF Sound, Holding
    <3> QED BY <1>0, <2>1, <3>2, <3>3, <3>4, WorkerStep
  <2>6. CASE disp' = [disp EXCEPT ![d].phase = "raised"]
    <3>1. PICK x \in Worker : x = [w EXCEPT !.phase = "raised"]
      BY DEF Worker
    <3>2. x.phase = "raised" /\ x.entry = e /\ x.copy = w.copy
      BY <3>1 DEF Worker
    <3>3. disp' = [disp EXCEPT ![d] = x]
      BY <1>0, <2>6, <3>1
    <3>4. x.copy # None => Stale(x.copy)'
      BY <2>1, <3>2 DEF Stale, coreVars
    <3>5. Sound(x)'
      BY <2>1, <2>2, <3>2, <3>4 DEF Sound, Holding
    <3> QED BY <1>0, <2>1, <3>2, <3>3, <3>5, WorkerStep
  <2> QED BY <1>5, <2>3, <2>5, <2>6 DEF Load
<1>6. CASE SkipUpdate(d) \/ FailEntry(d)
  BY <1>6, FailureStep DEF SkipUpdate, FailEntry, Holding
<1>7. CASE CallReturns(d) \/ CallRaises(d)
  <2>1. /\ w.phase = "loaded" /\ e \in Txns \ {None} /\ Pending(e) /\ w.copy \in Row
        /\ UNCHANGED <<coreVars, crashes>>
        /\ w.copy # None => Stale(w.copy)
    BY <1>0, <1>7 DEF CallReturns, CallRaises, Sound, Holding
  <2>2. Pending(e)' /\ (w.copy # None => Stale(w.copy)') /\ UNCHANGED outbox
    BY <2>1 DEF Pending, Stale, coreVars
  <2>3. CASE CallReturns(d)
    <3>1. PICK x \in Worker : x = [w EXCEPT !.phase = "returned"]
      BY DEF Worker
    <3>2. x.phase = "returned" /\ x.entry = e /\ x.copy = w.copy
      BY <3>1 DEF Worker
    <3>3. disp' = [disp EXCEPT ![d] = x]
      BY <1>0, <2>3, <3>1 DEF CallReturns
    <3>4. Grows /\ Delivered(x.entry)'
      BY <2>1, <2>2, <2>3, <3>2, EffectDelivers DEF CallReturns
    <3>5. Sound(x)'
      BY <2>1, <2>2, <3>2, <3>4 DEF Sound, Holding
    <3> QED BY <1>0, <2>1, <3>2, <3>3, <3>4, <3>5, WorkerStep
  <2>4. CASE CallRaises(d)
    <3>1. PICK x \in Worker : x = [w EXCEPT !.phase = "raised"]
      BY DEF Worker
    <3>2. x.phase = "raised" /\ x.entry = e /\ x.copy = w.copy
      BY <3>1 DEF Worker
    <3>3. disp' = [disp EXCEPT ![d] = x]
      BY <1>0, <2>4, <3>1 DEF CallRaises
    <3>4. Grows
      BY <1>0, <2>1, <2>4, EffectDelivers DEF CallRaises
    <3>5. Sound(x)'
      BY <2>1, <2>2, <3>2 DEF Sound, Holding
    <3> QED BY <1>0, <2>1, <3>2, <3>3, <3>4, <3>5, WorkerStep
  <2> QED BY <1>7, <2>3, <2>4
<1>8. CASE SettleEntry(d)
  <2>1. /\ w.phase = "returned" /\ Holding(w) /\ e \in Txns /\ outbox[e] # None
        /\ outbox[e] \in Entry /\ Delivered(e)
    BY <1>0, <1>8 DEF SettleEntry, Sound, Holding, Pending
  <2>2. /\ Processed(outbox[e]) \in Entry
        /\ Processed(outbox[e]).op = outbox[e].op /\ Processed(outbox[e]).appt = outbox[e].appt
        /\ Processed(outbox[e]).event = outbox[e].event
    BY <2>1, SettledIsEntry
  <2>3. /\ outbox' = [outbox EXCEPT ![e] = Processed(outbox[e])]
        /\ disp' = [disp EXCEPT ![d] = Rest("claiming")]
        /\ UNCHANGED <<calls, rows, audits, txns, clock, events, crashes>>
    BY <1>8 DEF SettleEntry
  <2> HIDE DEF e
  <2>4. LInv'
    BY <2>1, <2>2, <2>3, SettledKeeps DEF PInv
  <2> QED BY <2>1, <2>2, <2>3, <2>4, SettleStep DEF e
<1>9. CASE LinkReread(d)
  <2>1. /\ w.phase = "returned" /\ e \in Txns \ {None} /\ Pending(e) /\ w.copy \in Row
        /\ outbox[e] # None /\ outbox[e] \in Entry /\ outbox[e].op = "CREATE"
        /\ Delivered(e) /\ UNCHANGED <<coreVars, events, crashes>> /\ Stale(w.copy)
    BY <1>0, <1>9, NoneAssumption DEF LinkReread, Sound, Holding, Pending
  <2>2. PICK a \in Appts : a = outbox[e].appt
    BY <2>1 DEF Entry
  <2>3. PICK row \in Row : row = rows[a]
    BY <1>0, <2>1, <2>2 DEF PInv, Honest
  <2>4. PICK linked \in Row : linked = [w.copy EXCEPT !.event = a]
    BY <2>1 DEF Row
  <2>5. Stale(linked)'
    <3>1. linked.updated = w.copy.updated
      BY <2>1, <2>4 DEF Row
    <3> QED BY <2>1, <3>1 DEF Stale, coreVars
  <2>6. PICK x \in Worker : x = [w EXCEPT !.phase = "reread", !.copy = linked, !.basis = row]
    BY DEF Worker
  <2>7. x.phase = "reread" /\ x.entry = e /\ x.copy = linked /\ x.basis = row
    BY <2>6 DEF Worker
  <2>8. disp' = [disp EXCEPT ![d] = x]
    <3>1. disp' = [disp EXCEPT ![d].phase = "reread", ![d].copy.event = a, ![d].basis = row]
      BY <1>9, <2>2, <2>3 DEF LinkReread
    <3> QED BY <1>0, <2>4, <2>6, <3>1
  <2>9. Pending(e)' /\ Delivered(e)' /\ outbox'[e].op = "CREATE"
    BY <2>1 DEF Pending, Delivered, coreVars
  <2>10. Sound(x)'
    BY <2>1, <2>5, <2>7, <2>9 DEF Sound, Holding
  <2> QED BY <1>0, <2>1, <2>7, <2>8, <2>10, WorkerStep
<1>10. CASE LinkCommit(d)
  <2> DEFINE a == outbox[e].appt
             new == Merged(disp[d].copy, disp[d].basis, rows[a])
  <2>1. /\ w.phase = "reread" /\ Holding(w) /\ outbox[e] # None /\ Delivered(e)
        /\ UNCHANGED <<calls, audits, txns, clock, events, crashes>>
    BY <1>0, <1>10 DEF LinkCommit, Sound, Holding, Pending
  <2>2. /\ e \in Txns /\ outbox[e] \in Entry /\ a \in Appts
        /\ rows[a] \in Row /\ rows[a] # None
        /\ new \in Row /\ new # None /\ Stale(new)
    BY <2>1, LinkedRow
  <2>3. \/ /\ ConstraintAllows(a, new)
           /\ rows' = [rows EXCEPT ![a] = new]
           /\ outbox' = [outbox EXCEPT ![e] = Processed(outbox[e])]
           /\ disp' = [disp EXCEPT ![d] = Rest("claiming")]
        \/ /\ disp' = [disp EXCEPT ![d] = Rest("asleep")]
           /\ UNCHANGED <<rows, outbox>>
    BY <1>10 DEF LinkCommit
  <2>4. /\ Processed(outbox[e]) \in Entry
        /\ Processed(outbox[e]).op = outbox[e].op /\ Processed(outbox[e]).appt = outbox[e].appt
        /\ Processed(outbox[e]).event = outbox[e].event
    BY <2>2, SettledIsEntry
  <2> HIDE DEF a, new, e
  <2>5. CASE /\ ConstraintAllows(a, new)
             /\ rows' = [rows EXCEPT ![a] = new]
             /\ outbox' = [outbox EXCEPT ![e] = Processed(outbox[e])]
             /\ disp' = [disp EXCEPT ![d] = Rest("claiming")]
    <3>1. LInv'
      BY <2>1, <2>2, <2>4, <2>5, LinkedKeeps DEF PInv
    <3>2. \A b \in Appts : rows[b] # None => rows'[b] # None
      BY <1>0, <2>2, <2>5
    <3> QED BY <2>1, <2>2, <2>4, <2>5, <3>1, <3>2, SettleStep DEF e
  <2>6. CASE /\ disp' = [disp EXCEPT ![d] = Rest("asleep")]
             /\ UNCHANGED <<rows, outbox>>
    BY <1>0, <1>1, <2>1, <2>6 DEF coreVars
  <2> QED BY <2>3, <2>5, <2>6
<1> QED BY <1>2, <1>3, <1>4, <1>5, <1>6, <1>7, <1>8, <1>9, <1>10 DEF Dispatch

----------------------------------------------------------------------------
(* The invariant, and what follows from it.                                *)

LEMMA ProjectionInitially == Init => PInv
<1> SUFFICES ASSUME Init PROVE PInv
  OBVIOUS
<1>1. LInv
  BY LogInitially DEF Init
<1>2. /\ events = [a \in Appts |-> None] /\ disp = [d \in Dispatchers |-> Rest("asleep")]
      /\ crashes = 0 /\ \A e \in Txns : outbox[e] = None
  BY DEF Init, CoreInit, ProjInit
<1>3. ProjectionTypeOK
  BY <1>1, <1>2, RestIsWorker, ProjectionAssumption DEF ProjectionTypeOK, LInv, IInv
<1>4. ASSUME NEW d \in Dispatchers PROVE Sound(disp[d])
  <2>1. disp[d] = Rest("asleep")
    BY <1>2
  <2>2. Sound(Rest("asleep"))
    BY RestIsWorker DEF Sound
  <2> QED BY <2>1, <2>2
<1>5. Exclusive
  BY <1>2, RestIsWorker DEF Exclusive
<1>6. \A e \in Txns : Honest(e)
  BY <1>2 DEF Honest
<1> QED BY <1>1, <1>3, <1>4, <1>5, <1>6 DEF PInv

LEMMA ProjectionInductive == PInv /\ [Next]_vars => PInv'
<1> SUFFICES ASSUME PInv, [Next]_vars PROVE PInv'
  OBVIOUS
<1>1. CASE CoreNext /\ UNCHANGED projVars
  BY <1>1, RequestStep
<1>2. CASE \E d \in Dispatchers : Dispatch(d) \/ Crash(d)
  BY <1>2, DispatcherStep
<1>3. CASE UNCHANGED vars
  BY <1>3, RequestStep DEF vars
<1> QED BY <1>1, <1>2, <1>3 DEF Next

(* What the outbox records stays true of the calendar, and the invariant   *)
(* of the requests survives the write-backs of the dispatchers.            *)
THEOREM ProjectionInvariance == Spec => []PInv
BY ProjectionInitially, ProjectionInductive, PTL DEF Spec

(* Tables, calendar and dispatchers keep their types.                      *)
THEOREM ProjectionTypeCorrect == Spec => []ProjectionTypeOK
<1>1. PInv => ProjectionTypeOK
  BY DEF PInv
<1> QED BY <1>1, ProjectionInvariance, PTL

(* PROCESSED is never recorded ahead of the effect, for any number of      *)
(* dispatchers, crashes and lost answers.                                  *)
THEOREM ProcessedIsDelivered == Spec => []ProcessedMeansDelivered
<1>1. PInv => ProcessedMeansDelivered
  BY DEF PInv, Honest, Delivered, ProcessedMeansDelivered, IsLive
<1> QED BY <1>1, ProjectionInvariance, PTL

(* The write-backs of dispatchers never make two active appointments of a  *)
(* technician meet.                                                        *)
THEOREM NoDoubleBookingUnderDispatchers == Spec => []NoDoubleBooking
<1>1. PInv => NoDoubleBooking
  BY ApartMeansNoDoubleBooking DEF PInv, LInv
<1> QED BY <1>1, ProjectionInvariance, PTL

----------------------------------------------------------------------------
(* What a dispatcher writes.                                               *)

(* A dispatcher touches at most the entry it has claimed, which is         *)
(* PENDING, and at most the row of that entry, with a write the            *)
(* constraint allows and for the same technician.                          *)
LEMMA DispatcherWrites ==
  ASSUME PInv, NEW d \in Dispatchers, Dispatch(d) \/ Crash(d)
  PROVE  /\ \/ UNCHANGED outbox
            \/ \E e \in Txns : /\ Pending(e)
                               /\ \A u \in Txns \ {e} : outbox'[u] = outbox[u]
         /\ \/ UNCHANGED rows
            \/ \E a \in Appts, row \in Row :
                 /\ ConstraintAllows(a, row) /\ rows[a] # None
                 /\ row.tech = rows[a].tech
                 /\ rows' = [rows EXCEPT ![a] = row]
<1> DEFINE e == disp[d].entry
           a == outbox[e].appt
           new == Merged(disp[d].copy, disp[d].basis, rows[a])
<1>0. /\ Sound(disp[d]) /\ outbox \in [Txns -> Entry \cup {None}]
      /\ (Holding(disp[d]) => e \in Txns /\ Pending(e))
  BY DEF PInv, Sound, ProjectionTypeOK, TypeOK
<1>1. CASE \/ StartRun(d) \/ EndRun(d) \/ Crash(d) \/ Claim(d) \/ Load(d)
           \/ CallReturns(d) \/ CallRaises(d) \/ LinkReread(d)
  <2>1. UNCHANGED coreVars
    BY <1>1 DEF StartRun, EndRun, Crash, Claim, Load, CallReturns, CallRaises, LinkReread
  <2> QED BY <2>1 DEF coreVars
<1>2. CASE SkipUpdate(d) \/ FailEntry(d)
  <2>1. Holding(disp[d]) /\ outbox' = [outbox EXCEPT ![e] = Failed(outbox[e])] /\ UNCHANGED rows
    BY <1>2 DEF SkipUpdate, FailEntry, MarkFailed, Holding
  <2> HIDE DEF e
  <2> QED BY <1>0, <2>1
<1>3. CASE SettleEntry(d)
  <2>1. Holding(disp[d]) /\ outbox' = [outbox EXCEPT ![e] = Processed(outbox[e])] /\ UNCHANGED rows
    BY <1>3 DEF SettleEntry, Holding
  <2> HIDE DEF e
  <2> QED BY <1>0, <2>1
<1>4. CASE LinkCommit(d)
  <2>1. /\ disp[d].phase = "reread" /\ Holding(disp[d])
        /\ \/ /\ ConstraintAllows(a, new) /\ rows' = [rows EXCEPT ![a] = new]
              /\ outbox' = [outbox EXCEPT ![e] = Processed(outbox[e])]
           \/ UNCHANGED <<rows, outbox>>
    BY <1>4 DEF LinkCommit, Holding
  <2>2. a \in Appts /\ rows[a] # None /\ new \in Row /\ new.tech = rows[a].tech
    BY <2>1, LinkedRow
  <2> HIDE DEF e, a, new
  <2> QED BY <1>0, <2>1, <2>2
<1> QED BY <1>1, <1>2, <1>3, <1>4 DEF Dispatch

LEMMA ProjectionKeepsSettled ==
  ASSUME PInv, [Next]_vars, NEW t \in Txns, outbox[t] # None, outbox[t].status # "PENDING"
  PROVE  outbox'[t] = outbox[t]
<1>1. CASE [CoreNext]_coreVars
  BY <1>1, RequestsOnlyAdd DEF PInv
<1>2. CASE \E d \in Dispatchers : Dispatch(d) \/ Crash(d)
  BY <1>2, DispatcherWrites DEF Pending
<1> QED BY <1>1, <1>2 DEF Next, vars

(* An entry is settled once, although the dispatcher that settles it read  *)
(* it a Google call earlier.                                               *)
THEOREM SettledEntriesStay == Spec => SettledForGood
<1>1. PInv /\ [Next]_vars =>
        [\A t \in Txns :
           outbox[t] # None /\ outbox[t].status # "PENDING" => outbox'[t] = outbox[t]]_vars
  BY ProjectionKeepsSettled
<1> QED BY <1>1, ProjectionInvariance, PTL DEF Spec, SettledForGood

LEMMA ProjectionBoardStep == PInv /\ [Next]_vars => [Board!Next]_Claims
<1> SUFFICES ASSUME PInv, [Next]_vars PROVE [Board!Next]_Claims
  OBVIOUS
<1>1. CASE [CoreNext]_coreVars
  BY <1>1, BoardStep DEF PInv
<1>2. ASSUME NEW d \in Dispatchers, Dispatch(d) \/ Crash(d) PROVE [Board!Next]_Claims
  <2>1. CASE UNCHANGED rows
    BY <2>1 DEF Claims, ClaimOf
  <2>2. ASSUME NEW a \in Appts, NEW row \in Row,
               ConstraintAllows(a, row), rows[a] # None, row.tech = rows[a].tech,
               rows' = [rows EXCEPT ![a] = row]
        PROVE  [Board!Next]_Claims
    BY <2>2, WriteIsBoardStep DEF PInv, ProjectionTypeOK, TypeOK
  <2> QED BY <1>2, <2>1, <2>2, DispatcherWrites
<1> QED BY <1>1, <1>2 DEF Next, vars

(* The table still implements the booking board when dispatchers write     *)
(* event ids and stale columns into it.                                    *)
THEOREM ProjectionImplementsBoard == Spec => ImplementsBoard
<1>1. Init => Board!Init
  BY BoardInitially DEF Init
<1> QED BY <1>1, ProjectionBoardStep, ProjectionInvariance, PTL
        DEF Spec, ImplementsBoard, Board!Spec

----------------------------------------------------------------------------
(* Whose events the rows and the entries name, and who cancelled.          *)

(* The log and the outbox tell of a cancellation of a.                     *)
Told(a) ==
  /\ \E i \in DOMAIN audits[a] : audits[a][i] = "CANCELLED"
  /\ \E t \in Txns : outbox[t] # None /\ outbox[t].op = "DELETE" /\ outbox[t].appt = a

(* A copy being booked.                                                    *)
Drafts(x) == x.phase \in {"loaded", "mutated"} /\ x.op = "BOOK"

(* Rows, copies and entries name the event of their own appointment.       *)
NamesOwn ==
  /\ \A a \in Appts : rows[a] # None => rows[a].event \in {None, a}
  /\ \A t \in Txns : outbox[t] # None => outbox[t].event \in {None, outbox[t].appt}
  /\ \A t \in Txns : Saves(txns[t]) => txns[t].copy.event \in {None, txns[t].appt}
  /\ \A t \in Txns : Drafts(txns[t]) => txns[t].copy.event = None

(* So does the copy of a dispatcher, and the one an UPDATE sent named it.  *)
Named(w) ==
  /\ w.phase \in {"loaded", "returned"} => w.copy.event \in {None, outbox[w.entry].appt}
  /\ w.phase = "returned" /\ outbox[w.entry].op = "UPDATE" => w.copy.event # None
  /\ w.phase = "reread" => w.copy.event = outbox[w.entry].appt

Names == NamesOwn /\ \A d \in Dispatchers : Named(disp[d])

(* The copy of a dispatcher is of the row its entry is about, and that it  *)
(* is cancelled is no news.                                                *)
OfItsEntry(w) ==
  /\ Named(w)
  /\ w.phase \in {"loaded", "returned", "reread"} /\ ~Active(w.copy) =>
       Told(outbox[w.entry].appt)

(* An appointment is booked, and its CREATE enqueued, once.                *)
CreatedOnce ==
  /\ \A a \in Appts : rows[a] = None => events[a] = None
  /\ \A t, u \in Txns :
       /\ outbox[t] # None /\ outbox[t].op = "CREATE"
       /\ outbox[u] # None /\ outbox[u].op = "CREATE"
       /\ outbox[t].appt = outbox[u].appt
       => t = u

OInv ==
  /\ PInv
  /\ CancelledIsProjected
  /\ NamesOwn
  /\ \A d \in Dispatchers : OfItsEntry(disp[d])
  /\ CreatedOnce

(* The dispatcher works on an entry of a.                                  *)
Handles(w, a) == Holding(w) /\ outbox[w.entry].appt = a

Open(t) == outbox[t] # None /\ outbox[t].status # "PROCESSED"

(* Until the CREATE of a is settled.                                       *)
Creating(a) == \E e \in EntriesOf(a) : outbox[e].op = "CREATE" /\ Open(e)

(* The row carries no event id, so every other entry of a fails, and until *)
(* there is one the row is what was booked.                                *)
Unlinked(a) ==
  /\ rows[a].event = None
  /\ \A t \in Txns : Saves(txns[t]) /\ txns[t].appt = a => txns[t].copy.event = None
  /\ \A t \in EntriesOf(a) : Open(t)
  /\ \A d \in Dispatchers : Handles(disp[d], a) =>
       /\ disp[d].phase \in {"loaded", "returned"} => disp[d].copy.event = None
       /\ disp[d].phase = "reread" => disp[d].basis.event = None
  /\ \A e \in Txns : EntriesOf(a) = {e} =>
       /\ events[a] \in {None, Body(rows[a])}
       /\ \A d \in Dispatchers : Handles(disp[d], a) =>
            /\ disp[d].phase \in {"loaded", "returned", "reread"} =>
                 Body(disp[d].copy) = Body(rows[a])
            /\ disp[d].phase = "reread" => Body(disp[d].basis) = Body(rows[a])

(* An entry of a will bring the row to the calendar as it then is.         *)
Ahead(a) ==
  \E t \in EntriesOf(a) :
    /\ Open(t)
    /\ \A d \in Dispatchers :
         disp[d].entry = t => disp[d].phase \notin {"loaded", "returned", "reread"}

(* The dispatcher is about to send the row of a as it is.                  *)
Sends(w, a) ==
  Handles(w, a) /\ w.phase = "loaded" /\ w.copy.event = rows[a].event /\ Body(w.copy) = Body(rows[a])

Linked(a) ==
  \/ Ahead(a)
  \/ \E d \in Dispatchers : Sends(disp[d], a)
  \/ Mirrors(a) /\ \A d \in Dispatchers : Handles(disp[d], a) => disp[d].phase # "loaded"

MInv ==
  /\ OInv
  /\ \A a \in Appts : NeverCancelled(a) => IF Creating(a) THEN Unlinked(a) ELSE Linked(a)

----------------------------------------------------------------------------
(* Where the copies and the rows of the requests come from.                *)

(* A request keeps the event id of its copy, which is that of the row it   *)
(* loaded, or none when it books.                                          *)
LEMMA CopiesComeFromRows ==
  ASSUME LInv, [CoreNext]_coreVars, NEW u \in Txns
  PROVE  /\ Saves(txns'[u]) =>
              \/ /\ Saves(txns[u])
                 /\ txns'[u].appt = txns[u].appt /\ txns'[u].copy.event = txns[u].copy.event
              \/ /\ txns'[u].appt \in Appts /\ rows[txns'[u].appt] # None
                 /\ txns'[u].copy.event = rows[txns'[u].appt].event
         /\ Drafts(txns'[u]) =>
              \/ Drafts(txns[u]) /\ txns'[u].copy.event = txns[u].copy.event
              \/ txns'[u].copy.event = None
<1> DEFINE Kept(x, y) == /\ Saves(y) => Saves(x) /\ y.appt = x.appt /\ y.copy.event = x.copy.event
                         /\ Drafts(y) => Drafts(x) /\ y.copy.event = x.copy.event
           Read(y) == /\ Saves(y) => /\ y.appt \in Appts /\ rows[y.appt] # None
                                     /\ y.copy.event = rows[y.appt].event
                      /\ Drafts(y) => y.copy.event = None
<1>0. /\ txns \in [Txns -> Txn] /\ rows \in [Appts -> Row \cup {None}]
      /\ \A t \in Txns : WellFormed(txns[t])
  BY DEF LInv, IInv, TypeOK, Grounded
<1>1. ASSUME txns'[u] = txns[u] PROVE Kept(txns[u], txns'[u])
  BY <1>1
<1>2. ASSUME NEW t \in Txns, Request(t)
      PROVE  \/ txns'[u] = txns[u]
             \/ Kept(txns[u], txns'[u])
             \/ Read(txns'[u])
  <2>0. CASE u # t
    BY <1>2, <2>0, <1>0 DEF Request, BookLoad, BookCheck, BookCommit, RescheduleLoad,
         RescheduleCheck, CancelLoad, AddDetailsLoad, SaveReread, SaveCommit, Rollback, Begin
  <2>1. ASSUME NEW c \in Calls, NEW k \in Techs, NEW r \in Ranges, BookLoad(t, c, k, r), u = t
        PROVE  Read(txns'[u])
    BY <1>0, <2>1 DEF BookLoad, Begin, Saves, Drafts, NewRow
  <2>2. ASSUME NEW a \in Appts, BookCheck(t, a), u = t PROVE Kept(txns[u], txns'[u])
    <3>1. txns[t] \in Txn /\ txns[t].copy \in Row /\ txns[t].phase = "loaded" /\ txns[t].op = "BOOK"
      BY <1>0, <2>2 DEF BookCheck, WellFormed
    <3>2. txns'[t] = [txns[t] EXCEPT !.phase = "mutated", !.appt = a, !.copy.updated = clock]
      BY <1>0, <2>2 DEF BookCheck
    <3>3. txns'[t].op = "BOOK" /\ txns'[t].copy.event = txns[t].copy.event
      BY <3>1, <3>2 DEF Txn, Row
    <3> QED BY <2>2, <3>1, <3>3 DEF Saves, Drafts
  <2>3. ASSUME NEW a \in Appts, NEW r \in Ranges, RescheduleLoad(t, a, r), u = t
        PROVE  Read(txns'[u])
    BY <1>0, <2>3 DEF RescheduleLoad, Begin, Saves, Drafts
  <2>4. ASSUME RescheduleCheck(t), u = t PROVE Kept(txns[u], txns'[u])
    <3>1. txns[t] \in Txn /\ txns[t].copy \in Row /\ txns[t].phase = "loaded"
          /\ txns[t].op = "RESCHEDULE"
      BY <1>0, <2>4 DEF RescheduleCheck, WellFormed
    <3>2. txns'[t] = [txns[t] EXCEPT !.phase = "mutated",
                                     !.copy = Rescheduled(txns[t].copy, txns[t].want, clock)]
      BY <1>0, <2>4 DEF RescheduleCheck
    <3>3. /\ txns'[t].op = "RESCHEDULE" /\ txns'[t].appt = txns[t].appt
          /\ txns'[t].copy = Rescheduled(txns[t].copy, txns[t].want, clock)
      BY <3>1, <3>2 DEF Txn
    <3>4. txns'[t].copy.event = txns[t].copy.event
      BY <3>1, <3>3 DEF Rescheduled, Row
    <3> QED BY <2>4, <3>1, <3>3, <3>4 DEF Saves, Drafts
  <2>5. ASSUME NEW a \in Appts, CancelLoad(t, a), u = t PROVE Read(txns'[u])
    <3>1. rows[a] \in Row /\ rows[a] # None
      BY <1>0, <2>5 DEF CancelLoad
    <3>2. Cancelled(rows[a], clock).event = rows[a].event
      BY <3>1 DEF Cancelled, Row
    <3> QED BY <1>0, <2>5, <3>1, <3>2 DEF CancelLoad, Begin, Saves, Drafts
  <2>6. ASSUME NEW a \in Appts, NEW text \in Texts, AddDetailsLoad(t, a, text), u = t
        PROVE  Read(txns'[u])
    <3>1. rows[a] \in Row /\ rows[a] # None
      BY <1>0, <2>6 DEF AddDetailsLoad
    <3>2. Detailed(rows[a], text, clock).event = rows[a].event
      BY <3>1 DEF Detailed, Row
    <3> QED BY <1>0, <2>6, <3>1, <3>2 DEF AddDetailsLoad, Begin, Saves, Drafts
  <2>7. ASSUME SaveReread(t), u = t PROVE Kept(txns[u], txns'[u])
    <3>1. txns[t] \in Txn /\ txns[t].phase = "mutated" /\ txns[t].op # "BOOK"
      BY <1>0, <2>7 DEF SaveReread
    <3>2. txns'[t] = [txns[t] EXCEPT !.phase = "reread", !.basis = rows[txns[t].appt]]
      BY <1>0, <2>7 DEF SaveReread
    <3>3. txns'[t].op = txns[t].op /\ txns'[t].appt = txns[t].appt /\ txns'[t].copy = txns[t].copy
      BY <3>1, <3>2 DEF Txn
    <3> QED BY <2>7, <3>1, <3>3 DEF Saves, Drafts
  <2>8. ASSUME BookCommit(t) \/ SaveCommit(t) \/ Rollback(t), u = t PROVE Read(txns'[u])
    BY <1>0, <2>8 DEF BookCommit, SaveCommit, Rollback, Unbound, Saves, Drafts
  <2> HIDE DEF Kept, Read
  <2> QED BY <1>2, <2>0, <2>1, <2>2, <2>3, <2>4, <2>5, <2>6, <2>7, <2>8 DEF Request
<1>3. ASSUME NEW c \in Calls, OpenServiceCall(c) PROVE txns'[u] = txns[u]
  BY <1>3 DEF OpenServiceCall
<1>4. ASSUME UNCHANGED coreVars PROVE txns'[u] = txns[u]
  BY <1>4 DEF coreVars
<1> HIDE DEF Kept, Read
<1>5. Kept(txns[u], txns'[u]) \/ Read(txns'[u])
  BY <1>1, <1>2, <1>3, <1>4 DEF CoreNext
<1> QED BY <1>5 DEF Kept, Read

(* What a commit writes: the copy of a booking, or the row with the time   *)
(* of the copy and the event id it has or the copy has.                    *)
LEMMA CommitsCopies ==
  ASSUME LInv, [CoreNext]_coreVars
  PROVE  \/ Inert
         \/ \E t \in Txns, row \in Row :
              /\ Commits(t, row) /\ Written(t, row)
              /\ IF txns[t].op = "BOOK"
                 THEN Books(txns[t]) /\ row.event = txns[t].copy.event
                 ELSE /\ Saves(txns[t])
                      /\ row.updated = txns[t].copy.updated
                      /\ row.event \in {txns[t].copy.event, rows[txns[t].appt].event}
<1>1. CASE Inert
  BY <1>1
<1>2. ASSUME NEW t \in Txns, NEW row \in Row, Commits(t, row), Written(t, row)
      PROVE  IF txns[t].op = "BOOK"
             THEN Books(txns[t]) /\ row.event = txns[t].copy.event
             ELSE /\ Saves(txns[t])
                  /\ row.updated = txns[t].copy.updated
                  /\ row.event \in {txns[t].copy.event, rows[txns[t].appt].event}
  <2>0. /\ Mutated(txns[t]) /\ txns[t].appt \in Appts /\ rows'[txns[t].appt] = row
        /\ row # rows[txns[t].appt] /\ outbox[t] = None /\ outbox'[t] # None
        /\ rows \in [Appts -> Row \cup {None}] /\ outbox \in [Txns -> Entry \cup {None}]
    BY <1>2, CommitTables DEF Written, LInv, IInv, TypeOK
  <2>1. BookCommit(t) \/ SaveCommit(t)
    <3>1. ASSUME NEW u \in Txns, BookCommit(u) \/ SaveCommit(u) PROVE u = t
      BY <2>0, <3>1 DEF BookCommit, SaveCommit
    <3>2. ASSUME NEW u \in Txns, Request(u), ~BookCommit(u), ~SaveCommit(u) PROVE FALSE
      BY <2>0, <3>2 DEF Request, BookLoad, BookCheck, RescheduleLoad, RescheduleCheck, CancelLoad,
              AddDetailsLoad, SaveReread, Rollback, Begin
    <3>3. ASSUME NEW c \in Calls, OpenServiceCall(c) PROVE FALSE
      BY <2>0, <3>3 DEF OpenServiceCall
    <3>4. ~UNCHANGED coreVars
      BY <2>0 DEF coreVars
    <3> QED BY <3>1, <3>2, <3>3, <3>4 DEF CoreNext
  <2>2. CASE BookCommit(t)
    <3>1. row = txns[t].copy /\ Books(txns[t])
      BY <2>0, <2>2 DEF BookCommit, Books
    <3> QED BY <3>1 DEF Books
  <2>3. CASE SaveCommit(t)
    <3>1. /\ txns[t].phase = "reread" /\ txns[t].op # "BOOK" /\ txns[t].copy \in Row
          /\ txns[t].basis \in Row /\ rows[txns[t].appt] \in Row
          /\ Merged(txns[t].copy, txns[t].basis, rows[txns[t].appt]).updated = txns[t].copy.updated
      BY <2>0, <2>3, CommitFacts DEF SaveCommit
    <3>2. row = Merged(txns[t].copy, txns[t].basis, rows[txns[t].appt])
      BY <2>0, <2>3 DEF SaveCommit
    <3>3. row.event \in {txns[t].copy.event, rows[txns[t].appt].event}
      BY <3>1, <3>2 DEF Merged, Column, Row
    <3> QED BY <3>1, <3>2, <3>3 DEF Saves
  <2> QED BY <2>1, <2>2, <2>3
<1> QED BY <1>1, <1>2, StepWrites

(* What the log and the outbox tell, they tell for good.                   *)
LEMMA TellingStays ==
  ASSUME NEW a \in Appts, Told(a), audits[a] \in Seq(AuditActions),
         audits'[a] = audits[a] \/ \E act \in AuditActions : audits'[a] = Append(audits[a], act),
         \A e \in Txns : outbox[e] # None =>
           /\ outbox'[e] # None
           /\ outbox'[e].op = outbox[e].op /\ outbox'[e].appt = outbox[e].appt
  PROVE  Told(a)'
<1>1. PICK i \in DOMAIN audits[a] : audits[a][i] = "CANCELLED"
  BY DEF Told
<1>2. i \in DOMAIN audits'[a] /\ audits'[a][i] = "CANCELLED"
  BY <1>1
<1> QED BY <1>2 DEF Told

(* The entry a dispatcher works on.                                        *)
LEMMA HeldEntry ==
  ASSUME PInv, NEW d \in Dispatchers, Holding(disp[d])
  PROVE  LET e == disp[d].entry
         IN  /\ e \in Txns /\ outbox[e] # None /\ outbox[e] \in Entry
             /\ outbox[e].status = "PENDING"
             /\ outbox[e].appt \in Appts /\ rows[outbox[e].appt] # None
             /\ rows[outbox[e].appt] \in Row
<1> DEFINE e == disp[d].entry
<1>1. e \in Txns /\ outbox[e] # None /\ outbox[e] \in Entry /\ outbox[e].status = "PENDING"
  BY DEF PInv, Sound, Pending, ProjectionTypeOK, TypeOK
<1>2. outbox[e].appt \in Appts /\ rows[outbox[e].appt] # None
  BY <1>1 DEF PInv, Honest, Entry
<1> QED BY <1>1, <1>2 DEF PInv, ProjectionTypeOK, TypeOK

(* Requests copy the event ids of the rows, and save them there.           *)
LEMMA RequestKeepsNames ==
  PInv /\ Names /\ [CoreNext]_coreVars /\ UNCHANGED projVars => Names'
<1> SUFFICES ASSUME PInv, Names, [CoreNext]_coreVars, UNCHANGED projVars PROVE Names'
  OBVIOUS
<1> USE DEF Names
<1>1. /\ LInv /\ UNCHANGED disp
      /\ rows \in [Appts -> Row \cup {None}] /\ outbox \in [Txns -> Entry \cup {None}]
      /\ \A t \in Txns : WellFormed(txns[t])
  BY DEF PInv, projVars, LInv, IInv, TypeOK, Grounded
<1>2. \A t \in Txns : Saves(txns'[t]) => txns'[t].copy.event \in {None, txns'[t].appt}
  BY <1>1, CopiesComeFromRows DEF NamesOwn
<1>3. \A t \in Txns : Drafts(txns'[t]) => txns'[t].copy.event = None
  BY <1>1, CopiesComeFromRows DEF NamesOwn, Drafts
<1>4. NamesOwn'
  <2>1. CASE Inert
    BY <1>1, <1>2, <1>3, <2>1 DEF Inert, NamesOwn, Drafts, Books
  <2>2. ASSUME NEW t \in Txns, NEW row \in Row, Commits(t, row), Written(t, row),
               IF txns[t].op = "BOOK"
               THEN Books(txns[t]) /\ row.event = txns[t].copy.event
               ELSE /\ Saves(txns[t])
                    /\ row.event \in {txns[t].copy.event, rows[txns[t].appt].event}
        PROVE  NamesOwn'
    <3> DEFINE a == txns[t].appt
    <3>1. /\ a \in Appts /\ rows'[a] = row /\ row # None
          /\ outbox[t] = None /\ outbox'[t] = Enqueued(t)
          /\ \A b \in Appts \ {a} : rows'[b] = rows[b]
          /\ \A u \in Txns \ {t} : outbox'[u] = outbox[u]
      BY <1>1, <2>2, CommitTables
    <3>2. /\ Enqueued(t).appt = a
          /\ Enqueued(t).event = IF txns[t].op = "CANCEL" THEN txns[t].copy.event ELSE None
      BY DEF Enqueued
    <3>3. row.event \in {None, a}
      BY <2>2, <3>1 DEF NamesOwn, Drafts, Books, Written
    <3>4. Enqueued(t).event \in {None, a}
      BY <2>2, <3>2 DEF NamesOwn
    <3> QED BY <1>2, <1>3, <3>1, <3>2, <3>3, <3>4 DEF NamesOwn, Drafts, Books
  <2> QED BY <1>1, <2>1, <2>2, CommitsCopies
<1>5. \A d \in Dispatchers : Named(disp[d])'
  <2> SUFFICES ASSUME NEW d \in Dispatchers PROVE Named(disp[d])'
    OBVIOUS
  <2>1. Named(disp[d]) /\ disp'[d] = disp[d]
    BY <1>1
  <2>2. Holding(disp[d]) =>
          disp[d].entry \in Txns /\ outbox'[disp[d].entry] = outbox[disp[d].entry]
    BY <1>1, RequestsOnlyAdd, HeldEntry
  <2> QED BY <2>1, <2>2 DEF Named, Holding
<1> QED BY <1>4, <1>5

LEMMA RequestKeepsOrigins ==
  OInv /\ [CoreNext]_coreVars /\ UNCHANGED projVars => OInv'
<1> SUFFICES ASSUME OInv, [CoreNext]_coreVars, UNCHANGED projVars PROVE OInv'
  OBVIOUS
<1> USE DEF OInv
<1>1. PInv' /\ CancelledIsProjected' /\ LInv /\ LInv' /\ Names'
  BY RequestStep, RequestKeepsNames, CancelledStep, LogInductive DEF PInv, Names, OfItsEntry
<1>2. /\ UNCHANGED <<events, disp, crashes>>
      /\ rows \in [Appts -> Row \cup {None}] /\ outbox \in [Txns -> Entry \cup {None}]
      /\ \A b \in Appts : audits[b] \in Seq(AuditActions)
      /\ \A t \in Txns : WellFormed(txns[t])
  BY <1>1 DEF projVars, LInv, IInv, TypeOK, Grounded
<1>3. /\ \A e \in Txns : outbox[e] # None => outbox'[e] = outbox[e]
      /\ \A b \in Appts : rows[b] # None => rows'[b] # None
  BY <1>1, RequestsOnlyAdd
<1>4. \A b \in Appts : audits'[b] = audits[b]
                       \/ \E act \in AuditActions : audits'[b] = Append(audits[b], act)
  BY <1>1, AuditStep DEF AuditedWithChange, coreVars
<1>5. \A b \in Appts : Told(b) => Told(b)'
  BY <1>2, <1>3, <1>4, TellingStays
<1>6. \A d \in Dispatchers : OfItsEntry(disp[d])'
  <2> SUFFICES ASSUME NEW d \in Dispatchers PROVE OfItsEntry(disp[d])'
    OBVIOUS
  <2>1. OfItsEntry(disp[d]) /\ disp'[d] = disp[d] /\ Sound(disp[d]) /\ Named(disp[d])'
    BY <1>1, <1>2 DEF PInv, Names
  <2>2. Holding(disp[d]) =>
          /\ disp[d].entry \in Txns /\ outbox'[disp[d].entry] = outbox[disp[d].entry]
          /\ outbox[disp[d].entry].appt \in Appts
    BY <1>2, <1>3, <2>1 DEF Sound, Pending, Entry
  <2> QED BY <1>5, <2>1, <2>2 DEF OfItsEntry, Holding
<1>7. CreatedOnce'
  <2>1. CASE Inert
    BY <1>2, <2>1 DEF Inert, CreatedOnce
  <2>2. ASSUME NEW t \in Txns, NEW row \in Row, Commits(t, row), Written(t, row)
        PROVE  CreatedOnce'
    <3> DEFINE a == txns[t].appt
    <3>1. /\ a \in Appts /\ rows'[a] = row /\ row # None
          /\ outbox[t] = None /\ outbox'[t] = Enqueued(t)
          /\ \A b \in Appts \ {a} : rows'[b] = rows[b]
          /\ \A u \in Txns \ {t} : outbox'[u] = outbox[u]
      BY <1>1, <2>2, CommitTables
    <3>2. Enqueued(t).appt = a /\ Enqueued(t).op = OutboxOp(txns[t].op)
      BY DEF Enqueued
    <3>3. \A u \in Txns : outbox[u] # None => outbox[u].appt \in Appts /\ rows[outbox[u].appt] # None
      BY <1>2 DEF PInv, Honest, Entry
    <3>4. Enqueued(t).op = "CREATE" => rows[a] = None
      BY <2>2, <3>2 DEF OutboxOp, Written
    <3>5. \A b \in Appts : rows'[b] = None => events'[b] = None
      BY <1>2, <1>3, <3>1 DEF CreatedOnce
    <3> HIDE DEF a
    <3>6. ASSUME NEW u \in Txns, NEW v \in Txns,
                 outbox'[u] # None, outbox'[u].op = "CREATE",
                 outbox'[v] # None, outbox'[v].op = "CREATE",
                 outbox'[u].appt = outbox'[v].appt
          PROVE  u = v
      BY <3>1, <3>2, <3>3, <3>4, <3>6 DEF CreatedOnce
    <3> QED BY <3>5, <3>6 DEF CreatedOnce
  <2> QED BY <1>1, <2>1, <2>2, StepWrites
<1> QED BY <1>1, <1>6, <1>7 DEF Names

----------------------------------------------------------------------------
(* The turns of a dispatcher: how a step takes its local state from w to x.*)

Idle(x) == x.phase \in {"asleep", "claiming"} /\ x.entry = None /\ x.copy = None

(* A run begins or ends, or the transaction is given up.                   *)
Rests(x) == Idle(x) /\ UNCHANGED <<rows, outbox, events>>

Takes(w, x) == /\ w.phase = "claiming" /\ x.phase = "claimed"
               /\ x.entry \in Txns /\ Pending(x.entry)
               /\ UNCHANGED <<rows, outbox, events>>

Loads(w, x) == /\ w.phase = "claimed" /\ x.phase = "loaded" /\ x.entry = w.entry
               /\ x.copy = rows[outbox[w.entry].appt]
               /\ UNCHANGED <<rows, outbox, events>>

Raises(d, w, x) == /\ w.phase \in {"claimed", "loaded"}
                   /\ x.phase = "raised" /\ x.entry = w.entry
                   /\ (w.phase = "loaded" /\ Effect(d)) \/ UNCHANGED events
                   /\ UNCHANGED <<rows, outbox>>

Returns(d, w, x) == /\ w.phase = "loaded" /\ x.phase = "returned"
                    /\ x.entry = w.entry /\ x.copy = w.copy
                    /\ Effect(d) /\ UNCHANGED <<rows, outbox>>

Fails(w, x) == /\ Holding(w) /\ Idle(x)
               /\ outbox' = [outbox EXCEPT ![w.entry] = Failed(outbox[w.entry])]
               /\ UNCHANGED <<rows, events>>

Settles(w, x) == /\ w.phase = "returned" /\ outbox[w.entry].op # "CREATE" /\ Idle(x)
                 /\ outbox' = [outbox EXCEPT ![w.entry] = Processed(outbox[w.entry])]
                 /\ UNCHANGED <<rows, events>>

Rereads(w, x) == /\ w.phase = "returned" /\ outbox[w.entry].op = "CREATE"
                 /\ x.phase = "reread" /\ x.entry = w.entry
                 /\ x.copy = [w.copy EXCEPT !.event = outbox[w.entry].appt]
                 /\ x.basis = rows[outbox[w.entry].appt]
                 /\ UNCHANGED <<rows, outbox, events>>

Links(w, x) ==
  LET a == outbox[w.entry].appt IN
  /\ w.phase = "reread" /\ Idle(x)
  /\ rows' = [rows EXCEPT ![a] = Merged(w.copy, w.basis, rows[a])]
  /\ outbox' = [outbox EXCEPT ![w.entry] = Processed(outbox[w.entry])]
  /\ UNCHANGED events

LEMMA RestIsIdle ==
  ASSUME NEW phase \in {"asleep", "claiming"} PROVE Rest(phase) \in Worker /\ Idle(Rest(phase))
BY RestIsWorker DEF Idle

LEMMA Turns ==
  ASSUME PInv, NEW d \in Dispatchers, Dispatch(d) \/ Crash(d)
  PROVE  \E w, x \in Worker :
           /\ w = disp[d] /\ disp' = [disp EXCEPT ![d] = x]
           /\ UNCHANGED <<calls, audits, txns, clock>>
           /\ \/ Rests(x) \/ Takes(w, x) \/ Loads(w, x) \/ Raises(d, w, x) \/ Returns(d, w, x)
              \/ Fails(w, x) \/ Settles(w, x) \/ Rereads(w, x) \/ Links(w, x)
<1>0. /\ disp \in [Dispatchers -> Worker] /\ Sound(disp[d])
      /\ outbox \in [Txns -> Entry \cup {None}] /\ rows \in [Appts -> Row \cup {None}]
  BY DEF PInv, ProjectionTypeOK, TypeOK
<1> PICK w \in Worker : w = disp[d]
  BY <1>0
<1> SUFFICES \E x \in Worker :
               /\ disp' = [disp EXCEPT ![d] = x] /\ UNCHANGED <<calls, audits, txns, clock>>
               /\ \/ Rests(x) \/ Takes(w, x) \/ Loads(w, x) \/ Raises(d, w, x) \/ Returns(d, w, x)
                  \/ Fails(w, x) \/ Settles(w, x) \/ Rereads(w, x) \/ Links(w, x)
  OBVIOUS
<1>1. CASE StartRun(d) \/ EndRun(d) \/ Crash(d)
  BY <1>1, RestIsIdle DEF StartRun, EndRun, Crash, Rests, coreVars
<1>2. CASE Claim(d)
  <2>1. PICK u \in Txns : /\ Oldest(u)
                          /\ disp' = [disp EXCEPT ![d].phase = "claimed", ![d].entry = u]
    BY <1>2 DEF Claim
  <2>2. PICK x \in Worker : x = [w EXCEPT !.phase = "claimed", !.entry = u]
    BY DEF Worker
  <2>3. x.phase = "claimed" /\ x.entry = u /\ disp' = [disp EXCEPT ![d] = x]
    BY <1>0, <2>1, <2>2 DEF Worker
  <2> QED BY <1>2, <2>1, <2>3 DEF Claim, Takes, Oldest, Claimable, coreVars
<1>3. CASE Load(d)
  <2>0. w.phase = "claimed" /\ UNCHANGED <<coreVars, events>>
    BY <1>3 DEF Load
  <2>1. CASE disp' = [disp EXCEPT ![d].phase = "raised"]
    <3>1. PICK x \in Worker : x = [w EXCEPT !.phase = "raised"]
      BY DEF Worker
    <3>2. x.phase = "raised" /\ x.entry = w.entry /\ disp' = [disp EXCEPT ![d] = x]
      BY <1>0, <2>1, <3>1 DEF Worker
    <3> QED BY <2>0, <3>2 DEF Raises, coreVars
  <2>2. CASE disp' = [disp EXCEPT ![d].phase = "loaded", ![d].copy = rows[outbox[w.entry].appt]]
    <3>0. PICK row \in Row : row = rows[outbox[w.entry].appt]
      <4>1. w.entry \in Txns /\ outbox[w.entry] \in Entry /\ outbox[w.entry] # None
        BY <1>0, <2>0 DEF Sound, Holding, Pending
      <4>2. outbox[w.entry].appt \in Appts /\ rows[outbox[w.entry].appt] # None
        BY <4>1 DEF PInv, Honest, Entry
      <4> QED BY <1>0, <4>2
    <3>1. PICK x \in Worker : x = [w EXCEPT !.phase = "loaded", !.copy = row]
      BY DEF Worker
    <3>2. /\ x.phase = "loaded" /\ x.entry = w.entry /\ x.copy = row
          /\ disp' = [disp EXCEPT ![d] = x]
      BY <1>0, <2>2, <3>0, <3>1 DEF Worker
    <3> QED BY <2>0, <3>0, <3>2 DEF Loads, coreVars
  <2> QED BY <1>3, <2>1, <2>2 DEF Load
<1>4. CASE SkipUpdate(d) \/ FailEntry(d)
  <2>1. Holding(w) /\ MarkFailed(d)
    BY <1>4 DEF SkipUpdate, FailEntry, Holding
  <2> QED BY <2>1, RestIsIdle DEF MarkFailed, Fails
<1>5. CASE CallReturns(d)
  <2>1. PICK x \in Worker : x = [w EXCEPT !.phase = "returned"]
    BY DEF Worker
  <2>2. /\ x.phase = "returned" /\ x.entry = w.entry /\ x.copy = w.copy
        /\ disp' = [disp EXCEPT ![d] = x]
    BY <1>0, <1>5, <2>1 DEF CallReturns, Worker
  <2> QED BY <1>5, <2>2 DEF CallReturns, Returns, coreVars
<1>6. CASE CallRaises(d)
  <2>1. PICK x \in Worker : x = [w EXCEPT !.phase = "raised"]
    BY DEF Worker
  <2>2. x.phase = "raised" /\ x.entry = w.entry /\ disp' = [disp EXCEPT ![d] = x]
    BY <1>0, <1>6, <2>1 DEF CallRaises, Worker
  <2> QED BY <1>6, <2>2 DEF CallRaises, Raises, coreVars
<1>7. CASE SettleEntry(d)
  BY <1>7, RestIsIdle DEF SettleEntry, Settles
<1>8. CASE LinkReread(d)
  <2>1. /\ w.phase = "returned" /\ w.entry \in Txns /\ w.copy \in Row
        /\ outbox[w.entry] # None /\ outbox[w.entry] \in Entry
    BY <1>0, <1>8 DEF LinkReread, Sound, Holding, Pending
  <2>2. PICK a \in Appts : a = outbox[w.entry].appt
    BY <2>1 DEF Entry
  <2>3. PICK row \in Row : row = rows[a]
    BY <1>0, <2>1, <2>2 DEF PInv, Honest
  <2>4. PICK linked \in Row : linked = [w.copy EXCEPT !.event = a]
    BY <2>1 DEF Row
  <2>5. PICK x \in Worker : x = [w EXCEPT !.phase = "reread", !.copy = linked, !.basis = row]
    BY DEF Worker
  <2>6. x.phase = "reread" /\ x.entry = w.entry /\ x.copy = linked /\ x.basis = row
    BY <2>5 DEF Worker
  <2>7. disp' = [disp EXCEPT ![d] = x]
    <3>1. disp' = [disp EXCEPT ![d].phase = "reread", ![d].copy.event = a, ![d].basis = row]
      BY <1>8, <2>2, <2>3 DEF LinkReread
    <3> QED BY <1>0, <2>4, <2>5, <3>1
  <2> QED BY <1>8, <2>1, <2>2, <2>3, <2>4, <2>6, <2>7 DEF LinkReread, Rereads, coreVars
<1>9. CASE LinkCommit(d)
  BY <1>9, RestIsIdle DEF LinkCommit, Links, Rests
<1> QED BY <1>1, <1>2, <1>3, <1>4, <1>5, <1>6, <1>7, <1>8, <1>9 DEF Dispatch

(* The call of an entry changes the event of its own appointment: an       *)
(* UPDATE sends the copy, a CREATE does unless there is an event.          *)
LEMMA EffectIsOwn ==
  ASSUME PInv, NamesOwn, NEW d \in Dispatchers, Named(disp[d]),
         disp[d].phase = "loaded", Effect(d)
  PROVE  LET entry == outbox[disp[d].entry]
             a     == entry.appt
             body  == Body(disp[d].copy)
         IN  /\ \A b \in Appts \ {a} : events'[b] = events[b]
             /\ entry.op = "UPDATE" => disp[d].copy.event # None /\ events'[a] = body
             /\ entry.op = "CREATE" => events'[a] = IF events[a] = None THEN body ELSE events[a]
<1> DEFINE e == disp[d].entry
           copy == disp[d].copy
           a == outbox[e].appt
<1>1. /\ e \in Txns /\ outbox[e] # None /\ outbox[e] \in Entry /\ a \in Appts
      /\ copy.event \in {None, a} /\ outbox[e].event \in {None, a}
      /\ events \in [Appts -> Event \cup {None}]
  BY HeldEntry DEF NamesOwn, Named, PInv, ProjectionTypeOK, Holding
<1>2. \/ outbox[e].op = "CREATE" /\ CreateEvent(a, copy)
      \/ outbox[e].op = "UPDATE" /\ copy.event # None /\ UpdateEvent(copy.event, copy)
      \/ outbox[e].op = "DELETE" /\ outbox[e].event # None /\ DeleteEvent(outbox[e].event)
      \/ outbox[e].op = "DELETE" /\ UNCHANGED events
  BY DEF Effect
<1> HIDE DEF a, copy, e
<1>3. /\ \A b \in Appts \ {a} : events'[b] = events[b]
      /\ outbox[e].op = "UPDATE" => copy.event # None /\ events'[a] = Body(copy)
      /\ outbox[e].op = "CREATE" => events'[a] = IF events[a] = None THEN Body(copy) ELSE events[a]
  <2>1. CASE outbox[e].op = "CREATE" /\ CreateEvent(a, copy)
    BY <1>1, <2>1 DEF CreateEvent
  <2>2. CASE outbox[e].op = "UPDATE" /\ copy.event # None /\ UpdateEvent(copy.event, copy)
    BY <1>1, <2>2 DEF UpdateEvent
  <2>3. CASE outbox[e].op = "DELETE" /\ outbox[e].event # None /\ DeleteEvent(outbox[e].event)
    BY <1>1, <2>3 DEF DeleteEvent
  <2> QED BY <1>2, <2>1, <2>2, <2>3
<1> QED BY <1>3 DEF a, copy, e

(* A turn keeps what the entries say but their status and attempts, and    *)
(* only the status of the entry the dispatcher holds changes.              *)
LEMMA TurnsKeepEntries ==
  ASSUME PInv, NEW d \in Dispatchers, NEW w \in Worker, NEW x \in Worker, w = disp[d],
         \/ UNCHANGED outbox
         \/ /\ Holding(w)
            /\ outbox' \in {[outbox EXCEPT ![w.entry] = Failed(outbox[w.entry])],
                            [outbox EXCEPT ![w.entry] = Processed(outbox[w.entry])]}
  PROVE  /\ \A e \in Txns : outbox[e] = None <=> outbox'[e] = None
         /\ \A e \in Txns : outbox[e] # None =>
              /\ outbox'[e].op = outbox[e].op /\ outbox'[e].appt = outbox[e].appt
              /\ outbox'[e].event = outbox[e].event
         /\ \A e \in Txns : outbox'[e] # outbox[e] => Holding(w) /\ e = w.entry
<1>0. outbox \in [Txns -> Entry \cup {None}] /\ None \notin Entry
  BY NoneAssumption DEF PInv, ProjectionTypeOK, TypeOK
<1>1. CASE UNCHANGED outbox
  BY <1>1
<1>2. CASE Holding(w) /\ outbox' = [outbox EXCEPT ![w.entry] = Failed(outbox[w.entry])]
  <2>1. w.entry \in Txns /\ outbox[w.entry] \in Entry
    BY <1>2, HeldEntry
  <2> QED BY <1>0, <1>2, <2>1, SettledIsEntry
<1>3. CASE Holding(w) /\ outbox' = [outbox EXCEPT ![w.entry] = Processed(outbox[w.entry])]
  <2>1. w.entry \in Txns /\ outbox[w.entry] \in Entry
    BY <1>3, HeldEntry
  <2> QED BY <1>0, <1>3, <2>1, SettledIsEntry
<1> QED BY <1>1, <1>2, <1>3

(* Dispatchers load the event ids of the rows and write back their own.    *)
LEMMA DispatcherKeepsNames ==
  ASSUME PInv, Names, NEW d \in Dispatchers, Dispatch(d) \/ Crash(d)
  PROVE  Names'
<1> USE DEF Names
<1>0. /\ disp \in [Dispatchers -> Worker] /\ rows \in [Appts -> Row \cup {None}]
      /\ outbox \in [Txns -> Entry \cup {None}]
  BY DEF PInv, ProjectionTypeOK, TypeOK
<1>1. PICK w, x \in Worker :
        /\ w = disp[d] /\ disp' = [disp EXCEPT ![d] = x]
        /\ UNCHANGED <<calls, audits, txns, clock>>
        /\ \/ Rests(x) \/ Takes(w, x) \/ Loads(w, x) \/ Raises(d, w, x) \/ Returns(d, w, x)
           \/ Fails(w, x) \/ Settles(w, x) \/ Rereads(w, x) \/ Links(w, x)
  BY Turns
<1>2. /\ \A e \in Txns : outbox[e] = None <=> outbox'[e] = None
      /\ \A e \in Txns : outbox[e] # None =>
           /\ outbox'[e].op = outbox[e].op /\ outbox'[e].appt = outbox[e].appt
           /\ outbox'[e].event = outbox[e].event
  <2>1. \/ UNCHANGED outbox
        \/ /\ Holding(w)
           /\ outbox' \in {[outbox EXCEPT ![w.entry] = Failed(outbox[w.entry])],
                           [outbox EXCEPT ![w.entry] = Processed(outbox[w.entry])]}
    BY <1>1 DEF Rests, Takes, Loads, Raises, Returns, Fails, Settles, Rereads, Links, Holding
  <2> QED BY <1>1, <2>1, TurnsKeepEntries
<1>3. Holding(w) =>
        /\ w.entry \in Txns /\ outbox[w.entry] # None
        /\ outbox[w.entry].appt \in Appts /\ rows[outbox[w.entry].appt] # None
        /\ rows[outbox[w.entry].appt] \in Row
        /\ outbox'[w.entry].op = outbox[w.entry].op
        /\ outbox'[w.entry].appt = outbox[w.entry].appt
  BY <1>1, <1>2, HeldEntry
<1>4. Named(w) /\ Sound(w)
  BY <1>1 DEF PInv
<1>5. Named(x)'
  <2>1. CASE x.phase \in {"asleep", "claiming", "claimed", "raised"}
    BY <2>1 DEF Named
  <2>2. CASE Loads(w, x)
    BY <1>3, <2>2 DEF Loads, NamesOwn, Named, Holding
  <2>3. CASE Returns(d, w, x)
    <3>1. outbox[w.entry].op = "UPDATE" => w.copy.event # None
      BY <1>1, <2>3 DEF Returns, Effect
    <3> QED BY <1>3, <1>4, <2>3, <3>1 DEF Returns, Named, Holding
  <2>4. CASE Rereads(w, x)
    <3>1. w.copy \in Row
      BY <1>4, <2>4 DEF Rereads, Sound
    <3>2. x.copy.event = outbox[w.entry].appt
      BY <2>4, <3>1 DEF Rereads, Row
    <3> QED BY <1>3, <2>4, <3>2 DEF Rereads, Named, Holding
  <2> QED BY <1>1, <2>1, <2>2, <2>3, <2>4
          DEF Rests, Takes, Raises, Fails, Settles, Links, Idle
<1>6. ASSUME NEW c \in Dispatchers PROVE Named(disp[c])'
  <2>1. CASE c = d
    BY <1>0, <1>1, <1>5, <2>1 DEF Named
  <2>2. CASE c # d
    <3>1. disp'[c] = disp[c] /\ Named(disp[c])
      BY <1>0, <1>1, <2>2
    <3>2. Holding(disp[c]) =>
            /\ disp[c].entry \in Txns
            /\ outbox'[disp[c].entry].op = outbox[disp[c].entry].op
            /\ outbox'[disp[c].entry].appt = outbox[disp[c].entry].appt
      BY <1>2, HeldEntry
    <3> QED BY <3>1, <3>2 DEF Named, Holding
  <2> QED BY <2>1, <2>2
<1>7. ASSUME NEW b \in Appts, rows'[b] # None PROVE rows'[b].event \in {None, b}
  <2>1. CASE Links(w, x)
    <3> DEFINE a == outbox[w.entry].appt
               new == Merged(w.copy, w.basis, rows[a])
    <3>1. /\ w.phase = "reread" /\ Holding(w) /\ w.copy \in Row /\ w.basis \in Row
          /\ rows' = [rows EXCEPT ![a] = new]
      BY <1>4, <2>1 DEF Links, Holding, Sound
    <3>2. new.event \in {w.copy.event, rows[a].event}
      BY <1>3, <3>1 DEF Merged, Column, Row
    <3>3. new.event \in {None, a}
      BY <1>3, <1>4, <3>1, <3>2 DEF Named, NamesOwn
    <3> HIDE DEF a, new
    <3> QED BY <1>0, <1>7, <3>1, <3>3 DEF NamesOwn
  <2>2. CASE UNCHANGED rows
    BY <1>7, <2>2 DEF NamesOwn
  <2> QED BY <1>1, <2>1, <2>2 DEF Rests, Takes, Loads, Raises, Returns, Fails, Settles, Rereads
<1>8. NamesOwn'
  BY <1>1, <1>2, <1>7 DEF NamesOwn
<1> QED BY <1>6, <1>8

LEMMA DispatcherKeepsOrigins ==
  ASSUME OInv, NEW d \in Dispatchers, Dispatch(d) \/ Crash(d)
  PROVE  OInv'
<1> USE DEF OInv
<1>0. /\ disp \in [Dispatchers -> Worker] /\ rows \in [Appts -> Row \cup {None}]
      /\ outbox \in [Txns -> Entry \cup {None}]
      /\ \A b \in Appts : audits[b] \in Seq(AuditActions)
      /\ events \in [Appts -> Event \cup {None}]
  BY DEF PInv, ProjectionTypeOK, TypeOK
<1>1. PInv' /\ Names'
  BY DispatcherStep, DispatcherKeepsNames DEF Names, OfItsEntry
<1>2. PICK w, x \in Worker :
        /\ w = disp[d] /\ disp' = [disp EXCEPT ![d] = x]
        /\ UNCHANGED <<calls, audits, txns, clock>>
        /\ \/ Rests(x) \/ Takes(w, x) \/ Loads(w, x) \/ Raises(d, w, x) \/ Returns(d, w, x)
           \/ Fails(w, x) \/ Settles(w, x) \/ Rereads(w, x) \/ Links(w, x)
  BY Turns
<1>3. /\ \A e \in Txns : outbox[e] = None <=> outbox'[e] = None
      /\ \A e \in Txns : outbox[e] # None =>
           /\ outbox'[e].op = outbox[e].op /\ outbox'[e].appt = outbox[e].appt
           /\ outbox'[e].event = outbox[e].event
  <2>1. \/ UNCHANGED outbox
        \/ /\ Holding(w)
           /\ outbox' \in {[outbox EXCEPT ![w.entry] = Failed(outbox[w.entry])],
                           [outbox EXCEPT ![w.entry] = Processed(outbox[w.entry])]}
    BY <1>2 DEF Rests, Takes, Loads, Raises, Returns, Fails, Settles, Rereads, Links, Holding
  <2> QED BY <1>2, <2>1, TurnsKeepEntries
<1>4. \A b \in Appts : Told(b) => Told(b)'
  BY <1>0, <1>2, <1>3, TellingStays
<1>5. Holding(w) =>
        /\ w.entry \in Txns /\ outbox[w.entry] # None /\ outbox[w.entry] \in Entry
        /\ outbox[w.entry].appt \in Appts /\ rows[outbox[w.entry].appt] # None
        /\ rows[outbox[w.entry].appt] \in Row
        /\ outbox'[w.entry].op = outbox[w.entry].op
        /\ outbox'[w.entry].appt = outbox[w.entry].appt
  BY <1>2, <1>3, HeldEntry
<1>6. OfItsEntry(w) /\ Sound(w)
  BY <1>2 DEF PInv
<1>7. x.phase \in {"loaded", "returned", "reread"} /\ ~Active(x.copy) =>
        Told(outbox[x.entry].appt)'
  <2>1. CASE Loads(w, x)
    <3>1. ~Active(x.copy) => Told(outbox[w.entry].appt)
      BY <1>5, <2>1 DEF Loads, CancelledIsProjected, Told, Holding
    <3> QED BY <1>4, <1>5, <2>1, <3>1 DEF Loads, Holding
  <2>2. CASE Returns(d, w, x)
    BY <1>4, <1>5, <1>6, <2>2 DEF Returns, OfItsEntry, Holding
  <2>3. CASE Rereads(w, x)
    <3>1. w.copy \in Row
      BY <1>6, <2>3 DEF Rereads, Sound
    <3>2. x.copy.status = w.copy.status
      BY <2>3, <3>1 DEF Rereads, Row
    <3> QED BY <1>4, <1>5, <1>6, <2>3, <3>2 DEF Rereads, OfItsEntry, Holding, Active
  <2> QED BY <1>2, <2>1, <2>2, <2>3
          DEF Rests, Takes, Raises, Fails, Settles, Links, Idle
<1>8. ASSUME NEW c \in Dispatchers PROVE OfItsEntry(disp[c])'
  <2>1. CASE c = d
    BY <1>0, <1>1, <1>2, <1>7, <2>1 DEF OfItsEntry, Names, Told
  <2>2. CASE c # d
    <3>1. disp'[c] = disp[c] /\ OfItsEntry(disp[c]) /\ Named(disp[c])'
      BY <1>0, <1>1, <1>2, <2>2 DEF Names
    <3>2. Holding(disp[c]) =>
            /\ disp[c].entry \in Txns /\ outbox[disp[c].entry].appt \in Appts
            /\ outbox'[disp[c].entry].op = outbox[disp[c].entry].op
            /\ outbox'[disp[c].entry].appt = outbox[disp[c].entry].appt
      BY <1>3, HeldEntry
    <3> QED BY <1>4, <3>1, <3>2 DEF OfItsEntry, Holding
  <2> QED BY <2>1, <2>2
<1>9. \/ UNCHANGED rows
      \/ \E a \in Appts, row \in Row :
           /\ rows[a] # None /\ rows' = [rows EXCEPT ![a] = row]
           /\ ~Active(row) => Told(a)
  <2>1. CASE Links(w, x)
    <3> DEFINE a == outbox[w.entry].appt
               new == Merged(w.copy, w.basis, rows[a])
    <3>1. /\ w.phase = "reread" /\ Holding(w) /\ w.copy \in Row /\ w.basis \in Row
          /\ rows' = [rows EXCEPT ![a] = new]
      BY <1>6, <2>1 DEF Links, Holding, Sound
    <3>2. new \in Row
      BY <1>5, <3>1, MergedIsRow
    <3>3. new.status \in {w.copy.status, rows[a].status}
      BY <1>5, <3>1 DEF Merged, Column, Row
    <3>4. ~Active(new) => Told(a)
      BY <1>5, <1>6, <3>1, <3>3 DEF OfItsEntry, CancelledIsProjected, Told, Active
    <3> HIDE DEF a, new
    <3> QED BY <1>5, <3>1, <3>2, <3>4 DEF a
  <2> QED BY <1>2, <2>1 DEF Rests, Takes, Loads, Raises, Returns, Fails, Settles, Rereads
<1>10. CancelledIsProjected' /\ \A b \in Appts : rows[b] = None <=> rows'[b] = None
  <2>1. CASE UNCHANGED rows
    BY <1>4, <2>1 DEF CancelledIsProjected, Told
  <2>2. ASSUME NEW a \in Appts, NEW row \in Row, rows[a] # None, rows' = [rows EXCEPT ![a] = row],
               ~Active(row) => Told(a)
        PROVE  CancelledIsProjected' /\ \A b \in Appts : rows[b] = None <=> rows'[b] = None
    BY <1>0, <1>4, <2>2, NoneAssumption DEF CancelledIsProjected, Told
  <2> QED BY <1>9, <2>1, <2>2
<1>11. CreatedOnce'
  <2>1. \A b \in Appts : rows[b] = None => events'[b] = events[b]
    <3>1. CASE UNCHANGED events
      BY <3>1
    <3>2. CASE w.phase = "loaded" /\ Effect(d)
      BY <1>2, <1>5, <3>2, EffectIsOwn DEF Holding, OfItsEntry
    <3> QED BY <1>2, <3>1, <3>2
            DEF Rests, Takes, Loads, Raises, Returns, Fails, Settles, Rereads, Links
  <2> QED BY <1>3, <1>10, <2>1 DEF CreatedOnce
<1> QED BY <1>1, <1>8, <1>10, <1>11 DEF Names

LEMMA OriginsInitially == Init => OInv
<1> SUFFICES ASSUME Init PROVE OInv
  OBVIOUS
<1>1. /\ \A a \in Appts : rows[a] = None /\ events[a] = None
      /\ \A t \in Txns : outbox[t] = None /\ txns[t] = Unbound("idle")
      /\ \A d \in Dispatchers : disp[d] = Rest("asleep")
  BY DEF Init, CoreInit, ProjInit
<1>2. ~Saves(Unbound("idle")) /\ ~Drafts(Unbound("idle")) /\ Rest("asleep").phase = "asleep"
  BY DEF Unbound, Saves, Drafts, Rest
<1>3. CancelledIsProjected /\ NamesOwn /\ CreatedOnce
  BY <1>1, <1>2 DEF CancelledIsProjected, NamesOwn, CreatedOnce
<1>4. ASSUME NEW d \in Dispatchers PROVE OfItsEntry(disp[d])
  BY <1>1, <1>2 DEF OfItsEntry, Named
<1> QED BY <1>3, <1>4, ProjectionInitially DEF OInv

LEMMA OriginsInductive == OInv /\ [Next]_vars => OInv'
<1> SUFFICES ASSUME OInv, [Next]_vars PROVE OInv'
  OBVIOUS
<1>1. CASE CoreNext /\ UNCHANGED projVars
  BY <1>1, RequestKeepsOrigins
<1>2. CASE \E d \in Dispatchers : Dispatch(d) \/ Crash(d)
  BY <1>2, DispatcherKeepsOrigins
<1>3. CASE UNCHANGED vars
  BY <1>3, RequestKeepsOrigins DEF vars
<1> QED BY <1>1, <1>2, <1>3 DEF Next

(* Rows, copies and entries name their own events, and a row is booked and *)
(* its CREATE enqueued once, also under the write-backs of dispatchers.    *)
THEOREM OriginsInvariance == Spec => []OInv
BY OriginsInitially, OriginsInductive, PTL DEF Spec

(* An inactive row was cancelled by a request also when a dispatcher wrote *)
(* it: CANCELLED is in the log and a DELETE in the outbox.                 *)
THEOREM CancellationsAreProjectedUnderDispatchers == Spec => []CancelledIsProjected
<1>1. OInv => CancelledIsProjected
  BY DEF OInv
<1> QED BY <1>1, OriginsInvariance, PTL

(* An event that is left over when the outbox is drained belongs to an     *)
(* appointment whose DELETE named no event, for any number of dispatchers. *)
THEOREM OrphansAreOfBlindDeletes == Spec => []OrphansComeFromBlindDeletes
<1>1. OInv => OrphansComeFromBlindDeletes
  <2> SUFFICES ASSUME OInv, Drained, NEW a \in Appts, rows[a] # None, ~Active(rows[a]),
                      Unfailed(a), IsLive(a)
               PROVE  BlindDelete(a)
    BY DEF OrphansComeFromBlindDeletes
  <2>1. PICK t \in Txns : outbox[t] # None /\ outbox[t].op = "DELETE" /\ outbox[t].appt = a
    BY DEF OInv, CancelledIsProjected
  <2>2. t \in EntriesOf(a) /\ outbox[t] \in Entry /\ Honest(t)
    BY <2>1 DEF EntriesOf, OInv, PInv, ProjectionTypeOK, TypeOK
  <2>3. outbox[t].status = "PROCESSED"
    BY <2>1, <2>2 DEF Drained, Pending, Unfailed, Entry
  <2>4. outbox[t].event \in {None, a}
    BY <2>1 DEF OInv, NamesOwn
  <2>5. outbox[t].event # a
    BY <2>1, <2>2, <2>3, NoneAssumption DEF Honest, Delivered, IsLive
  <2> QED BY <2>1, <2>2, <2>4, <2>5 DEF BlindDelete
<1> QED BY <1>1, OriginsInvariance, PTL

----------------------------------------------------------------------------
(* One dispatcher: the calendar catches up with the rows.                  *)

(* What a step that has nothing to do with a leaves alone.                 *)
LEMMA ForeignStep ==
  ASSUME NEW a \in Appts, rows'[a] = rows[a], events'[a] = events[a],
         \A t \in Txns : \/ outbox'[t] = outbox[t]
                         \/ /\ outbox[t] = None \/ outbox[t].appt # a
                            /\ outbox'[t] = None \/ outbox'[t].appt # a,
         \A t \in Txns : Saves(txns'[t]) /\ txns'[t].appt = a =>
           \/ txns'[t].copy.event = rows[a].event
           \/ Saves(txns[t]) /\ txns[t].appt = a /\ txns'[t].copy.event = txns[t].copy.event,
         \A d \in Dispatchers :
           \/ /\ disp'[d] = disp[d]
              /\ Holding(disp[d]) => outbox'[disp[d].entry] = outbox[disp[d].entry]
           \/ /\ ~Handles(disp[d], a) /\ ~Handles(disp[d], a)'
              /\ disp'[d].entry \in EntriesOf(a) => ~Holding(disp'[d]),
         NeverCancelled(a) => IF Creating(a) THEN Unlinked(a) ELSE Linked(a)
  PROVE  (NeverCancelled(a) => IF Creating(a) THEN Unlinked(a) ELSE Linked(a))'
<1>1. EntriesOf(a)' = EntriesOf(a) /\ \A t \in EntriesOf(a) : outbox'[t] = outbox[t]
  BY DEF EntriesOf
<1>2. /\ NeverCancelled(a)' <=> NeverCancelled(a)
      /\ Creating(a)' <=> Creating(a)
  BY <1>1 DEF NeverCancelled, Creating, Open
<1>3. \A d \in Dispatchers : Handles(disp[d], a)' => disp'[d] = disp[d] /\ Handles(disp[d], a)
  BY DEF Handles
<1>4. ASSUME Unlinked(a) PROVE Unlinked(a)'
  <2>1. \A t \in Txns : Saves(txns'[t]) /\ txns'[t].appt = a => txns'[t].copy.event = None
    BY <1>4 DEF Unlinked
  <2>2. \A t \in EntriesOf(a) : Open(t)'
    BY <1>1, <1>4 DEF Unlinked, Open
  <2> QED BY <1>1, <1>3, <1>4, <2>1, <2>2 DEF Unlinked
<1>5. ASSUME Linked(a) PROVE Linked(a)'
  <2>1. CASE Ahead(a)
    <3>1. PICK t \in EntriesOf(a) :
            /\ Open(t)
            /\ \A d \in Dispatchers :
                 disp[d].entry = t => disp[d].phase \notin {"loaded", "returned", "reread"}
      BY <2>1 DEF Ahead
    <3>2. Open(t)'
      BY <1>1, <3>1 DEF Open
    <3>3. \A d \in Dispatchers :
            disp'[d].entry = t => disp'[d].phase \notin {"loaded", "returned", "reread"}
      BY <3>1 DEF Holding
    <3> QED BY <1>1, <3>1, <3>2, <3>3 DEF Linked, Ahead
  <2>2. ASSUME NEW d \in Dispatchers, Sends(disp[d], a) PROVE Linked(a)'
    <3>1. disp'[d] = disp[d] /\ Holding(disp[d])
          /\ outbox'[disp[d].entry] = outbox[disp[d].entry]
      BY <2>2 DEF Sends, Handles
    <3> QED BY <2>2, <3>1 DEF Sends, Handles, Holding, Linked
  <2>3. CASE Mirrors(a) /\ \A d \in Dispatchers : Handles(disp[d], a) => disp[d].phase # "loaded"
    <3>1. Mirrors(a)'
      BY <2>3 DEF Mirrors
    <3> QED BY <1>3, <2>3, <3>1 DEF Linked
  <2> QED BY <1>5, <2>1, <2>2, <2>3 DEF Linked
<1> QED BY <1>2, <1>4, <1>5

LEMMA RequestKeepsMirrors ==
  MInv /\ [CoreNext]_coreVars /\ UNCHANGED projVars => MInv'
<1> SUFFICES ASSUME MInv, [CoreNext]_coreVars, UNCHANGED projVars PROVE MInv'
  OBVIOUS
<1>1. OInv /\ OInv' /\ PInv /\ LInv
  BY RequestKeepsOrigins DEF MInv, OInv, PInv
<1>2. /\ UNCHANGED <<events, disp>>
      /\ rows \in [Appts -> Row \cup {None}] /\ outbox \in [Txns -> Entry \cup {None}]
      /\ \A t \in Txns : Saves(txns[t]) => rows[txns[t].appt] # None
  BY <1>1 DEF projVars, LInv, IInv, TypeOK, Grounded
<1>3. /\ \A e \in Txns : outbox[e] # None => outbox'[e] = outbox[e]
      /\ \A b \in Appts : rows[b] # None => rows'[b] # None
  BY <1>1, RequestsOnlyAdd
<1>4. \A u \in Txns : Saves(txns'[u]) =>
        \/ /\ Saves(txns[u])
           /\ txns'[u].appt = txns[u].appt /\ txns'[u].copy.event = txns[u].copy.event
        \/ /\ txns'[u].appt \in Appts /\ rows[txns'[u].appt] # None
           /\ txns'[u].copy.event = rows[txns'[u].appt].event
  BY <1>1, CopiesComeFromRows
<1>5. \A d \in Dispatchers :
        Holding(disp[d]) => /\ disp[d].entry \in Txns /\ outbox[disp[d].entry] # None
                            /\ outbox'[disp[d].entry] = outbox[disp[d].entry]
                            /\ rows[outbox[disp[d].entry].appt] # None
  BY <1>1, <1>3, HeldEntry
<1>6. ASSUME NEW a \in Appts, rows'[a] = rows[a],
             \A t \in Txns : outbox'[t] = outbox[t] \/ (outbox[t] = None /\ outbox'[t].appt # a)
      PROVE  (NeverCancelled(a) => IF Creating(a) THEN Unlinked(a) ELSE Linked(a))'
  <2>1. \A d \in Dispatchers :
          /\ disp'[d] = disp[d]
          /\ Holding(disp[d]) => outbox'[disp[d].entry] = outbox[disp[d].entry]
    BY <1>2, <1>5
  <2>2. NeverCancelled(a) => IF Creating(a) THEN Unlinked(a) ELSE Linked(a)
    BY DEF MInv
  <2>3. \A t \in Txns : Saves(txns'[t]) /\ txns'[t].appt = a =>
           \/ txns'[t].copy.event = rows[a].event
           \/ Saves(txns[t]) /\ txns[t].appt = a /\ txns'[t].copy.event = txns[t].copy.event
    BY <1>4
  <2> QED BY <1>2, <1>5, <1>6, <2>1, <2>2, <2>3, ForeignStep
<1>7. CASE Inert
  BY <1>1, <1>6, <1>7 DEF Inert, MInv
<1>8. ASSUME NEW t \in Txns, NEW row \in Row, Commits(t, row), Written(t, row),
             IF txns[t].op = "BOOK"
             THEN Books(txns[t]) /\ row.event = txns[t].copy.event
             ELSE /\ Saves(txns[t])
                  /\ row.event \in {txns[t].copy.event, rows[txns[t].appt].event}
      PROVE  MInv'
  <2>0. PICK a \in Appts : a = txns[t].appt
    BY <1>1, <1>8, CommitTables
  <2>1. /\ a \in Appts /\ rows'[a] = row /\ row # None
        /\ outbox[t] = None /\ outbox'[t] = Enqueued(t) /\ outbox'[t] # None
        /\ \A b \in Appts \ {a} : rows'[b] = rows[b]
        /\ \A u \in Txns \ {t} : outbox'[u] = outbox[u]
    BY <1>1, <1>8, <2>0, CommitTables
  <2>2. /\ outbox'[t].appt = a /\ outbox'[t].op = OutboxOp(txns[t].op)
        /\ outbox'[t].status = "PENDING"
    BY <2>0, <2>1 DEF Enqueued
  <2>3. ASSUME NEW b \in Appts \ {a}
        PROVE  (NeverCancelled(b) => IF Creating(b) THEN Unlinked(b) ELSE Linked(b))'
    BY <1>6, <2>1, <2>2
  <2>4. CASE txns[t].op = "BOOK"
    <3>1. rows[a] = None /\ row.event = None
      BY <1>1, <1>8, <2>0, <2>4 DEF Written, OInv, NamesOwn, Drafts, Books
    <3>2. \A u \in Txns : outbox[u] # None => outbox[u].appt # a
      BY <1>1, <3>1 DEF PInv, Honest
    <3>3. outbox'[t].op = "CREATE" /\ t \in EntriesOf(a)' /\ Open(t)'
      BY <2>1, <2>2, <2>4 DEF OutboxOp, EntriesOf, Open
    <3>4. \A u \in Txns : u \in EntriesOf(a)' => u = t
      BY <2>1, <3>2 DEF EntriesOf
    <3>5. Creating(a)'
      BY <3>3 DEF Creating
    <3>6. \A d \in Dispatchers : ~Handles(disp[d], a)'
      BY <1>2, <1>5, <3>1 DEF Handles
    <3>7. events'[a] = None
      BY <1>1, <1>2, <2>1, <3>1 DEF OInv, CreatedOnce
    <3>8. \A u \in Txns : ~(Saves(txns'[u]) /\ txns'[u].appt = a)
      BY <1>2, <1>4, <3>1
    <3>9. \A u \in EntriesOf(a)' : Open(u)'
      BY <3>3, <3>4 DEF EntriesOf
    <3>10. Unlinked(a)'
      BY <2>1, <3>1, <3>6, <3>7, <3>8, <3>9 DEF Unlinked
    <3> QED BY <1>1, <2>3, <3>5, <3>10 DEF MInv
  <2>5. CASE txns[t].op = "CANCEL"
    <3>1. t \in EntriesOf(a)' /\ outbox'[t].op = "DELETE"
      BY <2>1, <2>2, <2>5 DEF EntriesOf, OutboxOp
    <3>2. ~NeverCancelled(a)'
      BY <3>1 DEF NeverCancelled
    <3> QED BY <1>1, <2>3, <3>2 DEF MInv
  <2>6. CASE txns[t].op \notin {"BOOK", "CANCEL"}
    <3>1. /\ rows[a] # None /\ Saves(txns[t])
          /\ row.event \in {txns[t].copy.event, rows[a].event}
      BY <1>8, <2>0, <2>6 DEF Written
    <3>2. outbox'[t].op = "UPDATE" /\ t \in EntriesOf(a)' /\ Open(t)'
      BY <2>1, <2>2, <2>6 DEF OutboxOp, EntriesOf, Open
    <3>3. EntriesOf(a) \subseteq EntriesOf(a)' /\ t \notin EntriesOf(a)
      BY <2>1 DEF EntriesOf
    <3>4. EntriesOf(a)' = EntriesOf(a) \cup {t}
      BY <2>1, <2>2 DEF EntriesOf
    <3>5. \A u \in EntriesOf(a) : outbox'[u] = outbox[u]
      BY <2>1, <3>3 DEF EntriesOf
    <3>6. SUFFICES ASSUME NeverCancelled(a)'
                   PROVE  (IF Creating(a) THEN Unlinked(a) ELSE Linked(a))'
      BY <1>1, <2>3 DEF MInv
    <3>7. NeverCancelled(a)
      BY <3>1, <3>3, <3>5, <3>6 DEF NeverCancelled
    <3>8. Creating(a)' <=> Creating(a)
      BY <3>2, <3>4, <3>5 DEF Creating, Open
    <3>9. CASE Creating(a)
      <4>1. Unlinked(a)
        BY <2>1, <3>7, <3>9 DEF MInv
      <4>2. rows'[a].event = None
        BY <2>0, <2>1, <3>1, <4>1 DEF Unlinked
      <4>3. \A u \in Txns : Saves(txns'[u]) /\ txns'[u].appt = a => txns'[u].copy.event = None
        BY <1>4, <4>1 DEF Unlinked
      <4>4. \A u \in EntriesOf(a)' : Open(u)'
        BY <3>2, <3>4, <3>5, <4>1 DEF Unlinked, Open
      <4>5. \A d \in Dispatchers : Handles(disp[d], a)' => Handles(disp[d], a)
        BY <1>2, <1>5 DEF Handles
      <4>6. \A u \in Txns : EntriesOf(a)' # {u}
        BY <3>3, <3>4, <3>9 DEF Creating
      <4>7. Unlinked(a)'
        BY <1>2, <4>1, <4>2, <4>3, <4>4, <4>5, <4>6 DEF Unlinked
      <4> QED BY <3>8, <3>9, <4>7
    <3>10. CASE ~Creating(a)
      <4>1. \A d \in Dispatchers :
              disp'[d].entry = t => disp'[d].phase \notin {"loaded", "returned", "reread"}
        BY <1>2, <1>5, <2>1 DEF Holding
      <4>2. Ahead(a)'
        BY <3>2, <4>1 DEF Ahead
      <4> QED BY <3>8, <3>10, <4>2 DEF Linked
    <3> QED BY <3>9, <3>10
  <2> QED BY <2>4, <2>5, <2>6
<1> QED BY <1>1, <1>7, <1>8, CommitsCopies

(* The turns of the only dispatcher.  a is the appointment of its entry.   *)
LEMMA DispatcherKeepsMirrors ==
  ASSUME MInv, \A b, c \in Dispatchers : b = c,
         NEW d \in Dispatchers, Dispatch(d) \/ Crash(d)
  PROVE  MInv'
<1>0. /\ disp \in [Dispatchers -> Worker] /\ rows \in [Appts -> Row \cup {None}]
      /\ outbox \in [Txns -> Entry \cup {None}]
      /\ events \in [Appts -> Event \cup {None}]
      /\ OInv /\ PInv
  BY DEF MInv, OInv, PInv, ProjectionTypeOK, TypeOK
<1>1. OInv'
  BY <1>0, DispatcherKeepsOrigins
<1>2. PICK w, x \in Worker :
        /\ w = disp[d] /\ disp' = [disp EXCEPT ![d] = x]
        /\ UNCHANGED <<calls, audits, txns, clock>>
        /\ \/ Rests(x) \/ Takes(w, x) \/ Loads(w, x) \/ Raises(d, w, x) \/ Returns(d, w, x)
           \/ Fails(w, x) \/ Settles(w, x) \/ Rereads(w, x) \/ Links(w, x)
  BY <1>0, Turns
<1>3. disp'[d] = x /\ \A c \in Dispatchers : c = d
  BY <1>0, <1>2
<1>4. /\ \A e \in Txns : outbox[e] = None <=> outbox'[e] = None
      /\ \A e \in Txns : outbox[e] # None =>
           /\ outbox'[e].op = outbox[e].op /\ outbox'[e].appt = outbox[e].appt
           /\ outbox'[e].event = outbox[e].event
      /\ \A e \in Txns : outbox'[e] # outbox[e] => Holding(w) /\ e = w.entry
  <2>1. \/ UNCHANGED outbox
        \/ /\ Holding(w)
           /\ outbox' \in {[outbox EXCEPT ![w.entry] = Failed(outbox[w.entry])],
                           [outbox EXCEPT ![w.entry] = Processed(outbox[w.entry])]}
    BY <1>2 DEF Rests, Takes, Loads, Raises, Returns, Fails, Settles, Rereads, Links, Holding
  <2> QED BY <1>0, <1>2, <2>1, TurnsKeepEntries
<1>5. Holding(w) =>
        /\ w.entry \in Txns /\ outbox[w.entry] # None /\ outbox[w.entry] \in Entry
        /\ outbox[w.entry].status = "PENDING" /\ outbox[w.entry].appt \in Appts
        /\ rows[outbox[w.entry].appt] \in Row
  BY <1>0, <1>2, HeldEntry
<1>6. OfItsEntry(w) /\ Named(w) /\ Sound(w) /\ NamesOwn /\ CreatedOnce
  BY <1>0, <1>2 DEF OInv, OfItsEntry, PInv
<1>7. \A a \in Appts : EntriesOf(a)' = EntriesOf(a)
  BY <1>4 DEF EntriesOf
<1> SUFFICES ASSUME NEW a \in Appts
             PROVE  (NeverCancelled(a) => IF Creating(a) THEN Unlinked(a) ELSE Linked(a))'
  BY <1>1 DEF MInv
<1>8. NeverCancelled(a) => IF Creating(a) THEN Unlinked(a) ELSE Linked(a)
  BY DEF MInv
<1>9. CASE ~Handles(w, a) /\ ~(Takes(w, x) /\ outbox[x.entry].appt = a)
  <2>1. rows'[a] = rows[a]
    <3>1. Links(w, x) => outbox[w.entry].appt # a
      BY <1>9 DEF Links, Handles, Holding
    <3> QED BY <1>0, <1>2, <3>1
            DEF Rests, Takes, Loads, Raises, Returns, Fails, Settles, Rereads, Links
  <2>2. events'[a] = events[a]
    <3>1. w.phase = "loaded" => outbox[w.entry].appt # a
      BY <1>9 DEF Handles, Holding
    <3>2. CASE UNCHANGED events
      BY <3>2
    <3>3. CASE w.phase = "loaded" /\ Effect(d)
      BY <1>0, <1>2, <1>6, <3>1, <3>3, EffectIsOwn
    <3> QED BY <1>2, <3>2, <3>3
            DEF Rests, Takes, Loads, Raises, Returns, Fails, Settles, Rereads, Links
  <2>3. \A t \in Txns : \/ outbox'[t] = outbox[t]
                        \/ outbox[t].appt # a /\ outbox'[t].appt # a
    BY <1>4, <1>5, <1>9 DEF Handles
  <2>4. ~Handles(x, a)' /\ (x.entry \in EntriesOf(a) => ~Holding(x))
    <3>1. Idle(x) => ~Holding(x)
      BY DEF Idle, Holding
    <3>2. CASE Holding(w) /\ x.entry = w.entry
      BY <1>4, <1>5, <1>9, <3>2 DEF Handles, EntriesOf
    <3>3. CASE Takes(w, x)
      BY <1>9, <3>3 DEF Takes, Handles, EntriesOf, Pending
    <3> QED BY <1>2, <3>1, <3>2, <3>3
            DEF Rests, Loads, Raises, Returns, Fails, Settles, Rereads, Links, Handles, Holding
  <2>5. \A t \in Txns : Saves(txns'[t]) /\ txns'[t].appt = a =>
          Saves(txns[t]) /\ txns[t].appt = a /\ txns'[t].copy.event = txns[t].copy.event
    BY <1>2
  <2>6. ~Handles(disp[d], a) /\ ~Handles(disp[d], a)'
        /\ (disp'[d].entry \in EntriesOf(a) => ~Holding(disp'[d]))
    BY <1>2, <1>3, <1>9, <2>4 DEF Handles
  <2> QED BY <1>3, <1>8, <2>1, <2>2, <2>3, <2>5, <2>6, ForeignStep
<1>10. CASE Takes(w, x) /\ outbox[x.entry].appt = a /\ ~Handles(w, a)
  <2>1. UNCHANGED <<rows, outbox, events, txns>> /\ x.phase = "claimed"
    BY <1>2, <1>10 DEF Takes
  <2>2. /\ NeverCancelled(a)' <=> NeverCancelled(a)
        /\ Creating(a)' <=> Creating(a)
    BY <2>1 DEF NeverCancelled, EntriesOf, Creating, Open
  <2>3. Unlinked(a) => Unlinked(a)'
    BY <1>3, <2>1 DEF Unlinked, EntriesOf, Open
  <2>4. Linked(a) => Linked(a)'
    <3>1. \A c \in Dispatchers : ~Sends(disp[c], a)
      BY <1>2, <1>3, <1>10 DEF Sends
    <3>2. Ahead(a) => Ahead(a)'
      BY <1>3, <2>1 DEF Ahead, EntriesOf, Open
    <3>3. Mirrors(a) => Mirrors(a)'
      BY <2>1 DEF Mirrors
    <3>4. \A c \in Dispatchers : disp'[c].phase # "loaded"
      BY <1>3, <2>1
    <3> QED BY <3>1, <3>2, <3>3, <3>4 DEF Linked
  <2> QED BY <1>8, <2>2, <2>3, <2>4
<1>11. CASE Handles(w, a)
  <2> PICK e \in Txns : e = w.entry
    BY <1>5, <1>11 DEF Handles
  <2>0. /\ Holding(w) /\ outbox[e] # None /\ outbox[e].appt = a /\ outbox[e] \in Entry
        /\ e \in EntriesOf(a) /\ Open(e) /\ rows[a] \in Row /\ outbox[e].status = "PENDING"
    BY <1>5, <1>11 DEF Handles, EntriesOf, Open
  <2> SUFFICES ASSUME NeverCancelled(a)'
               PROVE  (IF Creating(a) THEN Unlinked(a) ELSE Linked(a))'
    OBVIOUS
  <2>1. NeverCancelled(a) /\ outbox[e].op \in {"CREATE", "UPDATE"}
    BY <1>0, <1>4, <1>7, <2>0, NoneAssumption DEF NeverCancelled, EntriesOf, Entry
  <2>2. ~Takes(w, x) /\ (Idle(x) => ~Holding(x) /\ x.entry # e)
    BY <1>6, <2>0 DEF Takes, Holding, Idle, Sound
  <2>3. Fails(w, x) => Open(e)' /\ outbox'[e] # None
    <3>1. Failed(outbox[e]) \in Entry /\ Failed(outbox[e]).status \in {"PENDING", "FAILED"}
      BY <2>0, SettledIsEntry DEF Failed, Entry
    <3> QED BY <1>0, <2>0, <3>1, NoneAssumption DEF Fails, Open
  <2>4. \A u \in Txns \ {e} : outbox'[u] = outbox[u] /\ (Open(u)' <=> Open(u))
    BY <1>4 DEF Open
  <2>5. \A u \in Txns : Open(u)' => Open(u)
    BY <2>0, <2>4
  <2>6. CASE Creating(a)
    <3>1. /\ rows[a].event = None
          /\ \A t \in Txns : Saves(txns[t]) /\ txns[t].appt = a => txns[t].copy.event = None
          /\ \A t \in EntriesOf(a) : Open(t)
          /\ w.phase \in {"loaded", "returned"} => w.copy.event = None
          /\ w.phase = "reread" => w.basis.event = None
          /\ EntriesOf(a) = {e} =>
               /\ events[a] \in {None, Body(rows[a])}
               /\ w.phase \in {"loaded", "returned", "reread"} => Body(w.copy) = Body(rows[a])
               /\ w.phase = "reread" => Body(w.basis) = Body(rows[a])
      BY <1>2, <1>8, <1>11, <2>1, <2>6 DEF Unlinked
    <3>2. CASE Links(w, x)
      <4>1. /\ outbox[e].op = "CREATE" /\ w.copy \in Row /\ w.basis \in Row
            /\ w.copy.event = a /\ Delivered(e) /\ w.phase = "reread"
        BY <1>6, <2>0, <3>2 DEF Links, Sound, Named
      <4>2. /\ rows' = [rows EXCEPT ![a] = Merged(w.copy, w.basis, rows[a])]
            /\ outbox' = [outbox EXCEPT ![e] = Processed(outbox[e])] /\ UNCHANGED events
        BY <2>0, <3>2 DEF Links
      <4>3. outbox'[e].status = "PROCESSED"
        BY <1>0, <2>0, <4>2, SettledIsEntry DEF Processed, Entry
      <4>4. ~Creating(a)'
        <5>1. \A u \in EntriesOf(a) : outbox'[u].op = "CREATE" => u = e
          BY <1>4, <1>6, <2>0, <4>1 DEF EntriesOf, CreatedOnce
        <5> QED BY <1>7, <4>3, <5>1 DEF Creating, Open
      <4>5. CASE EntriesOf(a) = {e}
        <5>1. Body(w.copy) = Body(rows[a]) /\ Body(w.basis) = Body(rows[a])
          BY <3>1, <4>1, <4>5
        <5>2. /\ w.copy.start = rows[a].start /\ w.copy.end = rows[a].end
              /\ w.copy.details = rows[a].details
          BY <5>1 DEF Body
        <5>3. PICK new \in Row : new = Merged(w.copy, w.basis, rows[a])
          BY <2>0, <4>1, MergedIsRow
        <5>4. Body(new) = Body(rows[a]) /\ new.event = a
          BY <2>0, <3>1, <4>1, <5>2, <5>3, NoneAssumption DEF Merged, Column, Row, Body
        <5>5. rows'[a] = new
          BY <1>0, <4>2, <5>3
        <5>6. events[a] = Body(rows[a])
          BY <2>0, <3>1, <4>1, <4>5 DEF Delivered
        <5>7. Mirrors(a)'
          BY <4>2, <5>4, <5>5, <5>6 DEF Mirrors, Body
        <5>8. x.phase # "loaded"
          BY <3>2 DEF Links, Idle
        <5> QED BY <1>3, <4>4, <5>7, <5>8 DEF Linked
      <4>6. CASE EntriesOf(a) # {e}
        <5>1. PICK u \in EntriesOf(a) : u # e
          BY <2>0, <4>6
        <5>2. u \in EntriesOf(a)' /\ Open(u)'
          BY <1>7, <2>4, <3>1, <5>1 DEF EntriesOf
        <5>3. x.phase \notin {"loaded", "returned", "reread"}
          BY <3>2 DEF Links, Idle
        <5> QED BY <1>3, <4>4, <5>2, <5>3 DEF Linked, Ahead
      <4> QED BY <4>5, <4>6
    <3>3. CASE ~Links(w, x)
      <4>1. ~Settles(w, x)
        BY <1>6, <2>0, <2>1, <3>1 DEF Settles, Named
      <4>2. rows'[a] = rows[a]
        BY <1>2, <3>3 DEF Rests, Takes, Loads, Raises, Returns, Fails, Settles, Rereads
      <4>3. events'[a] = events[a] \/ (w.phase = "loaded" /\ events'[a] = Body(w.copy))
        <5>1. CASE UNCHANGED events
          BY <5>1
        <5>2. CASE w.phase = "loaded" /\ Effect(d)
          BY <1>0, <1>2, <1>6, <2>0, <2>1, <3>1, <5>2, EffectIsOwn
        <5> QED BY <1>2, <3>3, <5>1, <5>2
                DEF Rests, Takes, Loads, Raises, Returns, Fails, Settles, Rereads
      <4>4. Open(e)'
        BY <1>2, <2>0, <2>3, <3>3, <4>1 DEF Rests, Takes, Loads, Raises, Returns, Rereads, Open
      <4>5. \A u \in EntriesOf(a)' : Open(u)'
        BY <1>7, <2>4, <3>1, <4>4 DEF EntriesOf
      <4>6. Creating(a)'
        BY <1>4, <1>7, <2>6, <4>5 DEF Creating, EntriesOf
      <4>7. Holding(x) =>
              /\ x.phase \in {"loaded", "returned"} => x.copy.event = None
              /\ x.phase = "reread" => x.basis.event = None
        BY <1>2, <2>0, <2>2, <3>1, <3>3, <4>1
           DEF Rests, Loads, Raises, Returns, Fails, Rereads
      <4>8. ASSUME EntriesOf(a) = {e}
            PROVE  /\ events'[a] \in {None, Body(rows[a])}
                   /\ x.phase \in {"loaded", "returned", "reread"} => Body(x.copy) = Body(rows[a])
                   /\ x.phase = "reread" => Body(x.basis) = Body(rows[a])
        <5>1. events'[a] \in {None, Body(rows[a])}
          BY <3>1, <4>3, <4>8
        <5>2. Rereads(w, x) => Body(x.copy) = Body(w.copy)
          <6>1. Rereads(w, x) => w.copy \in Row
            BY <1>6 DEF Rereads, Sound
          <6> QED BY <6>1 DEF Rereads, Row, Body
        <5>3. Idle(x) => x.phase \notin {"loaded", "returned", "reread"}
          BY DEF Idle
        <5> QED BY <1>2, <2>0, <2>2, <3>1, <3>3, <4>1, <4>8, <5>1, <5>2, <5>3
                DEF Rests, Loads, Raises, Returns, Fails, Rereads
      <4>9. \A t \in Txns : Saves(txns'[t]) /\ txns'[t].appt = a => txns'[t].copy.event = None
        BY <1>2, <3>1
      <4>10. \A c \in Dispatchers : disp'[c] = x /\ (Handles(disp[c], a)' => Holding(x))
        BY <1>3 DEF Handles
      <4>11. \A u \in Txns : EntriesOf(a)' = {u} => EntriesOf(a) = {e}
        BY <1>7, <2>0
      <4>12. /\ events'[a] \in {None, Body(rows'[a])} \/ EntriesOf(a) # {e}
             /\ rows'[a].event = None
        BY <3>1, <4>2, <4>8
      <4>13. Unlinked(a)'
        BY <3>1, <4>2, <4>5, <4>7, <4>8, <4>9, <4>10, <4>11, <4>12 DEF Unlinked
      <4> QED BY <4>6, <4>13
    <3> QED BY <3>2, <3>3
  <2>7. CASE ~Creating(a)
    <3>1. outbox[e].op = "UPDATE" /\ Linked(a) /\ ~Creating(a)'
      BY <1>4, <1>7, <1>8, <2>0, <2>1, <2>5, <2>7 DEF Creating, EntriesOf
    <3> SUFFICES Linked(a)'
      BY <3>1
    <3>2. ASSUME Open(e)', x.phase \notin {"loaded", "returned", "reread"} PROVE Linked(a)'
      BY <1>3, <1>7, <2>0, <3>2 DEF Linked, Ahead
    <3>3. ASSUME Ahead(a), w.phase \in {"loaded", "returned"},
                 x.phase \notin {"loaded", "returned", "reread"} \/ x.entry = e
          PROVE  Linked(a)'
      <4>1. PICK t \in EntriesOf(a) :
              /\ Open(t)
              /\ \A c \in Dispatchers :
                   disp[c].entry = t => disp[c].phase \notin {"loaded", "returned", "reread"}
        BY <3>3 DEF Ahead
      <4>2. t # e /\ t \in Txns
        BY <1>2, <3>3, <4>1 DEF EntriesOf
      <4>3. t \in EntriesOf(a)' /\ Open(t)'
        BY <1>7, <2>4, <4>1, <4>2
      <4> QED BY <1>3, <3>3, <4>2, <4>3 DEF Linked, Ahead
    <3>4. CASE Rests(x)
      BY <2>0, <3>2, <3>4 DEF Rests, Idle, Open
    <3>5. CASE Loads(w, x)
      <4>1. Sends(x, a)'
        BY <2>0, <3>5 DEF Loads, Sends, Handles, Holding
      <4> QED BY <1>3, <4>1 DEF Linked
    <3>6. CASE Raises(d, w, x)
      BY <2>0, <3>2, <3>6 DEF Raises, Open
    <3>7. CASE Returns(d, w, x)
      <4>1. w.phase = "loaded" /\ x.phase = "returned" /\ x.entry = e /\ UNCHANGED <<rows, outbox>>
        BY <3>7 DEF Returns
      <4>2. w.copy.event = a /\ events'[a] = Body(w.copy)
        BY <1>0, <1>2, <1>6, <2>0, <3>1, <3>7, EffectIsOwn DEF Returns, OfItsEntry, Named
      <4>3. CASE Ahead(a)
        BY <3>3, <4>1, <4>3
      <4>4. CASE Sends(w, a)
        <5>1. Mirrors(a)'
          BY <4>1, <4>2, <4>4 DEF Mirrors, Sends, Body
        <5> QED BY <1>3, <4>1, <5>1 DEF Linked
      <4> QED BY <1>2, <1>3, <1>11, <3>1, <4>1, <4>3, <4>4 DEF Linked
    <3>8. CASE Fails(w, x)
      BY <2>3, <3>2, <3>8 DEF Fails, Idle
    <3>9. CASE Settles(w, x)
      <4>1. w.phase = "returned" /\ UNCHANGED <<rows, events>> /\ Idle(x)
        BY <3>9 DEF Settles
      <4>2. CASE Ahead(a)
        BY <3>3, <4>1, <4>2 DEF Idle
      <4>3. CASE Mirrors(a)
        BY <1>3, <4>1, <4>3 DEF Mirrors, Linked, Idle
      <4> QED BY <1>2, <1>3, <3>1, <4>1, <4>2, <4>3 DEF Linked, Sends
    <3>10. ~Rereads(w, x) /\ ~Links(w, x)
      BY <1>6, <3>1 DEF Rereads, Links, Sound
    <3> QED BY <1>2, <2>2, <3>4, <3>5, <3>6, <3>7, <3>8, <3>9, <3>10
  <2> QED BY <2>6, <2>7
<1> QED BY <1>9, <1>10, <1>11

LEMMA MirrorsInitially == Init => MInv
<1> SUFFICES ASSUME Init PROVE MInv
  OBVIOUS
<1>1. \A a \in Appts : rows[a] = None
  BY DEF Init, CoreInit
<1> QED BY <1>1, OriginsInitially DEF MInv, NeverCancelled

(* The calendar of an appointment nobody cancelled catches up with its     *)
(* row where one dispatcher drains the outbox, as one worker process does. *)
(* Among several an UPDATE that carries an older copy can arrive last.     *)
THEOREM OneDispatcherMirrors ==
  ASSUME \A b, c \in Dispatchers : b = c
  PROVE  Spec => []MirroredWhenDrained
<1>1. MInv /\ [Next]_vars => MInv'
  <2> SUFFICES ASSUME MInv, [Next]_vars PROVE MInv'
    OBVIOUS
  <2>1. CASE CoreNext /\ UNCHANGED projVars
    BY <2>1, RequestKeepsMirrors
  <2>2. CASE \E d \in Dispatchers : Dispatch(d) \/ Crash(d)
    BY <2>2, DispatcherKeepsMirrors
  <2>3. CASE UNCHANGED vars
    BY <2>3, RequestKeepsMirrors DEF vars
  <2> QED BY <2>1, <2>2, <2>3 DEF Next
<1>2. MInv => MirroredWhenDrained
  <2> SUFFICES ASSUME MInv, Drained, NEW a \in Appts, NeverCancelled(a), Unfailed(a)
               PROVE  Mirrors(a)
    BY DEF MirroredWhenDrained
  <2>1. \A t \in EntriesOf(a) : ~Open(t)
    BY DEF EntriesOf, Open, Drained, Pending, Unfailed, MInv, OInv, PInv,
           ProjectionTypeOK, TypeOK, Entry
  <2>2. \A d \in Dispatchers : ~Holding(disp[d])
    BY DEF Drained, MInv, OInv, PInv, Sound
  <2> QED BY <2>1, <2>2 DEF MInv, Creating, Linked, Ahead, Sends, Handles
<1> QED BY <1>1, <1>2, MirrorsInitially, PTL DEF Spec

=============================================================================
