---------------------------- MODULE InboundProofs ----------------------------
(***************************************************************************)
(* Proofs about Inbound, for any number of pollers, dispatchers, requests, *)
(* edits and crashes: its type invariant, that the sync token never runs   *)
(* ahead of the table, that the table keeps to the booking board when      *)
(* batches of the calendar are committed into it, that table and calendar  *)
(* end up agreeing when one sweep runs at a time, that every cancellation  *)
(* is logged and known to the calendar, and what the log leaves out.       *)
(***************************************************************************)
EXTENDS Inbound, ProjectionProofs

----------------------------------------------------------------------------
(* The inductive invariant.                                                *)

(* What a poller holds of its open unit of work: copies that no row and no *)
(* request has the time of, of rows that exist, and entries about them.    *)
Batched(x) ==
  \A a \in Appts :
    /\ x.copies[a] # None => Stale(x.copies[a]) /\ rows[a] # None
    /\ x.bases[a] # None => x.copies[a] # None
    /\ x.entries[a] # None =>
         x.entries[a].appt = a /\ x.entries[a].status = "PENDING" /\ rows[a] # None
    /\ a \in x.left => x.batch[a] # None /\ x.copies[a] = None
    /\ x.batch[a] # None => events[a] # None /\ x.batch[a].updated <= stamps[a]
    /\ x.phase = "committed" => x.batch[a] = None

(* The version of a's event that will have been reconciled once the batch  *)
(* is committed.                                                           *)
Known(x, a) == IF x.batch[a] # None THEN x.batch[a].updated ELSE seen[a]

(* Of the calendar it fetched a poller misses only what changed since.     *)
UpToDate(x) ==
  x.phase \in {"fetched", "committed"} =>
    \A a \in Appts : events[a] # None /\ rows[a].tech = x.tech /\ a \notin x.since =>
      Known(x, a) = stamps[a]

(* Nothing is reconciled before it is stamped, nor stamped ahead of time.  *)
InTime == \A a \in Appts : seen[a] <= stamps[a] /\ stamps[a] <= clock

EventsHaveRows == \A a \in Appts : events[a] # None => rows[a] # None

SyncInv ==
  /\ PInv
  /\ SyncTypeOK
  /\ EventsHaveRows
  /\ InTime
  /\ \A p \in Pollers : Batched(poll[p])
  /\ \A p \in Pollers : UpToDate(poll[p])
  /\ TokenNeverAhead

----------------------------------------------------------------------------
(* What requests and dispatchers do to the tables, as the pollers see it.  *)

(* A call makes the event of an appointment that has a row, or none.       *)
LEMMA EventsComeOfRows ==
  ASSUME PInv, NEW d \in Dispatchers, disp[d].phase = "loaded", Effect(d),
         NEW a \in Appts, events[a] = None, events'[a] # None
  PROVE  rows[a] # None
<1> DEFINE e == disp[d].entry
           copy == disp[d].copy
<1>1. /\ e \in Txns /\ outbox[e] # None /\ outbox[e].appt \in Appts
      /\ rows[outbox[e].appt] # None /\ events \in [Appts -> Event \cup {None}]
  BY HeldEntry DEF Holding, PInv, ProjectionTypeOK
<1>2. \/ CreateEvent(outbox[e].appt, copy)
      \/ UpdateEvent(copy.event, copy)
      \/ DeleteEvent(outbox[e].event)
      \/ UNCHANGED events
  BY DEF Effect
<1> HIDE DEF e, copy
<1>3. CASE CreateEvent(outbox[e].appt, copy)
  BY <1>1, <1>3 DEF CreateEvent
<1>4. CASE UpdateEvent(copy.event, copy)
  BY <1>1, <1>4 DEF UpdateEvent, IsLive
<1>5. CASE DeleteEvent(outbox[e].event)
  BY <1>1, <1>5 DEF DeleteEvent, IsLive
<1> QED BY <1>2, <1>3, <1>4, <1>5

(* What no step of Projection takes back.                                  *)
LEMMA NextFacts ==
  ASSUME PInv, [Next]_vars
  PROVE  /\ PInv'
         /\ clock' \in {clock, clock + 1}
         /\ Grows
         /\ \A a \in Appts : rows[a] # None => rows'[a] # None /\ rows'[a].tech = rows[a].tech
         /\ \A a \in Appts : events[a] = None /\ events'[a] # None => rows[a] # None
         /\ \A row \in Row : Stale(row) => Stale(row)'
<1>0. /\ PInv' /\ LInv /\ clock \in Nat /\ rows \in [Appts -> Row \cup {None}]
      /\ (UNCHANGED events => Grows)
  BY ProjectionInductive DEF PInv, LInv, IInv, TypeOK, ProjectionTypeOK, Grows
<1>1. CASE [CoreNext]_coreVars /\ UNCHANGED projVars
  <2>1. \A a \in Appts : rows[a] # None => rows'[a] # None /\ rows'[a].tech = rows[a].tech
    <3>1. CASE Inert
      BY <3>1 DEF Inert
    <3>2. ASSUME NEW t \in Txns, NEW row \in Row, Commits(t, row), Written(t, row),
                 NEW a \in Appts, rows[a] # None
          PROVE  rows'[a] # None /\ rows'[a].tech = rows[a].tech
      BY <1>0, <3>2, CommitTables DEF Written
    <3> QED BY <1>0, <1>1, <3>1, <3>2, StepWrites
  <2>2. /\ clock' \in {clock, clock + 1}
        /\ \A t \in Txns : Mutated(txns'[t]) =>
             \/ Mutated(txns[t]) /\ txns'[t].copy.updated = txns[t].copy.updated
             \/ clock' = clock + 1 /\ txns'[t].copy.updated = clock
    BY <1>0, <1>1, CopiesAreStamped
  <2>3. ASSUME NEW row \in Row, Stale(row) PROVE Stale(row)'
    <3>1. row.updated \in Nat
      BY DEF Row
    <3> QED BY <1>0, <2>2, <2>3, <3>1 DEF Stale
  <2> QED BY <1>0, <1>1, <2>1, <2>2, <2>3 DEF projVars
<1>2. ASSUME NEW d \in Dispatchers, Dispatch(d) \/ Crash(d)
      PROVE  /\ clock' = clock /\ txns' = txns /\ Grows
             /\ \A a \in Appts : rows[a] # None => rows'[a] # None /\ rows'[a].tech = rows[a].tech
             /\ \A a \in Appts : events[a] = None /\ events'[a] # None => rows[a] # None
  <2>1. PICK w, x \in Worker :
          /\ w = disp[d] /\ disp' = [disp EXCEPT ![d] = x]
          /\ UNCHANGED <<calls, audits, txns, clock>>
          /\ \/ Rests(x) \/ Takes(w, x) \/ Loads(w, x) \/ Raises(d, w, x) \/ Returns(d, w, x)
             \/ Fails(w, x) \/ Settles(w, x) \/ Rereads(w, x) \/ Links(w, x)
    BY <1>2, Turns
  <2>2. UNCHANGED events \/ (disp[d].phase = "loaded" /\ Effect(d))
    BY <2>1 DEF Rests, Takes, Loads, Raises, Returns, Fails, Settles, Rereads, Links
  <2>3. \A a \in Appts : rows[a] # None => rows'[a] # None /\ rows'[a].tech = rows[a].tech
    BY <1>0, <1>2, DispatcherWrites, NoneAssumption
  <2>4. CASE UNCHANGED events
    BY <1>0, <2>1, <2>3, <2>4
  <2>5. CASE disp[d].phase = "loaded" /\ Effect(d)
    BY <2>1, <2>3, <2>5, EffectDelivers, EventsComeOfRows
  <2> QED BY <2>2, <2>4, <2>5
<1>3. CASE \E d \in Dispatchers : Dispatch(d) \/ Crash(d)
  BY <1>0, <1>2, <1>3 DEF Stale
<1> QED BY <1>1, <1>3 DEF Next, vars

(* Time passes, or a worker that holds no entry dies.                      *)
LEMMA TimePasses ==
  ASSUME PInv, UNCHANGED <<calls, rows, audits, outbox, txns, events, disp>>,
         clock' \in {clock, clock + 1}, crashes' \in 0..MaxCrashes
  PROVE  /\ PInv'
         /\ \A row \in Row : Stale(row) => Stale(row)'
<1>0. clock \in Nat /\ clock' \in Nat
  BY DEF PInv, LInv, IInv, TypeOK
<1>1. TypeOK' /\ ProjectionTypeOK'
  BY <1>0 DEF PInv, ProjectionTypeOK, TypeOK
<1>2. Grounded' /\ Apart' /\ Fresh' /\ NotYetEnqueued' /\ OnlyCancelCancels'
  BY DEF PInv, LInv, IInv, Grounded, Apart, Fresh, NotYetEnqueued, OnlyCancelCancels
<1>3. ASSUME NEW n \in Nat, n < clock PROVE n < clock'
  BY <1>0, <1>3
<1>4. Stamped'
  <2>1. \A a \in Appts : rows[a] # None => rows[a].updated \in Nat
    BY DEF PInv, ProjectionTypeOK, TypeOK, Row
  <2>2. \A t \in Txns : Mutated(txns[t]) => txns[t].copy.updated \in Nat
    BY DEF PInv, LInv, IInv, Grounded, WellFormed, Mutated, Row
  <2> QED BY <1>3, <2>1, <2>2 DEF PInv, LInv, Stamped
<1>5. ASSUME NEW row \in Row, Stale(row) PROVE Stale(row)'
  <2>1. row.updated \in Nat
    BY DEF Row
  <2> QED BY <1>3, <1>5, <2>1 DEF Stale
<1>6. \A d \in Dispatchers : Sound(disp[d])'
  <2> SUFFICES ASSUME NEW d \in Dispatchers PROVE Sound(disp[d])'
    OBVIOUS
  <2>1. Sound(disp[d]) /\ disp[d].copy \in Row \cup {None} /\ disp'[d] = disp[d]
    BY DEF PInv, ProjectionTypeOK, Worker
  <2>2. disp[d].copy # None => Stale(disp[d].copy)'
    BY <1>5, <2>1 DEF Sound
  <2> QED BY <2>1, <2>2 DEF Sound, Holding, Pending, Delivered
<1>7. Exclusive' /\ \A e \in Txns : Honest(e)'
  BY DEF PInv, Exclusive, Honest, Delivered
<1> QED BY <1>1, <1>2, <1>4, <1>5, <1>6, <1>7 DEF PInv, LInv, IInv

----------------------------------------------------------------------------
(* Changes of the calendar.                                                *)

(* Of what Google notices, an open sweep learns that it happened.          *)
LEMMA NoticedPoll ==
  ASSUME poll \in [Pollers -> Poll], Noticed, NEW p \in Pollers
  PROVE  /\ poll'[p] \in Poll
         /\ poll'[p].phase = poll[p].phase /\ poll'[p].tech = poll[p].tech
         /\ poll'[p].batch = poll[p].batch /\ poll'[p].left = poll[p].left
         /\ poll'[p].copies = poll[p].copies /\ poll'[p].bases = poll[p].bases
         /\ poll'[p].entries = poll[p].entries
         /\ poll[p].phase \in {"fetched", "committed"} =>
              poll'[p].since = poll[p].since \cup Touched
<1>0. Touched \subseteq Appts
  BY DEF Touched
<1>1. PICK x \in Poll : x = poll[p]
  OBVIOUS
<1>2. PICK y \in Poll : y = [x EXCEPT !.since = x.since \cup Touched]
  BY <1>0 DEF Poll
<1>3. /\ y.since = x.since \cup Touched /\ y.phase = x.phase /\ y.tech = x.tech
      /\ y.batch = x.batch /\ y.left = x.left /\ y.copies = x.copies
      /\ y.bases = x.bases /\ y.entries = x.entries
  BY <1>2 DEF Poll
<1>4. poll'[p] = IF poll[p].phase \in {"fetched", "committed"} THEN y ELSE x
  BY <1>1, <1>2 DEF Noticed
<1> QED BY <1>1, <1>3, <1>4

(* What Google notices keeps the pollers' knowledge up to date.            *)
LEMMA NoticedStep ==
  ASSUME SyncInv, PInv', Noticed, Grows, clock' \in {clock, clock + 1},
         \A a \in Appts : rows[a] # None => rows'[a] # None /\ rows'[a].tech = rows[a].tech,
         \A a \in Appts : events[a] = None /\ events'[a] # None => rows[a] # None,
         \A row \in Row : Stale(row) => Stale(row)'
  PROVE  SyncInv'
<1>0. /\ clock \in Nat /\ clock' \in Nat /\ stamps \in [Appts -> Nat] /\ seen \in [Appts -> Nat]
      /\ poll \in [Pollers -> Poll] /\ UNCHANGED <<lease, seen>>
      /\ events \in [Appts -> Event \cup {None}]
  BY DEF SyncInv, SyncTypeOK, PInv, LInv, IInv, TypeOK, ProjectionTypeOK, Noticed
<1>1. /\ \A a \in Appts : stamps'[a] = IF a \in Touched THEN clock ELSE stamps[a]
      /\ unread' = unread \cup Touched
      /\ \A a \in Appts \ Touched : events'[a] = events[a]
      /\ Touched \subseteq Appts
  BY DEF Noticed, Touched
<1>2. ASSUME NEW p \in Pollers
      PROVE  /\ poll'[p] \in Poll
             /\ poll'[p].phase = poll[p].phase /\ poll'[p].tech = poll[p].tech
             /\ poll'[p].batch = poll[p].batch /\ poll'[p].left = poll[p].left
             /\ poll'[p].copies = poll[p].copies /\ poll'[p].bases = poll[p].bases
             /\ poll'[p].entries = poll[p].entries
             /\ poll[p].phase \in {"fetched", "committed"} =>
                  poll'[p].since = poll[p].since \cup Touched
  BY <1>0, NoticedPoll
<1>3. SyncTypeOK'
  <2>1. stamps' \in [Appts -> Nat]
    BY <1>0 DEF Noticed
  <2>2. poll' \in [Pollers -> Poll]
    <3>1. poll' = [p \in Pollers |-> poll'[p]]
      BY DEF Noticed
    <3> QED BY <1>2, <3>1
  <2>3. unread' \subseteq Appts /\ raced' \subseteq Appts /\ rewritten' \subseteq Appts
    BY <1>1 DEF SyncInv, SyncTypeOK, Noticed, Rewrites
  <2>4. ProjectionTypeOK' /\ seen' \in [Appts -> Nat] /\ lease' \in Pollers \cup {None}
    BY <1>0 DEF PInv, SyncInv, SyncTypeOK
  <2> QED BY <2>1, <2>2, <2>3, <2>4 DEF SyncTypeOK
<1>4. EventsHaveRows'
  BY DEF EventsHaveRows, SyncInv
<1>5. InTime'
  BY <1>0, <1>1 DEF InTime, SyncInv
<1>6. ASSUME NEW p \in Pollers PROVE Batched(poll[p])'
  <2> SUFFICES ASSUME NEW a \in Appts
               PROVE  /\ poll[p].copies[a] # None => Stale(poll[p].copies[a])' /\ rows'[a] # None
                      /\ poll[p].bases[a] # None => poll[p].copies[a] # None
                      /\ poll[p].entries[a] # None =>
                           /\ poll[p].entries[a].appt = a /\ poll[p].entries[a].status = "PENDING"
                           /\ rows'[a] # None
                      /\ a \in poll[p].left => poll[p].batch[a] # None /\ poll[p].copies[a] = None
                      /\ poll[p].batch[a] # None =>
                           events'[a] # None /\ poll[p].batch[a].updated <= stamps'[a]
                      /\ poll[p].phase = "committed" => poll[p].batch[a] = None
    BY <1>2 DEF Batched, Stale
  <2>1. /\ poll[p].copies[a] # None => poll[p].copies[a] \in Row
        /\ poll[p].batch[a] # None => poll[p].batch[a].updated \in Nat
    BY <1>0 DEF Poll, Change
  <2>2. /\ poll[p].copies[a] # None => Stale(poll[p].copies[a]) /\ rows[a] # None
        /\ poll[p].bases[a] # None => poll[p].copies[a] # None
        /\ poll[p].entries[a] # None =>
             /\ poll[p].entries[a].appt = a /\ poll[p].entries[a].status = "PENDING"
             /\ rows[a] # None
        /\ a \in poll[p].left => poll[p].batch[a] # None /\ poll[p].copies[a] = None
        /\ poll[p].batch[a] # None =>
             events[a] # None /\ poll[p].batch[a].updated <= stamps[a]
        /\ poll[p].phase = "committed" => poll[p].batch[a] = None
    BY DEF SyncInv, Batched
  <2>3. stamps[a] <= stamps'[a] /\ stamps[a] \in Nat /\ stamps'[a] \in Nat
    BY <1>0, <1>1 DEF SyncInv, InTime
  <2>4. poll[p].batch[a] # None => events'[a] # None /\ poll[p].batch[a].updated <= stamps'[a]
    BY <2>1, <2>2, <2>3 DEF Grows
  <2>5. poll[p].copies[a] # None => Stale(poll[p].copies[a])'
    BY <1>2, <2>1, <2>2 DEF Stale
  <2> QED BY <2>2, <2>4, <2>5
<1>7. ASSUME NEW p \in Pollers PROVE UpToDate(poll[p])'
  <2> SUFFICES ASSUME poll[p].phase \in {"fetched", "committed"}, NEW a \in Appts,
                      events'[a] # None, rows'[a].tech = poll[p].tech,
                      a \notin poll[p].since \cup Touched
               PROVE  Known(poll[p], a)' = stamps'[a]
    BY <1>2 DEF UpToDate
  <2>1. events[a] # None /\ stamps'[a] = stamps[a] /\ rows'[a].tech = rows[a].tech
    BY <1>1 DEF SyncInv, EventsHaveRows
  <2>2. Known(poll[p], a) = stamps[a]
    BY <2>1 DEF SyncInv, UpToDate
  <2> QED BY <1>0, <1>2, <2>1, <2>2 DEF Known
<1>8. TokenNeverAhead'
  BY <1>0, <1>1 DEF SyncInv, TokenNeverAhead
<1> QED BY <1>3, <1>4, <1>5, <1>6, <1>7, <1>8 DEF SyncInv

LEMMA ProjectionKeepsSync ==
  SyncInv /\ Next /\ Noticed => SyncInv'
<1> SUFFICES ASSUME SyncInv, Next, Noticed PROVE SyncInv'
  OBVIOUS
<1>1. PInv
  BY DEF SyncInv
<1> QED BY <1>1, NextFacts, NoticedStep

(* People change an event that is there, and never bring one back.         *)
LEMMA EditsGrow ==
  ASSUME SyncInv, NEW a \in Appts,
         (\E r \in EditRanges : MoveEvent(a, r)) \/ RemoveEvent(a) \/ DeclineEvent(a)
  PROVE  /\ UNCHANGED <<calls, rows, audits, outbox, txns, clock, disp, crashes>>
         /\ Noticed /\ Grows
         /\ \A b \in Appts : events[b] = None => events'[b] = None
<1>0. events \in [Appts -> Event \cup {None}]
  BY DEF SyncInv, PInv, ProjectionTypeOK
<1>1. PICK event \in Event : Edit(a, event)
  <2>1. ASSUME IsLive(a)
        PROVE  /\ \A r \in EditRanges :
                    [events[a] EXCEPT !.start = r.start, !.end = r.end] \in Event
               /\ [events[a] EXCEPT !.live = FALSE] \in Event
               /\ [events[a] EXCEPT !.declined = TRUE] \in Event
    BY <1>0, <2>1, InboundAssumption DEF IsLive, Event
  <2> QED BY <2>1 DEF MoveEvent, RemoveEvent, DeclineEvent, Edit
<1>2. UNCHANGED <<calls, rows, audits, outbox, txns, clock, disp, crashes>> /\ Noticed
  BY <1>1 DEF Edit, coreVars
<1>3. Grows /\ \A b \in Appts : events[b] = None => events'[b] = None
  <2>1. events[a] # None /\ events[a].live /\ events' = [events EXCEPT ![a] = event]
    BY <1>1 DEF Edit, IsLive
  <2> QED BY <1>0, <2>1, ProjectionAssumption DEF Grows
<1> QED BY <1>2, <1>3

LEMMA EditKeepsSync ==
  ASSUME SyncInv, NEW a \in Appts,
         (\E r \in EditRanges : MoveEvent(a, r)) \/ RemoveEvent(a) \/ DeclineEvent(a)
  PROVE  SyncInv'
<1>0. /\ events \in [Appts -> Event \cup {None}] /\ PInv /\ outbox \in [Txns -> Entry \cup {None}]
  BY DEF SyncInv, PInv, ProjectionTypeOK, TypeOK
<1>1. UNCHANGED <<calls, rows, audits, outbox, txns, clock, disp, crashes>> /\ Noticed
  BY EditsGrow
<1>2. Grows /\ \A b \in Appts : events[b] = None => events'[b] = None
  BY EditsGrow
<1>3. PInv'
  <2>1. ProjectionTypeOK'
    BY <1>0, <1>1, <1>2 DEF PInv, ProjectionTypeOK, TypeOK, Grows
  <2>2. LInv'
    BY <1>0, <1>1 DEF PInv, LInv, IInv, TypeOK, Grounded, Apart, Fresh, NotYetEnqueued,
                      OnlyCancelCancels, Stamped
  <2>3. ASSUME NEW e \in Txns, outbox[e] # None, Delivered(e) PROVE Delivered(e)'
    BY <1>0, <1>1, <1>2, <2>3, GrowsMeansDelivered
  <2>4. \A d \in Dispatchers : Sound(disp[d])'
    <3> SUFFICES ASSUME NEW d \in Dispatchers PROVE Sound(disp[d])'
      OBVIOUS
    <3>1. Sound(disp[d]) /\ disp'[d] = disp[d]
      BY <1>0, <1>1 DEF PInv
    <3> QED BY <1>1, <2>3, <3>1 DEF Sound, Holding, Pending, Stale
  <2>5. Exclusive' /\ \A e \in Txns : Honest(e)'
    BY <1>0, <1>1, <2>3 DEF PInv, Exclusive, Honest
  <2> QED BY <2>1, <2>2, <2>4, <2>5 DEF PInv
<1>4. \A row \in Row : Stale(row) => Stale(row)'
  BY <1>1 DEF Stale
<1> QED BY <1>0, <1>1, <1>2, <1>3, <1>4, NoticedStep

----------------------------------------------------------------------------
(* A poller's own steps.                                                   *)

(* A step that changes the local state of one poller and no table.         *)
LEMMA LocalPoll ==
  ASSUME SyncInv, PInv', NEW p \in Pollers, NEW x \in Poll, poll' = [poll EXCEPT ![p] = x],
         lease' \in Pollers \cup {None}, clock' \in {clock, clock + 1},
         UNCHANGED <<rows, events, stamps, seen, raced, rewritten>>,
         UNCHANGED unread \/ (unread' \subseteq Appts /\ TokenNeverAhead'),
         \A row \in Row : Stale(row) => Stale(row)',
         Batched(x)', UpToDate(x)'
  PROVE  SyncInv'
<1>0. /\ clock \in Nat /\ stamps \in [Appts -> Nat] /\ poll \in [Pollers -> Poll]
      /\ poll'[p] = x /\ \A q \in Pollers \ {p} : poll'[q] = poll[q]
  BY DEF SyncInv, SyncTypeOK, PInv, LInv, IInv, TypeOK
<1>1. SyncTypeOK'
  BY <1>0 DEF SyncInv, SyncTypeOK, PInv
<1>2. EventsHaveRows' /\ TokenNeverAhead'
  BY DEF SyncInv, EventsHaveRows, TokenNeverAhead
<1>3. InTime'
  BY <1>0 DEF SyncInv, InTime
<1>4. ASSUME NEW q \in Pollers \ {p} PROVE Batched(poll[q])'
  <2>1. PICK y \in Poll : y = poll[q]
    BY <1>0
  <2>2. \A a \in Appts : y.copies[a] \in Row \cup {None}
    BY DEF Poll
  <2>3. Batched(y)'
    BY <2>1, <2>2 DEF SyncInv, Batched
  <2> QED BY <1>0, <2>1, <2>3
<1>5. ASSUME NEW q \in Pollers \ {p} PROVE UpToDate(poll[q])'
  BY <1>0 DEF SyncInv, UpToDate, Known
<1>6. \A q \in Pollers : Batched(poll[q])' /\ UpToDate(poll[q])'
  BY <1>0, <1>4, <1>5
<1> QED BY <1>1, <1>2, <1>3, <1>6 DEF SyncInv

LEMMA RestingIsPoll ==
  ASSUME NEW phase \in {"standby", "idle"}
  PROVE  /\ Resting(phase) \in Poll
         /\ Batched(Resting(phase))' /\ UpToDate(Resting(phase))'
<1>1. \A a \in Appts : Nothing[a] = None
  BY DEF Nothing
<1>2. Resting(phase) \in Poll
  BY <1>1 DEF Resting, Poll, Nothing
<1>3. Batched(Resting(phase))'
  BY <1>1 DEF Batched, Resting
<1> QED BY <1>2, <1>3 DEF UpToDate, Resting

(* The lease comes and goes; a unit of work is given up.                   *)
LEMMA LeaseKeepsSync ==
  ASSUME SyncInv, NEW p \in Pollers,
         AcquireLease(p) \/ LoseLease(p) \/ Die(p) \/ AbortBatch(p)
  PROVE  SyncInv'
<1>0. PInv /\ clock \in Nat /\ crashes \in 0..MaxCrashes /\ lease \in Pollers \cup {None}
  BY DEF SyncInv, SyncTypeOK, PInv, LInv, IInv, TypeOK, ProjectionTypeOK
<1>1. /\ UNCHANGED <<calls, rows, audits, outbox, txns, clock, events, disp>>
      /\ UNCHANGED <<stamps, unread, seen, raced, rewritten>>
      /\ crashes' \in 0..MaxCrashes /\ lease' \in Pollers \cup {None}
  BY <1>0, ProjectionAssumption
     DEF AcquireLease, LoseLease, Die, AbortBatch, vars, coreVars, projVars
<1>2. PInv' /\ \A row \in Row : Stale(row) => Stale(row)'
  BY <1>0, <1>1, TimePasses
<1>3. ASSUME NEW phase \in {"standby", "idle"}, poll' = [poll EXCEPT ![p] = Resting(phase)]
      PROVE  SyncInv'
  BY <1>1, <1>2, <1>3, RestingIsPoll, LocalPoll
<1>4. CASE UNCHANGED poll
  <2>1. PICK x \in Poll : x = poll[p]
    BY DEF SyncInv, SyncTypeOK
  <2>2. poll' = [poll EXCEPT ![p] = x]
    BY <1>4, <2>1 DEF SyncInv, SyncTypeOK
  <2>3. \A a \in Appts : x.copies[a] \in Row \cup {None}
    BY DEF Poll
  <2>4. Batched(x)'
    BY <1>1, <1>2, <2>1, <2>3 DEF SyncInv, Batched
  <2>5. UpToDate(x)'
    BY <1>1, <2>1 DEF SyncInv, UpToDate, Known
  <2> QED BY <1>1, <1>2, <2>2, <2>4, <2>5, LocalPoll
<1> QED BY <1>3, <1>4 DEF AcquireLease, LoseLease, Die, AbortBatch

(* What is fetched is the latest there is.                                 *)
LEMMA FetchKeepsSync ==
  ASSUME SyncInv, NEW p \in Pollers, NEW k \in Techs, NEW expired \in BOOLEAN,
         Fetch(p, k, expired)
  PROVE  SyncInv'
<1>0. /\ PInv /\ clock \in Nat /\ lease \in Pollers \cup {None} /\ stamps \in [Appts -> Nat]
      /\ events \in [Appts -> Event \cup {None}] /\ seen \in [Appts -> Nat]
      /\ poll \in [Pollers -> Poll]
  BY DEF SyncInv, SyncTypeOK, PInv, LInv, IInv, TypeOK, ProjectionTypeOK
<1>1. /\ UNCHANGED <<calls, rows, audits, outbox, txns, clock, events, disp, crashes>>
      /\ UNCHANGED <<stamps, unread, lease, seen, raced, rewritten>>
  BY DEF Fetch, vars, coreVars, projVars
<1>2. PInv' /\ \A row \in Row : Stale(row) => Stale(row)'
  <2>1. crashes' \in 0..MaxCrashes
    BY <1>0, <1>1 DEF PInv, ProjectionTypeOK
  <2> QED BY <1>0, <1>1, <2>1, TimePasses
<1>3. PICK found \in SUBSET Appts : found = OnCalendar(k, IF expired THEN Appts ELSE unread)
  BY DEF OnCalendar, SyncInv, SyncTypeOK
<1>4. \A a \in found : events[a] # None /\ MapEvent(a) \in Change /\ MapEvent(a).updated = stamps[a]
  BY <1>0, <1>3 DEF OnCalendar, MapEvent, Change, Event
<1>5. PICK batch \in [Appts -> Change \cup {None}] :
        batch = [a \in Appts |-> IF a \in found THEN MapEvent(a) ELSE None]
  BY <1>4
<1>6. PICK x \in Poll : x = [Resting("fetched") EXCEPT !.tech = k, !.left = found, !.batch = batch]
  <2>1. Resting("fetched") \in Poll
    BY DEF Resting, Poll, Nothing
  <2> QED BY <2>1 DEF Poll
<1>7. /\ x.phase = "fetched" /\ x.tech = k /\ x.left = found /\ x.batch = batch /\ x.since = {}
      /\ \A a \in Appts : x.copies[a] = None /\ x.bases[a] = None /\ x.entries[a] = None
  BY <1>6 DEF Resting, Nothing
<1>8. poll' = [poll EXCEPT ![p] = x]
  BY <1>3, <1>5, <1>6 DEF Fetch
<1>9. Batched(x)'
  <2>1. ASSUME NEW a \in Appts
        PROVE  /\ a \in found => batch[a] # None
               /\ batch[a] # None => events[a] # None /\ batch[a].updated <= stamps[a]
    BY <1>0, <1>4, <1>5, InboundAssumption
  <2> QED BY <1>1, <1>7, <2>1 DEF Batched
<1>10. UpToDate(x)'
  <2> SUFFICES ASSUME NEW a \in Appts, events[a] # None, rows[a].tech = k
               PROVE  Known(x, a) = stamps[a]
    BY <1>1, <1>7 DEF UpToDate, Known
  <2>1. CASE a \in found
    BY <1>4, <1>5, <1>7, <2>1, InboundAssumption DEF Known
  <2>2. CASE a \notin found
    <3>1. a \notin unread
      BY <1>3, <2>2 DEF OnCalendar
    <3> QED BY <1>5, <1>7, <2>2, <3>1 DEF Known, SyncInv, TokenNeverAhead
  <2> QED BY <2>1, <2>2
<1> QED BY <1>0, <1>1, <1>2, <1>8, <1>9, <1>10, LocalPoll

(* A change is decided: at most a copy of the row, with a new time, and an *)
(* entry about it are added to the unit of work.                           *)
LEMMA DecidedStep ==
  ASSUME SyncInv, PInv', NEW p \in Pollers, NEW a \in Appts, Reconciling(p, a),
         NEW copy \in Row \cup {None}, NEW entry \in Entry \cup {None},
         Decided(p, a, copy, entry),
         clock' \in {clock, clock + 1},
         UNCHANGED <<rows, events, stamps, unread, lease, seen, raced, rewritten>>,
         \A row \in Row : Stale(row) => Stale(row)',
         copy # None => Stale(copy)',
         entry # None => entry.appt = a /\ entry.status = "PENDING"
  PROVE  SyncInv'
<1>0. /\ poll \in [Pollers -> Poll] /\ Batched(poll[p]) /\ clock \in Nat
      /\ lease \in Pollers \cup {None}
  BY DEF SyncInv, SyncTypeOK, PInv, LInv, IInv, TypeOK
<1>1. PICK y \in Poll : y = poll[p]
  BY <1>0
<1>2. /\ a \in y.left /\ rows[a] # None /\ y.phase = "fetched"
  BY <1>0, <1>1 DEF Reconciling, Batched, SyncInv, EventsHaveRows
<1>3. PICK began \in Nat : began = Began(p)
  BY <1>0, <1>1 DEF Began, Poll
<1>4. PICK x \in Poll :
        x = [y EXCEPT !.left = y.left \ {a}, !.began = began,
                      !.copies = [y.copies EXCEPT ![a] = copy],
                      !.entries = [y.entries EXCEPT ![a] = entry]]
  <2>1. /\ [y.copies EXCEPT ![a] = copy] \in [Appts -> Row \cup {None}]
        /\ [y.entries EXCEPT ![a] = entry] \in [Appts -> Entry \cup {None}]
        /\ y.left \ {a} \in SUBSET Appts
    BY DEF Poll
  <2> QED BY <2>1 DEF Poll
<1>5. poll' = [poll EXCEPT ![p] = x]
  BY <1>1, <1>3, <1>4 DEF Decided
<1>6. /\ x.phase = y.phase /\ x.tech = y.tech /\ x.batch = y.batch /\ x.since = y.since
      /\ x.bases = y.bases /\ x.left = y.left \ {a}
      /\ x.copies = [y.copies EXCEPT ![a] = copy] /\ x.entries = [y.entries EXCEPT ![a] = entry]
      /\ \A b \in Appts : y.copies[b] \in Row \cup {None}
      /\ y.copies \in [Appts -> Row \cup {None}] /\ y.entries \in [Appts -> Entry \cup {None}]
  BY <1>4 DEF Poll
<1>7. Batched(x)'
  <2> SUFFICES ASSUME NEW b \in Appts
               PROVE  /\ x.copies[b] # None => Stale(x.copies[b])' /\ rows[b] # None
                      /\ x.bases[b] # None => x.copies[b] # None
                      /\ x.entries[b] # None =>
                           x.entries[b].appt = b /\ x.entries[b].status = "PENDING" /\ rows[b] # None
                      /\ b \in x.left => x.batch[b] # None /\ x.copies[b] = None
                      /\ x.batch[b] # None => events[b] # None /\ x.batch[b].updated <= stamps[b]
    BY <1>2, <1>6 DEF Batched, Stale
  <2>1. /\ y.copies[b] # None => Stale(y.copies[b]) /\ rows[b] # None
        /\ y.bases[b] # None => y.copies[b] # None
        /\ y.entries[b] # None =>
             y.entries[b].appt = b /\ y.entries[b].status = "PENDING" /\ rows[b] # None
        /\ b \in y.left => y.batch[b] # None /\ y.copies[b] = None
        /\ y.batch[b] # None => events[b] # None /\ y.batch[b].updated <= stamps[b]
    BY <1>0, <1>1 DEF Batched
  <2>2. CASE b = a
    BY <1>2, <1>6, <2>1, <2>2
  <2>3. CASE b # a
    BY <1>6, <2>1, <2>3
  <2> QED BY <2>2, <2>3
<1>8. UpToDate(x)'
  <2>1. UpToDate(y)
    BY <1>1 DEF SyncInv
  <2> QED BY <1>6, <2>1 DEF UpToDate, Known
<1> QED BY <1>0, <1>5, <1>7, <1>8, LocalPoll

LEMMA ReconcileKeepsSync ==
  ASSUME SyncInv, NEW p \in Pollers, NEW a \in Appts,
         \/ Ignore(p, a) \/ CancelInbound(p, a)
         \/ RescheduleInbound(p, a) \/ RejectInbound(p, a)
  PROVE  SyncInv'
<1>0. /\ PInv /\ clock \in Nat /\ crashes \in 0..MaxCrashes /\ poll \in [Pollers -> Poll]
      /\ Batched(poll[p]) /\ rows \in [Appts -> Row \cup {None}]
  BY DEF SyncInv, SyncTypeOK, PInv, LInv, IInv, TypeOK, ProjectionTypeOK
<1>1. Reconciling(p, a)
  BY DEF Ignore, CancelInbound, RescheduleInbound, RejectInbound
<1>2. PICK change \in Change : change = poll[p].batch[a]
  BY <1>0, <1>1 DEF Reconciling, Batched, Poll
<1>3. PICK row \in Row : row = rows[a]
  BY <1>0, <1>1 DEF Reconciling, Batched, SyncInv, EventsHaveRows
<1>4. /\ UNCHANGED <<calls, rows, audits, outbox, txns, events, disp, crashes>>
      /\ UNCHANGED <<stamps, unread, lease, seen, raced, rewritten>>
      /\ clock' \in {clock, clock + 1}
  BY DEF Ignore, CancelInbound, RescheduleInbound, RejectInbound, vars, coreVars, projVars
<1>5. PInv' /\ \A r \in Row : Stale(r) => Stale(r)'
  BY <1>0, <1>4, TimePasses
<1>6. Began(p) \in Nat
  BY <1>0 DEF Began, Poll
<1>7. ASSUME NEW copy \in Row, copy.updated = clock, clock' = clock + 1 PROVE Stale(copy)'
  <2>1. \A t \in Txns : Mutated(txns[t]) => txns[t].copy.updated < clock /\ txns[t].copy.updated \in Nat
    BY <1>0 DEF PInv, LInv, IInv, Stamped, Grounded, WellFormed, Mutated, Row
  <2> QED BY <1>0, <1>4, <1>7, <2>1 DEF Stale
<1>8. CASE Ignore(p, a)
  BY <1>1, <1>4, <1>5, <1>8, DecidedStep DEF Ignore
<1>9. CASE CancelInbound(p, a)
  <2>1. PICK copy \in Row : copy = Cancelled(row, clock) /\ copy.updated = clock
    <3>1. Cancelled(row, clock) \in Row /\ Cancelled(row, clock).updated = clock
      BY <1>0 DEF Cancelled, Row, Statuses
    <3> QED BY <3>1
  <2>2. PICK entry \in Entry \cup {None} :
          /\ entry = IF change.cancelled THEN None ELSE Owed(p, a, "DELETE", row.event)
          /\ entry # None => entry.appt = a /\ entry.status = "PENDING"
    <3>1. Owed(p, a, "DELETE", row.event) \in Entry
      BY <1>6 DEF Owed, Entry, Row
    <3> QED BY <3>1 DEF Owed
  <2>3. Decided(p, a, copy, entry) /\ clock' = clock + 1
    BY <1>2, <1>3, <1>9, <2>1, <2>2 DEF CancelInbound
  <2> QED BY <1>1, <1>4, <1>5, <1>7, <2>1, <2>2, <2>3, DecidedStep
<1>10. CASE RescheduleInbound(p, a)
  <2>1. PICK copy \in Row : copy = Rescheduled(row, change, clock) /\ copy.updated = clock
    <3>1. /\ Rescheduled(row, change, clock) \in Row
          /\ Rescheduled(row, change, clock).updated = clock
      BY <1>0 DEF Rescheduled, Row, Statuses, Change
    <3> QED BY <3>1
  <2>2. Decided(p, a, copy, None) /\ clock' = clock + 1
    BY <1>2, <1>3, <1>10, <2>1 DEF RescheduleInbound
  <2> QED BY <1>1, <1>4, <1>5, <1>7, <2>1, <2>2, DecidedStep
<1>11. CASE RejectInbound(p, a)
  <2>1. PICK entry \in Entry : /\ entry = Owed(p, a, "UPDATE", None)
                               /\ entry.appt = a /\ entry.status = "PENDING"
    <3>1. Owed(p, a, "UPDATE", None) \in Entry
      BY <1>6 DEF Owed, Entry
    <3> QED BY <3>1 DEF Owed
  <2>2. Decided(p, a, None, entry)
    BY <1>11, <2>1 DEF RejectInbound
  <2> QED BY <1>1, <1>4, <1>5, <2>1, <2>2, DecidedStep
<1> QED BY <1>8, <1>9, <1>10, <1>11

LEMMA RereadKeepsSync ==
  ASSUME SyncInv, NEW p \in Pollers, NEW a \in Appts, InboundReread(p, a)
  PROVE  SyncInv'
<1>0. /\ PInv /\ clock \in Nat /\ crashes \in 0..MaxCrashes /\ poll \in [Pollers -> Poll]
      /\ rows \in [Appts -> Row \cup {None}] /\ lease \in Pollers \cup {None}
  BY DEF SyncInv, SyncTypeOK, PInv, LInv, IInv, TypeOK, ProjectionTypeOK
<1>1. PICK y \in Poll : y = poll[p]
  BY <1>0
<1>2. Batched(y) /\ UpToDate(y) /\ y.copies[a] # None
  BY <1>1 DEF InboundReread, SyncInv, Batched, UpToDate, Known
<1>3. PICK row \in Row : row = rows[a]
  BY <1>0, <1>2 DEF Batched
<1>4. PICK x \in Poll : x = [y EXCEPT !.bases = [y.bases EXCEPT ![a] = row]]
  <2>1. [y.bases EXCEPT ![a] = row] \in [Appts -> Row \cup {None}]
    BY DEF Poll
  <2> QED BY <2>1 DEF Poll
<1>5. poll' = [poll EXCEPT ![p] = x]
  BY <1>0, <1>1, <1>3, <1>4 DEF InboundReread
<1>6. /\ x.phase = y.phase /\ x.tech = y.tech /\ x.batch = y.batch /\ x.since = y.since
      /\ x.left = y.left /\ x.copies = y.copies /\ x.entries = y.entries
      /\ \A b \in Appts \ {a} : x.bases[b] = y.bases[b]
  BY <1>4 DEF Poll
<1>7. UNCHANGED <<calls, rows, audits, outbox, txns, clock, events, disp, crashes>>
      /\ UNCHANGED <<stamps, unread, lease, seen, raced, rewritten>>
  BY DEF InboundReread, vars, coreVars, projVars
<1>8. PInv' /\ \A r \in Row : Stale(r) => Stale(r)'
  BY <1>0, <1>7, TimePasses
<1>9. Batched(x)'
  BY <1>2, <1>6, <1>7 DEF Batched, Stale
<1>10. UpToDate(x)'
  BY <1>2, <1>6, <1>7 DEF UpToDate, Known
<1> QED BY <1>0, <1>5, <1>7, <1>8, <1>9, <1>10, LocalPoll

(* The token that is stored lists what the poller has not reconciled.      *)
LEMMA StoreTokenKeepsSync ==
  ASSUME SyncInv, NEW p \in Pollers, StoreToken(p)
  PROVE  SyncInv'
<1>0. /\ PInv /\ clock \in Nat /\ crashes \in 0..MaxCrashes /\ poll \in [Pollers -> Poll]
      /\ lease \in Pollers \cup {None} /\ unread \subseteq Appts
  BY DEF SyncInv, SyncTypeOK, PInv, LInv, IInv, TypeOK, ProjectionTypeOK
<1>1. /\ UNCHANGED <<calls, rows, audits, outbox, txns, clock, events, disp, crashes>>
      /\ UNCHANGED <<stamps, lease, seen, raced, rewritten>>
      /\ poll' = [poll EXCEPT ![p] = Resting("idle")] /\ poll[p].phase = "committed"
      /\ unread' = OnCalendar(poll[p].tech, poll[p].since)
                   \cup (unread \ OnCalendar(poll[p].tech, unread))
  BY DEF StoreToken, vars, coreVars, projVars
<1>2. PInv' /\ \A r \in Row : Stale(r) => Stale(r)'
  BY <1>0, <1>1, TimePasses
<1>3. unread' \subseteq Appts
  BY <1>0, <1>1 DEF OnCalendar, Poll
<1>4. TokenNeverAhead'
  <2> SUFFICES ASSUME NEW a \in Appts, events[a] # None, a \notin unread'
               PROVE  seen[a] = stamps[a]
    BY <1>1 DEF TokenNeverAhead
  <2>1. CASE a \notin unread
    BY <2>1 DEF SyncInv, TokenNeverAhead
  <2>2. CASE a \in unread
    <3>1. a \in OnCalendar(poll[p].tech, unread) /\ a \notin OnCalendar(poll[p].tech, poll[p].since)
      BY <1>1, <2>2
    <3>2. rows[a].tech = poll[p].tech /\ a \notin poll[p].since
      BY <3>1 DEF OnCalendar
    <3>3. Known(poll[p], a) = stamps[a]
      BY <1>1, <3>2 DEF SyncInv, UpToDate
    <3>4. poll[p].batch[a] = None
      BY <1>1 DEF SyncInv, Batched
    <3> QED BY <3>3, <3>4 DEF Known
  <2> QED BY <2>1, <2>2
<1> QED BY <1>0, <1>1, <1>2, <1>3, <1>4, RestingIsPoll, LocalPoll

----------------------------------------------------------------------------
(* The commit of a batch.                                                  *)

(* The row a batch leaves: a column-wise merge that keeps the technician.  *)
LEMMA ViewedRow ==
  ASSUME SyncInv, NEW p \in Pollers, NEW a \in Appts
  PROVE  /\ View(p)[a] \in Row \cup {None}
         /\ View(p)[a] = None <=> rows[a] = None
         /\ rows[a] # None => View(p)[a].tech = rows[a].tech /\ Stale(View(p)[a])
         /\ poll[p].copies[a] = None => View(p)[a] = rows[a]
<1>0. /\ rows \in [Appts -> Row \cup {None}] /\ poll \in [Pollers -> Poll]
      /\ rows[a] # None => Stale(rows[a])
  BY DEF SyncInv, SyncTypeOK, ProjectionTypeOK, TypeOK, PInv, LInv, Stamped, Stale
<1>1. PICK y \in Poll : y = poll[p]
  BY <1>0
<1>2. /\ y.copies[a] \in Row \cup {None} /\ y.bases[a] \in Row \cup {None}
      /\ y.bases[a] # None => y.copies[a] # None /\ rows[a] # None /\ Stale(y.copies[a])
  BY <1>1 DEF Poll, SyncInv, Batched
<1>3. View(p)[a] = IF y.bases[a] = None THEN rows[a] ELSE Merged(y.copies[a], y.bases[a], rows[a])
  BY <1>1 DEF View
<1>4. CASE y.bases[a] = None
  BY <1>0, <1>3, <1>4
<1>5. CASE y.bases[a] # None
  <2>1. PICK copy \in Row, basis \in Row, row \in Row :
          copy = y.copies[a] /\ basis = y.bases[a] /\ row = rows[a]
    BY <1>0, <1>2, <1>5
  <2>2. PICK new \in Row : new = Merged(copy, basis, row) /\ new.tech = row.tech
    BY MergedIsRow
  <2>3. new.updated \in {copy.updated, row.updated}
    BY <2>2 DEF Merged, Column, Row
  <2>4. Stale(new)
    BY <1>0, <1>2, <1>5, <2>1, <2>3 DEF Stale
  <2>5. View(p)[a] = new /\ new # None /\ rows[a] # None
    BY <1>2, <1>3, <1>5, <2>1, <2>2, NoneAssumption
  <2> QED BY <1>1, <1>2, <1>5, <2>1, <2>2, <2>4, <2>5
<1> QED BY <1>4, <1>5

(* What the commit changes of rows, requests and outbox: rows by a merge,  *)
(* and ids that no request has used take the entries.                      *)
LEMMA BatchTables ==
  ASSUME SyncInv, NEW p \in Pollers, CommitBatch(p)
  PROVE  /\ UNCHANGED <<calls, clock, events, disp, crashes>>
         /\ \A a \in Appts :
              /\ rows'[a] \in Row \cup {None} /\ (rows'[a] = None <=> rows[a] = None)
              /\ rows[a] # None => rows'[a].tech = rows[a].tech /\ Stale(rows'[a])
         /\ \A t \in Txns :
              \/ outbox'[t] = outbox[t] /\ txns'[t] = txns[t]
              \/ /\ txns[t].phase = "idle" /\ txns'[t] = Unbound("done") /\ outbox[t] = None
                 /\ outbox'[t] \in Entry /\ outbox'[t].status = "PENDING"
                 /\ rows[outbox'[t].appt] # None
<1>0. /\ poll \in [Pollers -> Poll] /\ outbox \in [Txns -> Entry \cup {None}]
      /\ Batched(poll[p]) /\ NotYetEnqueued
  BY DEF SyncInv, SyncTypeOK, ProjectionTypeOK, TypeOK, PInv, LInv
<1>1. PICK y \in Poll : y = poll[p]
  BY <1>0
<1>2. rows' = View(p) /\ UNCHANGED <<calls, clock, events, disp, crashes>>
  BY DEF CommitBatch, projVars
<1> DEFINE owing == {a \in Appts : poll[p].entries[a] # None}
<1>4. PICK id \in [owing -> {t \in Txns : txns[t].phase = "idle"}] :
        /\ outbox' = [t \in Txns |->
             IF \E a \in owing : id[a] = t
             THEN poll[p].entries[CHOOSE a \in owing : id[a] = t] ELSE outbox[t]]
        /\ txns' = [t \in Txns |->
             IF \E a \in owing : id[a] = t THEN Unbound("done") ELSE txns[t]]
  BY Zenon DEF CommitBatch
<1>5. ASSUME NEW t \in Txns
      PROVE  \/ outbox'[t] = outbox[t] /\ txns'[t] = txns[t]
             \/ /\ txns[t].phase = "idle" /\ txns'[t] = Unbound("done") /\ outbox[t] = None
                /\ outbox'[t] \in Entry /\ outbox'[t].status = "PENDING"
                /\ rows[outbox'[t].appt] # None
  <2>1. CASE ~\E a \in owing : id[a] = t
    BY <1>4, <2>1
  <2>2. CASE \E a \in owing : id[a] = t
    <3>1. PICK a \in owing : a = CHOOSE b \in owing : id[b] = t
      BY <2>2
    <3>2. id[a] = t /\ y.entries[a] # None /\ y.entries[a] \in Entry \cup {None}
      BY <1>1, <2>2, <3>1 DEF Poll
    <3>3. outbox'[t] = y.entries[a] /\ txns'[t] = Unbound("done")
      BY <1>1, <1>4, <2>2, <3>1
    <3>4. txns[t].phase = "idle" /\ outbox[t] = None
      BY <1>0, <1>4, <3>1, <3>2 DEF NotYetEnqueued
    <3>5. y.entries[a].appt = a /\ y.entries[a].status = "PENDING" /\ rows[a] # None
      BY <1>0, <1>1, <3>2 DEF Batched
    <3> QED BY <3>2, <3>3, <3>4, <3>5
  <2> QED BY <2>1, <2>2
<1>6. ASSUME NEW a \in Appts
      PROVE  /\ rows'[a] \in Row \cup {None} /\ (rows'[a] = None <=> rows[a] = None)
             /\ rows[a] # None => rows'[a].tech = rows[a].tech /\ Stale(rows'[a])
  BY <1>2, ViewedRow
<1> QED BY <1>2, <1>5, <1>6

(* What the constraint lets the batch as a whole become: each saved row    *)
(* against every row the batch leaves.                                     *)
LEMMA BatchAllowed ==
  ASSUME SyncInv, NEW p \in Pollers, CommitBatch(p), NEW a \in Appts, NEW b \in Appts \ {a},
         rows'[a] # rows[a], Active(rows'[a]), rows'[b] # None, Active(rows'[b]),
         rows'[a].tech = rows'[b].tech
  PROVE  ~Meets(rows'[b], rows'[a])
<1>1. rows' = View(p) /\ ConstraintAllowsBatch(p)
  BY DEF CommitBatch
<1>2. a \in Saved(p) /\ rows[a] # None /\ View(p)[a].tech = rows[a].tech
  BY <1>1, ViewedRow DEF Saved
<1>3. Clashing(p, a, View(p)[a]) = {}
  BY <1>1, <1>2 DEF ConstraintAllowsBatch
<1> QED BY <1>1, <1>2, <1>3 DEF Clashing

LEMMA BatchKeepsTables ==
  ASSUME SyncInv, NEW p \in Pollers, CommitBatch(p)
  PROVE  PInv' /\ \A row \in Row : Stale(row) => Stale(row)'
<1>0. /\ rows \in [Appts -> Row \cup {None}] /\ outbox \in [Txns -> Entry \cup {None}]
      /\ txns \in [Txns -> Txn] /\ clock \in Nat /\ PInv /\ LInv
      /\ audits \in [Appts -> Seq(AuditActions)]
  BY DEF SyncInv, PInv, LInv, IInv, TypeOK
<1>1. /\ UNCHANGED <<calls, clock, events, disp, crashes>>
      /\ \A a \in Appts :
           /\ rows'[a] \in Row \cup {None} /\ (rows'[a] = None <=> rows[a] = None)
           /\ rows[a] # None => rows'[a].tech = rows[a].tech /\ Stale(rows'[a])
      /\ \A t \in Txns :
           \/ outbox'[t] = outbox[t] /\ txns'[t] = txns[t]
           \/ /\ txns[t].phase = "idle" /\ txns'[t] = Unbound("done") /\ outbox[t] = None
              /\ outbox'[t] \in Entry /\ outbox'[t].status = "PENDING"
              /\ rows[outbox'[t].appt] # None
  BY BatchTables
<1>2. /\ Unbound("done") \in Txn /\ Unbound("done").phase = "done" /\ Unbound("done").appt = None
      /\ WellFormed(Unbound("done")) /\ ~Saves(Unbound("done")) /\ ~Books(Unbound("done"))
      /\ ~Mutated(Unbound("done")) /\ ~Writes(Unbound("done"))
  BY DEF Unbound, Txn, WellFormed, Saves, Books, Mutated, Writes
<1>3. TypeOK'
  <2>1. rows' = [a \in Appts |-> rows'[a]]
    BY DEF CommitBatch, View
  <2>2. outbox' = [t \in Txns |-> outbox'[t]] /\ txns' = [t \in Txns |-> txns'[t]]
    BY DEF CommitBatch
  <2>3. audits' \in [Appts -> Seq(AuditActions)]
    <3>1. audits' = [a \in Appts |->
             IF a \in Saved(p)
             THEN Append(audits[a], IF poll[p].copies[a].status = "CANCELLED"
                                    THEN "CANCELLED" ELSE "RESCHEDULED")
             ELSE audits[a]]
      BY DEF CommitBatch
    <3> QED BY <1>0, <3>1 DEF AuditActions
  <2>4. rows' \in [Appts -> Row \cup {None}]
    BY <1>1, <2>1
  <2>5. outbox' \in [Txns -> Entry \cup {None}] /\ txns' \in [Txns -> Txn]
    BY <1>0, <1>1, <1>2, <2>2
  <2> QED BY <1>0, <1>1, <2>3, <2>4, <2>5 DEF TypeOK, IInv, LInv
<1>4. Grounded'
  BY <1>0, <1>1, <1>2 DEF LInv, IInv, Grounded, Saves, WellFormed
<1>5. Apart'
  <2> SUFFICES ASSUME NEW b \in Appts, NEW c \in Appts, b # c, rows'[b] # None, rows'[c] # None,
                      Active(rows'[b]), Active(rows'[c]), rows'[b].tech = rows'[c].tech
               PROVE  ~Meets(rows'[b], rows'[c])
    BY DEF Apart
  <2>1. CASE rows'[b] # rows[b]
    <3>1. ~Meets(rows'[c], rows'[b])
      BY <2>1, BatchAllowed
    <3> QED BY <3>1 DEF Meets
  <2>2. CASE rows'[c] # rows[c]
    BY <2>2, BatchAllowed
  <2>3. CASE rows'[b] = rows[b] /\ rows'[c] = rows[c]
    BY <1>0, <2>3 DEF LInv, IInv, Apart
  <2> QED BY <2>1, <2>2, <2>3
<1>6. Fresh'
  <2> SUFFICES ASSUME NEW t \in Txns, Books(txns'[t])
               PROVE  /\ rows'[txns'[t].appt] = None
                      /\ \A u \in Txns \ {t} : txns'[u].appt # txns'[t].appt
    BY DEF Fresh
  <2>1. txns'[t] = txns[t] /\ Books(txns[t])
    BY <1>1, <1>2
  <2>2. txns[t].appt \in Appts /\ txns[t].appt # None
    BY <1>0, <2>1, NoneAssumption DEF LInv, IInv, Grounded, WellFormed, Books
  <2>3. /\ rows[txns[t].appt] = None
        /\ \A u \in Txns \ {t} : txns[u].appt # txns[t].appt
    BY <1>0, <2>1 DEF LInv, Fresh
  <2>4. ASSUME NEW u \in Txns \ {t} PROVE txns'[u].appt # txns'[t].appt
    BY <1>1, <1>2, <2>1, <2>2, <2>3
  <2> QED BY <1>1, <2>1, <2>2, <2>3, <2>4
<1>7. NotYetEnqueued' /\ OnlyCancelCancels'
  BY <1>0, <1>1, <1>2 DEF LInv, NotYetEnqueued, OnlyCancelCancels
<1>8. \A t \in Txns : Mutated(txns'[t]) => txns'[t] = txns[t]
  BY <1>1, <1>2
<1>9. Stamped'
  <2>1. \A a \in Appts : rows'[a] # None => Stale(rows'[a])
    BY <1>1
  <2>2. \A t \in Txns : txns'[t].phase = "reread" => txns'[t] = txns[t]
    BY <1>8 DEF Mutated
  <2> QED BY <1>0, <1>1, <1>8, <2>1, <2>2 DEF LInv, Stamped, Stale
<1>10. \A row \in Row : Stale(row) => Stale(row)'
  BY <1>1, <1>8 DEF Stale
<1>11. \A d \in Dispatchers : Sound(disp[d])'
  <2> SUFFICES ASSUME NEW d \in Dispatchers PROVE Sound(disp[d])'
    OBVIOUS
  <2>1. Sound(disp[d]) /\ disp[d].copy \in Row \cup {None} /\ disp'[d] = disp[d]
    BY <1>0, <1>1 DEF PInv, ProjectionTypeOK, Worker
  <2>2. disp[d].copy # None => Stale(disp[d].copy)'
    BY <1>1, <1>8, <2>1 DEF Sound, Stale
  <2>3. Holding(disp[d]) => /\ disp[d].entry \in Txns /\ outbox[disp[d].entry] # None
                            /\ outbox'[disp[d].entry] = outbox[disp[d].entry]
    BY <1>0, <1>1, HeldEntry
  <2> QED BY <1>1, <2>1, <2>2, <2>3 DEF Sound, Holding, Pending, Delivered
<1>12. \A e \in Txns : Honest(e)'
  <2> SUFFICES ASSUME NEW e \in Txns PROVE Honest(e)'
    OBVIOUS
  <2>1. CASE outbox'[e] = outbox[e]
    <3>1. outbox[e] # None => outbox[e].appt \in Appts
      BY <1>0 DEF Entry
    <3> QED BY <1>0, <1>1, <2>1, <3>1 DEF PInv, Honest, Delivered
  <2>2. CASE outbox'[e] \in Entry /\ outbox'[e].status = "PENDING" /\ rows[outbox'[e].appt] # None
    <3>1. outbox'[e].appt \in Appts
      BY <2>2 DEF Entry
    <3> QED BY <1>1, <2>2, <3>1 DEF Honest
  <2> QED BY <1>1, <2>1, <2>2
<1>13. ProjectionTypeOK' /\ Exclusive'
  BY <1>0, <1>1, <1>3 DEF PInv, ProjectionTypeOK, Exclusive
<1> QED BY <1>3, <1>4, <1>5, <1>6, <1>7, <1>9, <1>10, <1>11, <1>12, <1>13 DEF PInv, LInv, IInv

(* A committed batch has reconciled what it fetched.                       *)
LEMMA CommitKeepsSync ==
  ASSUME SyncInv, NEW p \in Pollers, CommitBatch(p)
  PROVE  SyncInv'
<1>0. /\ poll \in [Pollers -> Poll] /\ seen \in [Appts -> Nat] /\ stamps \in [Appts -> Nat]
      /\ Batched(poll[p]) /\ UpToDate(poll[p]) /\ poll[p].phase = "fetched"
      /\ \A q \in Pollers : Batched(poll[q]) /\ UpToDate(poll[q])
  BY DEF SyncInv, SyncTypeOK, CommitBatch
<1>1. /\ PInv' /\ \A row \in Row : Stale(row) => Stale(row)'
  BY BatchKeepsTables
<1>2. /\ UNCHANGED <<clock, events, stamps, unread, lease, raced, rewritten>>
      /\ \A a \in Appts : (rows'[a] = None <=> rows[a] = None)
                          /\ (rows[a] # None => rows'[a].tech = rows[a].tech)
  BY BatchTables DEF CommitBatch
<1>3. PICK x \in Poll : x = [Resting("committed") EXCEPT !.tech = poll[p].tech,
                                                         !.since = poll[p].since]
  <2>1. PICK y \in Poll : y = poll[p]
    BY <1>0
  <2>2. Resting("committed") \in Poll
    BY DEF Resting, Poll, Nothing
  <2> QED BY <2>1, <2>2 DEF Poll
<1>4. /\ poll' = [poll EXCEPT ![p] = x] /\ x.phase = "committed"
      /\ x.tech = poll[p].tech /\ x.since = poll[p].since /\ x.left = {}
      /\ \A a \in Appts : x.batch[a] = None /\ x.copies[a] = None /\ x.bases[a] = None
                          /\ x.entries[a] = None
  BY <1>3 DEF CommitBatch, Resting, Nothing
<1>5. /\ poll'[p] = x /\ \A q \in Pollers \ {p} : poll'[q] = poll[q]
  BY <1>0, <1>4
<1>6. ASSUME NEW a \in Appts
      PROVE  /\ seen'[a] = IF poll[p].batch[a] # None /\ poll[p].batch[a].updated > seen[a]
                           THEN poll[p].batch[a].updated ELSE seen[a]
             /\ poll[p].batch[a] # None => poll[p].batch[a].updated \in Nat
             /\ poll[p].batch[a] # None => poll[p].batch[a].updated <= stamps[a]
             /\ seen'[a] \in Nat /\ seen[a] <= seen'[a] /\ seen'[a] <= stamps[a]
             /\ seen[a] \in Nat /\ stamps[a] \in Nat
  <2>1. seen'[a] = IF poll[p].batch[a] # None /\ poll[p].batch[a].updated > seen[a]
                   THEN poll[p].batch[a].updated ELSE seen[a]
    BY DEF CommitBatch
  <2>2. poll[p].batch[a] # None => poll[p].batch[a].updated \in Nat
    BY <1>0 DEF Poll, Change
  <2>3. poll[p].batch[a] # None => poll[p].batch[a].updated <= stamps[a]
    BY <1>0 DEF Batched
  <2>4. seen[a] \in Nat /\ stamps[a] \in Nat /\ seen[a] <= stamps[a]
    BY <1>0 DEF SyncInv, InTime
  <2> QED BY <2>1, <2>2, <2>3, <2>4
(* What was known with the batch is known for good.                        *)
<1>7. ASSUME NEW q \in Pollers, NEW a \in Appts, Known(poll[q], a) = stamps[a], q # p
      PROVE  Known(poll[q], a)' = stamps'[a]
  BY <1>2, <1>5, <1>6, <1>7 DEF Known
<1>8. SyncTypeOK'
  <2>1. seen' \in [Appts -> Nat]
    <3>1. seen' = [a \in Appts |-> seen'[a]]
      BY DEF CommitBatch
    <3> QED BY <1>6, <3>1
  <2>2. poll' \in [Pollers -> Poll]
    BY <1>0, <1>4
  <2> QED BY <1>1, <1>2, <2>1, <2>2 DEF SyncInv, SyncTypeOK, PInv
<1>9. EventsHaveRows' /\ InTime'
  BY <1>2, <1>6 DEF SyncInv, EventsHaveRows, InTime
<1>10. ASSUME NEW q \in Pollers PROVE Batched(poll[q])'
  <2>1. CASE q = p
    BY <1>4, <1>5, <2>1 DEF Batched
  <2>2. CASE q # p
    <3>1. PICK y \in Poll : y = poll[q]
      BY <1>0
    <3>2. \A a \in Appts : y.copies[a] \in Row \cup {None}
      BY DEF Poll
    <3>3. Batched(y)'
      BY <1>0, <1>1, <1>2, <3>1, <3>2 DEF Batched
    <3> QED BY <1>5, <2>2, <3>1, <3>3
  <2> QED BY <2>1, <2>2
<1>11. ASSUME NEW q \in Pollers PROVE UpToDate(poll[q])'
  <2> SUFFICES ASSUME poll'[q].phase \in {"fetched", "committed"}, NEW a \in Appts,
                      events'[a] # None, rows'[a].tech = poll'[q].tech, a \notin poll'[q].since
               PROVE  Known(poll[q], a)' = stamps'[a]
    BY DEF UpToDate
  <2>1. events[a] # None /\ rows[a].tech = rows'[a].tech
    BY <1>2 DEF SyncInv, EventsHaveRows
  <2>2. Known(poll[q], a) = stamps[a]
    BY <1>0, <1>4, <1>5, <2>1 DEF UpToDate
  <2>3. CASE q # p
    BY <1>7, <2>2, <2>3
  <2>4. CASE q = p
    BY <1>2, <1>4, <1>5, <1>6, <2>2, <2>4 DEF Known
  <2> QED BY <2>3, <2>4
<1>12. TokenNeverAhead'
  BY <1>2, <1>6 DEF SyncInv, TokenNeverAhead
<1> QED BY <1>1, <1>8, <1>9, <1>10, <1>11, <1>12 DEF SyncInv

----------------------------------------------------------------------------
(* The invariant of the specification.                                     *)

LEMMA SyncInitially == Init /\ SyncInit => SyncInv
<1> SUFFICES ASSUME Init, SyncInit PROVE SyncInv
  OBVIOUS
<1>1. PInv
  BY ProjectionInitially
<1>2. \A a \in Appts : Nothing[a] = None /\ events[a] = None
  BY DEF Nothing, Init, ProjInit
<1>3. Resting("standby") \in Poll
  BY DEF Resting, Poll, Nothing
<1>4. SyncTypeOK
  BY <1>1, <1>3 DEF SyncTypeOK, SyncInit, PInv
<1>5. \A p \in Pollers : Batched(poll[p]) /\ UpToDate(poll[p])
  BY <1>2 DEF SyncInit, Batched, UpToDate, Resting
<1>6. EventsHaveRows /\ TokenNeverAhead
  BY <1>2 DEF EventsHaveRows, TokenNeverAhead
<1>7. InTime
  <2>1. clock \in Nat
    BY <1>1 DEF PInv, LInv, IInv, TypeOK
  <2> QED BY <2>1 DEF InTime, SyncInit
<1> QED BY <1>1, <1>4, <1>5, <1>6, <1>7 DEF SyncInv

LEMMA StutterKeepsSync == SyncInv /\ UNCHANGED allVars => SyncInv'
<1> SUFFICES ASSUME SyncInv, UNCHANGED allVars PROVE SyncInv'
  OBVIOUS
<1>1. /\ UNCHANGED <<calls, rows, audits, outbox, txns, clock, events, disp, crashes>>
      /\ UNCHANGED <<stamps, unread, lease, poll, edits, seen, raced, rewritten>>
  BY DEF allVars, vars, coreVars, projVars, syncVars
<1>2. PInv'
  BY ProjectionInductive DEF SyncInv, allVars
<1>3. SyncTypeOK'
  BY <1>1, <1>2 DEF SyncInv, SyncTypeOK, PInv
<1>4. EventsHaveRows' /\ InTime' /\ TokenNeverAhead'
  BY <1>1 DEF SyncInv, EventsHaveRows, InTime, TokenNeverAhead
<1>5. \A p \in Pollers : Batched(poll[p])' /\ UpToDate(poll[p])'
  BY <1>1 DEF SyncInv, Batched, UpToDate, Known, Stale
<1> QED BY <1>2, <1>3, <1>4, <1>5 DEF SyncInv

LEMMA PollerKeepsSync ==
  ASSUME SyncInv, NEW p \in Pollers, Poller(p)
  PROVE  SyncInv'
<1>1. ASSUME NEW k \in Techs, Fetch(p, k, TRUE) \/ Fetch(p, k, FALSE)
      PROVE  SyncInv'
  BY <1>1, FetchKeepsSync
<1>2. ASSUME NEW a \in Appts,
             Ignore(p, a) \/ CancelInbound(p, a) \/ RescheduleInbound(p, a) \/ RejectInbound(p, a)
      PROVE  SyncInv'
  BY <1>2, ReconcileKeepsSync
<1>3. ASSUME NEW a \in Appts, InboundReread(p, a) PROVE SyncInv'
  BY <1>3, RereadKeepsSync
<1>4. CASE CommitBatch(p)
  BY <1>4, CommitKeepsSync
<1>5. CASE StoreToken(p)
  BY <1>5, StoreTokenKeepsSync
<1>6. CASE AcquireLease(p) \/ LoseLease(p) \/ Die(p) \/ AbortBatch(p)
  BY <1>6, LeaseKeepsSync
<1> QED BY <1>1, <1>2, <1>3, <1>4, <1>5, <1>6 DEF Poller, Sweep

LEMMA SyncInductive == SyncInv /\ [SyncNext]_allVars => SyncInv'
<1> SUFFICES ASSUME SyncInv, [SyncNext]_allVars PROVE SyncInv'
  OBVIOUS
<1>1. CASE Next /\ Noticed
  BY <1>1, ProjectionKeepsSync
<1>2. ASSUME NEW a \in Appts,
             (\E r \in EditRanges : MoveEvent(a, r)) \/ RemoveEvent(a) \/ DeclineEvent(a)
      PROVE  SyncInv'
  BY <1>2, EditKeepsSync
<1>3. ASSUME NEW p \in Pollers, Poller(p) PROVE SyncInv'
  BY <1>3, PollerKeepsSync
<1>4. CASE UNCHANGED allVars
  BY <1>4, StutterKeepsSync
<1> QED BY <1>1, <1>2, <1>3, <1>4 DEF SyncNext

THEOREM SyncInvariance == SyncSpec => []SyncInv
<1> QED BY SyncInitially, SyncInductive, PTL DEF SyncSpec

(* Every record the requests, dispatchers and pollers keep stays well      *)
(* formed, open batches and the stamps of the calendar included.           *)
THEOREM SyncTypeCorrect == SyncSpec => []SyncTypeOK
<1>1. SyncInv => SyncTypeOK
  BY DEF SyncInv
<1> QED BY <1>1, SyncInvariance, PTL

(* What the sync token no longer lists has been reconciled in its latest   *)
(* version: batch and token commit apart, pollers die between the two or   *)
(* work on after losing their lease, and no change of the calendar is      *)
(* skipped.                                                                *)
THEOREM TokenStaysBehind == SyncSpec => []TokenNeverAhead
<1>1. SyncInv => TokenNeverAhead
  BY DEF SyncInv
<1> QED BY <1>1, SyncInvariance, PTL

(* Batches, write-backs and requests together never leave two active       *)
(* appointments of a technician that meet.                                 *)
THEOREM NoDoubleBookingUnderPollers == SyncSpec => []NoDoubleBooking
<1>1. SyncInv => NoDoubleBooking
  BY ApartMeansNoDoubleBooking DEF SyncInv, PInv, LInv
<1> QED BY <1>1, SyncInvariance, PTL

(* Nor does what people do to the events, or an entry a batch enqueues,    *)
(* let PROCESSED be recorded ahead of its effect.                          *)
THEOREM ProcessedIsDeliveredUnderPollers == SyncSpec => []ProcessedMeansDelivered
<1>1. SyncInv => ProcessedMeansDelivered
  BY DEF SyncInv, PInv, Honest, Delivered, ProcessedMeansDelivered, IsLive
<1> QED BY <1>1, SyncInvariance, PTL

(* Only the commit of a batch writes rows among the steps of people and    *)
(* pollers.                                                                *)
LEMMA OthersLeaveRows ==
  ASSUME SyncInv,
         \/ \E a \in Appts : \/ \E r \in EditRanges : MoveEvent(a, r)
                             \/ RemoveEvent(a) \/ DeclineEvent(a)
         \/ \E p \in Pollers : Poller(p) /\ ~CommitBatch(p)
  PROVE  UNCHANGED rows /\ UNCHANGED outbox
<1>1. ASSUME NEW a \in Appts,
             (\E r \in EditRanges : MoveEvent(a, r)) \/ RemoveEvent(a) \/ DeclineEvent(a)
      PROVE  UNCHANGED rows /\ UNCHANGED outbox
  BY <1>1 DEF MoveEvent, RemoveEvent, DeclineEvent, Edit, coreVars
<1>2. ASSUME NEW p \in Pollers, Poller(p), ~CommitBatch(p)
      PROVE  UNCHANGED rows /\ UNCHANGED outbox
  <2>1. CASE AcquireLease(p) \/ LoseLease(p) \/ Die(p) \/ AbortBatch(p) \/ StoreToken(p)
    BY <2>1 DEF AcquireLease, LoseLease, Die, AbortBatch, StoreToken, vars, coreVars
  <2>2. ASSUME NEW k \in Techs, Fetch(p, k, TRUE) \/ Fetch(p, k, FALSE)
        PROVE  UNCHANGED rows /\ UNCHANGED outbox
    BY <2>2 DEF Fetch, vars, coreVars
  <2>3. ASSUME NEW a \in Appts,
               \/ Ignore(p, a) \/ CancelInbound(p, a) \/ RescheduleInbound(p, a)
               \/ RejectInbound(p, a) \/ InboundReread(p, a)
        PROVE  UNCHANGED rows /\ UNCHANGED outbox
    BY <2>3 DEF Ignore, CancelInbound, RescheduleInbound, RejectInbound, InboundReread,
                vars, coreVars
  <2> QED BY <1>2, <2>1, <2>2, <2>3 DEF Poller, Sweep
<1> QED BY <1>1, <1>2

(* A batch only adds entries, so what was settled stays settled.           *)
THEOREM SettledEntriesStayUnderPollers == SyncSpec => SettledForGood
<1>1. ASSUME SyncInv, [SyncNext]_allVars,
             NEW t \in Txns, outbox[t] # None, outbox[t].status # "PENDING"
      PROVE  outbox'[t] = outbox[t]
  <2>1. CASE Next
    BY <1>1, <2>1, ProjectionKeepsSettled DEF SyncInv
  <2>2. ASSUME NEW p \in Pollers, CommitBatch(p) PROVE outbox'[t] = outbox[t]
    BY <1>1, <2>2, BatchTables
  <2>3. UNCHANGED allVars => UNCHANGED outbox
    BY DEF allVars, vars, coreVars
  <2> QED BY <1>1, <2>1, <2>2, <2>3, OthersLeaveRows DEF SyncNext
<1>2. SyncInv /\ [SyncNext]_allVars =>
        [\A t \in Txns :
           outbox[t] # None /\ outbox[t].status # "PENDING" => outbox'[t] = outbox[t]]_vars
  BY <1>1
<1> QED BY <1>2, SyncInvariance, PTL DEF SyncSpec, SettledForGood

----------------------------------------------------------------------------
(* The booking board.                                                      *)

(* A batch exchanges the claims of the rows it changes: it takes free      *)
(* time, moves to free time of the same technician, or releases.           *)
LEMMA BatchIsBoardStep ==
  ASSUME SyncInv, NEW p \in Pollers, CommitBatch(p)
  PROVE  Board!BatchNext
<1>0. /\ \A a \in Appts : Claims[a] = ClaimOf(rows[a]) /\ Claims'[a] = ClaimOf(rows'[a])
      /\ Claims = [a \in Appts |-> Claims[a]] /\ Claims' = [a \in Appts |-> Claims'[a]]
      /\ rows \in [Appts -> Row \cup {None}]
  BY DEF Claims, ClaimOf, SyncInv, SyncTypeOK, ProjectionTypeOK, TypeOK
<1>1. \A a \in Appts :
        /\ rows'[a] \in Row \cup {None} /\ (rows'[a] = None <=> rows[a] = None)
        /\ rows[a] # None => rows'[a].tech = rows[a].tech
  BY BatchTables
<1>2. PICK S \in SUBSET Appts : S = {a \in Appts : Claims'[a] # Claims[a]}
  OBVIOUS
<1>3. Claims' = [a \in Appts |-> IF a \in S THEN Claims'[a] ELSE Claims[a]]
  BY <1>0, <1>2
<1>4. ASSUME NEW a \in S PROVE Board!Take(a) \/ Board!Move(a) \/ Board!Release(a)
  <2>0. a \in Appts /\ rows'[a] # rows[a] /\ rows[a] # None /\ rows'[a] # None
        /\ rows[a] \in Row /\ rows'[a] \in Row /\ Claims'[a] # Claims[a]
    BY <1>0, <1>1, <1>2
  <2>1. CASE ~Active(rows'[a])
    <3>1. Claims'[a] = None /\ Claims[a] # None
      BY <1>0, <2>0, <2>1 DEF ClaimOf
    <3> QED BY <3>1 DEF Board!Release
  <2>2. CASE Active(rows'[a])
    <3>1. PICK row \in Row : row = rows'[a]
      BY <2>0
    <3>2. Claims'[a] \in Board!Claim /\ Claims'[a].tech = row.tech
      BY <1>0, <2>2, <3>1, ClaimIsTyped
    <3>3. ASSUME NEW b \in Appts \ {a}, Claims'[b] # None
          PROVE  ~Board!Clash(Claims'[b], Claims'[a])
      <4>1. rows'[b] # None /\ Active(rows'[b])
        BY <1>0, <3>3 DEF ClaimOf
      <4>2. PICK other \in Row : other = rows'[b]
        BY <1>1, <4>1
      <4>3. row.tech = other.tech => ~Meets(other, row)
        BY <2>0, <2>2, <3>1, <4>1, <4>2, BatchAllowed
      <4>4. /\ Claims'[a] = [tech |-> row.tech, start |-> row.start, end |-> row.end]
            /\ Claims'[b] = [tech |-> other.tech, start |-> other.start, end |-> other.end]
        BY <1>0, <2>0, <2>2, <3>1, <4>1, <4>2 DEF ClaimOf
      <4> QED BY <4>3, <4>4 DEF Board!Clash, Meets, Row
    <3>4. Board!Free(a)
      BY <3>3 DEF Board!Free
    <3>5. CASE Claims[a] = None
      BY <3>2, <3>4, <3>5 DEF Board!Take
    <3>6. CASE Claims[a] # None
      <4>1. Claims[a].tech = rows[a].tech
        BY <1>0, <2>0, <3>6, ClaimIsTyped DEF ClaimOf
      <4> QED BY <1>1, <2>0, <3>1, <3>2, <3>4, <3>6, <4>1 DEF Board!Move
    <3> QED BY <3>5, <3>6
  <2> QED BY <2>1, <2>2
<1> QED BY <1>3, <1>4 DEF Board!BatchNext, Board!Exchange

(* A step of one claim is a step of a batch of one.                        *)
LEMMA OneIsABatch == [Board!Next]_Claims => [Board!BatchNext]_Claims
BY DEF Board!Next, Board!BatchNext

(* The appointment table implements the booking board with transactions of *)
(* several appointments, whatever number of changes a batch reconciles and *)
(* whatever requests and write-backs commit while it is open.              *)
THEOREM SyncImplementsBatchBoard == SyncSpec => ImplementsBatchBoard
<1>1. Init => Board!Init
  BY BoardInitially DEF Init
<1>2. SyncInv /\ [SyncNext]_allVars => [Board!BatchNext]_Claims
  <2> SUFFICES ASSUME SyncInv, [SyncNext]_allVars PROVE [Board!BatchNext]_Claims
    OBVIOUS
  <2>1. CASE Next
    BY <2>1, ProjectionBoardStep, OneIsABatch DEF SyncInv
  <2>2. ASSUME NEW p \in Pollers, CommitBatch(p) PROVE [Board!BatchNext]_Claims
    BY <2>2, BatchIsBoardStep
  <2>3. CASE UNCHANGED rows
    BY <2>3 DEF Claims, ClaimOf
  <2>4. UNCHANGED allVars => UNCHANGED rows
    BY DEF allVars, vars, coreVars
  <2> QED BY <2>1, <2>2, <2>3, <2>4, OthersLeaveRows DEF SyncNext
<1> QED BY <1>1, <1>2, SyncInvariance, PTL
        DEF SyncSpec, ImplementsBatchBoard, Board!BatchSpec

----------------------------------------------------------------------------
(* Whose events the batches name, and which appointments are announced.    *)

(* The copies and entries of a batch name their appointment's own event.   *)
OwnNames(x) ==
  \A a \in Appts : /\ x.copies[a] # None => x.copies[a].event \in {None, a}
                   /\ x.entries[a] # None => x.entries[a].event \in {None, a}

Announced ==
  \A a \in Appts : rows[a] # None => \E t \in EntriesOf(a) : outbox[t].op = "CREATE"

NInv ==
  /\ SyncInv
  /\ Names
  /\ \A p \in Pollers : OwnNames(poll[p])
  /\ Announced
  /\ \A a \in unread : events[a] # None

(* An entry keeps what it says of the appointment.                         *)
EntriesStay ==
  \A e \in Txns : outbox[e] # None =>
    /\ outbox'[e] # None
    /\ outbox'[e].op = outbox[e].op /\ outbox'[e].appt = outbox[e].appt
    /\ outbox'[e].event = outbox[e].event

LEMMA TurnsKeepWhatEntriesSay ==
  ASSUME PInv, NEW d \in Dispatchers, Dispatch(d) \/ Crash(d)
  PROVE  EntriesStay /\ \A a \in Appts : rows[a] = None <=> rows'[a] = None
<1>0. rows \in [Appts -> Row \cup {None}] /\ None \notin Row
  BY NoneAssumption DEF PInv, ProjectionTypeOK, TypeOK
<1>1. PICK w, x \in Worker :
        /\ w = disp[d] /\ disp' = [disp EXCEPT ![d] = x]
        /\ UNCHANGED <<calls, audits, txns, clock>>
        /\ \/ Rests(x) \/ Takes(w, x) \/ Loads(w, x) \/ Raises(d, w, x) \/ Returns(d, w, x)
           \/ Fails(w, x) \/ Settles(w, x) \/ Rereads(w, x) \/ Links(w, x)
  BY Turns
<1>2. \/ UNCHANGED outbox
      \/ /\ Holding(w)
         /\ outbox' \in {[outbox EXCEPT ![w.entry] = Failed(outbox[w.entry])],
                         [outbox EXCEPT ![w.entry] = Processed(outbox[w.entry])]}
  BY <1>1 DEF Rests, Takes, Loads, Raises, Returns, Fails, Settles, Rereads, Links, Holding
<1>3. EntriesStay
  BY <1>1, <1>2, TurnsKeepEntries DEF EntriesStay
<1>4. \A a \in Appts : rows[a] = None <=> rows'[a] = None
  BY <1>0, DispatcherWrites
<1> QED BY <1>3, <1>4

LEMMA NextKeepsEntries == PInv /\ [Next]_vars => EntriesStay
<1> SUFFICES ASSUME PInv, [Next]_vars PROVE EntriesStay
  OBVIOUS
<1>1. CASE [CoreNext]_coreVars
  BY <1>1, RequestsOnlyAdd DEF PInv, EntriesStay
<1>2. ASSUME NEW d \in Dispatchers, Dispatch(d) \/ Crash(d) PROVE EntriesStay
  BY <1>2, TurnsKeepWhatEntriesSay
<1> QED BY <1>1, <1>2 DEF Next, vars

(* A row is booked with its CREATE.                                        *)
LEMMA NextAnnounces == PInv /\ Announced /\ [Next]_vars => Announced'
<1> SUFFICES ASSUME PInv, Announced, [Next]_vars, NEW a \in Appts, rows'[a] # None
             PROVE  \E t \in Txns : /\ outbox'[t] # None /\ outbox'[t].appt = a
                                    /\ outbox'[t].op = "CREATE"
  BY DEF Announced, EntriesOf
<1>1. EntriesStay
  BY NextKeepsEntries
<1>2. CASE rows[a] # None
  BY <1>1, <1>2 DEF Announced, EntriesOf, EntriesStay
<1>3. CASE rows[a] = None
  <2>1. CASE [CoreNext]_coreVars
    <3>1. LInv /\ rows \in [Appts -> Row \cup {None}]
      BY DEF PInv, LInv, IInv, TypeOK
    <3>2. CASE Inert
      BY <1>3, <3>2 DEF Inert
    <3>3. ASSUME NEW t \in Txns, NEW row \in Row, Commits(t, row), Written(t, row)
          PROVE  \E u \in Txns : /\ outbox'[u] # None /\ outbox'[u].appt = a
                                 /\ outbox'[u].op = "CREATE"
      <4>1. txns[t].appt = a
        BY <1>3, <3>1, <3>3, CommitTables
      <4>2. txns[t].op = "BOOK"
        BY <1>3, <3>3, <4>1 DEF Written
      <4>3. outbox'[t] = Enqueued(t) /\ outbox'[t] # None
        BY <3>1, <3>3, CommitTables
      <4> QED BY <4>1, <4>2, <4>3 DEF Enqueued, OutboxOp
    <3> QED BY <2>1, <3>1, <3>2, <3>3, StepWrites
  <2>2. ASSUME NEW d \in Dispatchers, Dispatch(d) \/ Crash(d) PROVE FALSE
    BY <1>3, <2>2, TurnsKeepWhatEntriesSay
  <2> QED BY <2>1, <2>2 DEF Next, vars
<1> QED BY <1>2, <1>3

LEMMA NextKeepsNames == PInv /\ Names /\ [Next]_vars => Names'
<1> SUFFICES ASSUME PInv, Names, [Next]_vars PROVE Names'
  OBVIOUS
<1>1. CASE [CoreNext]_coreVars /\ UNCHANGED projVars
  BY <1>1, RequestKeepsNames
<1>2. ASSUME NEW d \in Dispatchers, Dispatch(d) \/ Crash(d) PROVE Names'
  BY <1>2, DispatcherKeepsNames
<1> QED BY <1>1, <1>2 DEF Next, vars

(* The entries of a batch, and no others, are added to the outbox.         *)
LEMMA BatchEntries ==
  ASSUME SyncInv, NEW p \in Pollers, CommitBatch(p)
  PROVE  /\ \A t \in Txns :
              \/ outbox'[t] = outbox[t]
              \/ /\ outbox[t] = None
                 /\ \E a \in Appts : poll[p].entries[a] # None /\ outbox'[t] = poll[p].entries[a]
         /\ \A a \in Appts : poll[p].entries[a] # None =>
              \E t \in Txns : outbox[t] = None /\ outbox'[t] = poll[p].entries[a]
<1>0. NotYetEnqueued
  BY DEF SyncInv, PInv, LInv
<1> DEFINE owing == {a \in Appts : poll[p].entries[a] # None}
<1>1. PICK id \in [owing -> {t \in Txns : txns[t].phase = "idle"}] :
        /\ \A a, b \in owing : id[a] = id[b] => a = b
        /\ outbox' = [t \in Txns |->
             IF \E a \in owing : id[a] = t
             THEN poll[p].entries[CHOOSE a \in owing : id[a] = t] ELSE outbox[t]]
  BY Zenon DEF CommitBatch
<1>2. ASSUME NEW t \in Txns
      PROVE  \/ outbox'[t] = outbox[t]
             \/ /\ outbox[t] = None
                /\ \E a \in Appts : poll[p].entries[a] # None /\ outbox'[t] = poll[p].entries[a]
  <2>1. CASE ~\E a \in owing : id[a] = t
    BY <1>1, <2>1
  <2>2. CASE \E a \in owing : id[a] = t
    <3>1. PICK a \in owing : a = CHOOSE b \in owing : id[b] = t
      BY <2>2
    <3>2. id[a] = t
      BY <2>2, <3>1
    <3>3. outbox'[t] = poll[p].entries[a]
      BY <1>1, <2>2, <3>1
    <3>4. outbox[t] = None
      BY <1>0, <1>1, <3>1, <3>2 DEF NotYetEnqueued
    <3> QED BY <3>1, <3>3, <3>4
  <2> QED BY <2>1, <2>2
<1>3. ASSUME NEW a \in owing
      PROVE  \E t \in Txns : outbox[t] = None /\ outbox'[t] = poll[p].entries[a]
  <2>1. PICK t \in Txns : t = id[a]
    BY <1>1
  <2>2. PICK b \in owing : b = CHOOSE c \in owing : id[c] = t
    BY <2>1
  <2>3. id[b] = t
    BY <2>1, <2>2
  <2>4. b = a
    BY <1>1, <2>1, <2>3
  <2>5. outbox'[t] = poll[p].entries[a]
    BY <1>1, <2>1, <2>2, <2>4
  <2>6. outbox[t] = None
    BY <1>0, <1>1, <2>1 DEF NotYetEnqueued
  <2> QED BY <2>5, <2>6
<1> QED BY <1>2, <1>3

(* Changes of the calendar and what Projection does.                       *)
LEMMA NoticedKeepsNames ==
  ASSUME NInv, SyncInv', Names', Announced', Noticed, Grows PROVE NInv'
<1>1. /\ poll \in [Pollers -> Poll] /\ unread' = unread \cup Touched
      /\ Touched = {a \in Appts : events'[a] # events[a]}
  BY DEF NInv, SyncInv, SyncTypeOK, Noticed, Touched
<1>2. \A p \in Pollers : OwnNames(poll[p])'
  <2> SUFFICES ASSUME NEW p \in Pollers PROVE OwnNames(poll[p])'
    OBVIOUS
  <2>1. OwnNames(poll[p])
    BY DEF NInv
  <2>2. poll'[p].copies = poll[p].copies /\ poll'[p].entries = poll[p].entries
    BY <1>1, NoticedPoll
  <2> QED BY <2>1, <2>2 DEF OwnNames
<1>3. \A a \in unread' : events'[a] # None
  <2>1. unread \subseteq Appts /\ \A a \in unread : events[a] # None
    BY DEF NInv, SyncInv, SyncTypeOK
  <2> QED BY <1>1, <2>1 DEF Grows
<1> QED BY <1>2, <1>3 DEF NInv

LEMMA NextKeepsNInv == NInv /\ Next /\ Noticed => NInv'
<1> SUFFICES ASSUME NInv, Next, Noticed PROVE NInv'
  OBVIOUS
<1>1. SyncInv' /\ PInv
  BY ProjectionKeepsSync DEF NInv, SyncInv
<1>2. Names' /\ Announced' /\ Grows
  BY <1>1, NextKeepsNames, NextAnnounces, NextFacts DEF NInv
<1> QED BY <1>1, <1>2, NoticedKeepsNames

(* Steps of people and pollers that leave the tables alone.                *)
LEMMA OthersKeepNames ==
  ASSUME NInv, UNCHANGED <<rows, outbox, txns, disp>>
  PROVE  Names' /\ Announced'
<1>1. Names'
  BY DEF NInv, Names, NamesOwn, Named
<1> QED BY <1>1 DEF NInv, Announced, EntriesOf

LEMMA EditKeepsNInv ==
  ASSUME NInv, NEW a \in Appts,
         (\E r \in EditRanges : MoveEvent(a, r)) \/ RemoveEvent(a) \/ DeclineEvent(a)
  PROVE  NInv'
<1>1. SyncInv'
  BY EditKeepsSync DEF NInv
<1>2. UNCHANGED <<rows, outbox, txns, disp>> /\ Noticed /\ Grows
  BY EditsGrow DEF NInv
<1> QED BY <1>1, <1>2, OthersKeepNames, NoticedKeepsNames

----------------------------------------------------------------------------
(* The steps of a poller: how one takes its local state from y to x.       *)

Ends(x) ==
  /\ x.phase \in {"standby", "idle"} /\ x.left = {}
  /\ \A a \in Appts : /\ x.batch[a] = None
                      /\ x.copies[a] = None /\ x.bases[a] = None /\ x.entries[a] = None

Fetches(x) ==
  /\ x.phase = "fetched"
  /\ \A a \in Appts : x.copies[a] = None /\ x.bases[a] = None /\ x.entries[a] = None
  /\ \A a \in Appts : x.batch[a] = IF a \in x.left THEN MapEvent(a) ELSE None
  /\ \A a \in x.left : events[a] # None
  /\ \A a \in unread : events[a] # None /\ rows[a].tech = x.tech => a \in x.left

Rechecks(y, x, a) ==
  /\ y.phase = "fetched" /\ y.copies[a] # None
  /\ x.phase = y.phase /\ x.tech = y.tech /\ x.batch = y.batch /\ x.since = y.since
  /\ x.left = y.left /\ x.copies = y.copies /\ x.entries = y.entries
  /\ x.bases = [y.bases EXCEPT ![a] = rows[a]]

Decides(y, x, a, copy, entry) ==
  /\ y.phase = "fetched" /\ a \in y.left
  /\ x.phase = y.phase /\ x.tech = y.tech /\ x.batch = y.batch /\ x.since = y.since
  /\ x.left = y.left \ {a} /\ x.bases = y.bases
  /\ x.copies = [y.copies EXCEPT ![a] = copy]
  /\ x.entries = [y.entries EXCEPT ![a] = entry]

(* What is decided on a change of the event of a.                          *)
Verdict(a, change, copy, entry) ==
  \/ ~Applies(change, rows[a]) /\ copy = None /\ entry = None
  \/ /\ Applies(change, rows[a]) /\ copy = Cancelled(rows[a], clock)
     /\ \/ change.cancelled /\ entry = None
        \/ entry \in Entry /\ entry.op = "DELETE" /\ entry.event = rows[a].event
  \/ /\ Applies(change, rows[a]) /\ ~change.cancelled
     /\ copy = Rescheduled(rows[a], change, clock) /\ entry = None
  \/ copy = None /\ entry \in Entry /\ entry.op = "UPDATE" /\ entry.event = None

LEMMA RestingEnds ==
  ASSUME NEW phase \in {"standby", "idle"}
  PROVE  Resting(phase) \in Poll /\ Ends(Resting(phase))
<1>1. Resting(phase) \in Poll
  BY RestingIsPoll
<1> QED BY <1>1 DEF Ends, Resting, Nothing

LEMMA FetchFetches ==
  ASSUME SyncInv, NEW p \in Pollers, NEW k \in Techs, NEW expired \in BOOLEAN,
         Fetch(p, k, expired)
  PROVE  \E x \in Poll : poll' = [poll EXCEPT ![p] = x] /\ Fetches(x)
<1>0. events \in [Appts -> Event \cup {None}] /\ stamps \in [Appts -> Nat] /\ unread \subseteq Appts
  BY DEF SyncInv, SyncTypeOK, PInv, ProjectionTypeOK
<1>1. PICK found \in SUBSET Appts : found = OnCalendar(k, IF expired THEN Appts ELSE unread)
  BY <1>0 DEF OnCalendar
<1>2. \A a \in found : MapEvent(a) \in Change
  BY <1>0, <1>1 DEF OnCalendar, MapEvent, Change, Event
<1>3. PICK batch \in [Appts -> Change \cup {None}] :
        batch = [a \in Appts |-> IF a \in found THEN MapEvent(a) ELSE None]
  BY <1>2
<1>4. PICK x \in Poll : x = [Resting("fetched") EXCEPT !.tech = k, !.left = found, !.batch = batch]
  <2>1. Resting("fetched") \in Poll
    BY DEF Resting, Poll, Nothing
  <2> QED BY <2>1 DEF Poll
<1>5. /\ x.phase = "fetched" /\ x.tech = k /\ x.left = found /\ x.batch = batch
      /\ \A a \in Appts : x.copies[a] = None /\ x.bases[a] = None /\ x.entries[a] = None
  BY <1>4 DEF Resting, Nothing
<1>6. poll' = [poll EXCEPT ![p] = x]
  BY <1>1, <1>3, <1>4 DEF Fetch
<1>7. /\ \A a \in unread : events[a] # None /\ rows[a].tech = k => a \in found
      /\ \A a \in found : events[a] # None
  BY <1>0, <1>1 DEF OnCalendar
<1>8. \A a \in Appts : x.batch[a] = IF a \in x.left THEN MapEvent(a) ELSE None
  BY <1>3, <1>5
<1>9. /\ \A a \in x.left : events[a] # None
      /\ \A a \in unread : events[a] # None /\ rows[a].tech = x.tech => a \in x.left
  BY <1>5, <1>7
<1>10. Fetches(x)
  BY <1>5, <1>8, <1>9 DEF Fetches
<1> QED BY <1>6, <1>10

LEMMA RereadRechecks ==
  ASSUME SyncInv, NEW p \in Pollers, NEW a \in Appts, InboundReread(p, a)
  PROVE  \E y, x \in Poll : y = poll[p] /\ poll' = [poll EXCEPT ![p] = x] /\ Rechecks(y, x, a)
<1>0. poll \in [Pollers -> Poll] /\ rows \in [Appts -> Row \cup {None}]
  BY DEF SyncInv, SyncTypeOK, PInv, ProjectionTypeOK, TypeOK
<1>1. PICK y \in Poll : y = poll[p]
  BY <1>0
<1>2. PICK x \in Poll : x = [y EXCEPT !.bases = [y.bases EXCEPT ![a] = rows[a]]]
  <2>1. [y.bases EXCEPT ![a] = rows[a]] \in [Appts -> Row \cup {None}]
    BY <1>0 DEF Poll
  <2> QED BY <2>1 DEF Poll
<1>3. poll' = [poll EXCEPT ![p] = x]
  BY <1>0, <1>1, <1>2 DEF InboundReread
<1>4. Rechecks(y, x, a)
  BY <1>1, <1>2 DEF InboundReread, Rechecks, Poll
<1> QED BY <1>1, <1>3, <1>4

LEMMA DecidedDecides ==
  ASSUME SyncInv, NEW p \in Pollers, NEW a \in Appts, Reconciling(p, a),
         NEW copy \in Row \cup {None}, NEW entry \in Entry \cup {None},
         Decided(p, a, copy, entry)
  PROVE  \E y, x \in Poll : /\ y = poll[p] /\ poll' = [poll EXCEPT ![p] = x]
                            /\ Decides(y, x, a, copy, entry)
<1>0. poll \in [Pollers -> Poll] /\ clock \in Nat
  BY DEF SyncInv, SyncTypeOK, PInv, LInv, IInv, TypeOK
<1>1. PICK y \in Poll : y = poll[p]
  BY <1>0
<1>2. PICK began \in Nat : began = Began(p)
  BY <1>0, <1>1 DEF Began, Poll
<1>3. PICK x \in Poll :
        x = [y EXCEPT !.left = y.left \ {a}, !.began = began,
                      !.copies = [y.copies EXCEPT ![a] = copy],
                      !.entries = [y.entries EXCEPT ![a] = entry]]
  <2>1. /\ [y.copies EXCEPT ![a] = copy] \in [Appts -> Row \cup {None}]
        /\ [y.entries EXCEPT ![a] = entry] \in [Appts -> Entry \cup {None}]
        /\ y.left \ {a} \in SUBSET Appts
    BY DEF Poll
  <2> QED BY <2>1 DEF Poll
<1>4. poll' = [poll EXCEPT ![p] = x]
  BY <1>1, <1>2, <1>3 DEF Decided
<1>5. Decides(y, x, a, copy, entry)
  BY <1>1, <1>3 DEF Reconciling, Decides, Poll
<1> QED BY <1>1, <1>4, <1>5

(* A step of a poller but the commit of a batch and the storing of a token *)
(* takes its local state from y to x and leaves the rest alone.            *)
Polls(p, y, x) ==
  /\ y = poll[p] /\ poll' = [poll EXCEPT ![p] = x]
  /\ UNCHANGED <<rows, outbox, txns, disp, events, stamps, unread, raced, rewritten>>
  /\ clock' \in {clock, clock + 1}
  /\ \/ x = y
     \/ Ends(x)
     \/ Fetches(x)
     \/ \E a \in Appts : Rechecks(y, x, a)
     \/ \E a \in Appts, copy \in Row \cup {None}, entry \in Entry \cup {None} :
          Decides(y, x, a, copy, entry) /\ Verdict(a, y.batch[a], copy, entry)

(* What a poller decides on a change.                                      *)
LEMMA ReconcileDecides ==
  ASSUME SyncInv, NEW p \in Pollers, NEW a \in Appts,
         \/ Ignore(p, a) \/ CancelInbound(p, a)
         \/ RescheduleInbound(p, a) \/ RejectInbound(p, a)
  PROVE  \E y, x \in Poll : Polls(p, y, x)
<1>0. /\ PInv /\ clock \in Nat /\ poll \in [Pollers -> Poll]
      /\ Batched(poll[p]) /\ rows \in [Appts -> Row \cup {None}]
  BY DEF SyncInv, SyncTypeOK, PInv, LInv, IInv, TypeOK, ProjectionTypeOK
<1>1. Reconciling(p, a)
  BY DEF Ignore, CancelInbound, RescheduleInbound, RejectInbound
<1>2. PICK change \in Change : change = poll[p].batch[a]
  BY <1>0, <1>1 DEF Reconciling, Batched, Poll
<1>3. PICK row \in Row : row = rows[a]
  BY <1>0, <1>1 DEF Reconciling, Batched, SyncInv, EventsHaveRows
<1>4. /\ UNCHANGED <<rows, outbox, txns, disp, events, stamps, unread, raced, rewritten>>
      /\ clock' \in {clock, clock + 1}
  BY DEF Ignore, CancelInbound, RescheduleInbound, RejectInbound, vars, coreVars, projVars
<1>5. Began(p) \in Nat
  BY <1>0 DEF Began, Poll
<1>6. ASSUME NEW copy \in Row \cup {None}, NEW entry \in Entry \cup {None},
             Decided(p, a, copy, entry), Verdict(a, change, copy, entry)
      PROVE  \E y, x \in Poll : Polls(p, y, x)
  <2>1. PICK y, x \in Poll : /\ y = poll[p] /\ poll' = [poll EXCEPT ![p] = x]
                             /\ Decides(y, x, a, copy, entry)
    BY <1>1, <1>6, DecidedDecides
  <2> QED BY <1>2, <1>4, <1>6, <2>1 DEF Polls
<1>7. CASE Ignore(p, a)
  <2>1. Decided(p, a, None, None) /\ Verdict(a, change, None, None)
    BY <1>2, <1>7 DEF Ignore, Verdict
  <2> QED BY <1>6, <2>1
<1>8. CASE CancelInbound(p, a)
  <2>1. PICK copy \in Row : copy = Cancelled(row, clock)
    <3>1. Cancelled(row, clock) \in Row
      BY <1>0 DEF Cancelled, Row, Statuses
    <3> QED BY <3>1
  <2>2. PICK entry \in Entry \cup {None} :
          /\ entry = IF change.cancelled THEN None ELSE Owed(p, a, "DELETE", row.event)
          /\ \/ change.cancelled /\ entry = None
             \/ entry \in Entry /\ entry.op = "DELETE" /\ entry.event = row.event
    <3>1. Owed(p, a, "DELETE", row.event) \in Entry
      BY <1>5 DEF Owed, Entry, Row
    <3> QED BY <3>1 DEF Owed
  <2>3. Decided(p, a, copy, entry) /\ Applies(change, row)
    BY <1>2, <1>3, <1>8, <2>1, <2>2 DEF CancelInbound
  <2>4. Verdict(a, change, copy, entry)
    BY <1>3, <2>1, <2>2, <2>3 DEF Verdict
  <2> QED BY <1>6, <2>3, <2>4
<1>9. CASE RescheduleInbound(p, a)
  <2>1. PICK copy \in Row : copy = Rescheduled(row, change, clock)
    <3>1. Rescheduled(row, change, clock) \in Row
      BY <1>0 DEF Rescheduled, Row, Statuses, Change
    <3> QED BY <3>1
  <2>2. Decided(p, a, copy, None) /\ Applies(change, row) /\ ~change.cancelled
    BY <1>2, <1>3, <1>9, <2>1 DEF RescheduleInbound
  <2>3. Verdict(a, change, copy, None)
    BY <1>3, <2>1, <2>2 DEF Verdict
  <2> QED BY <1>6, <2>2, <2>3
<1>10. CASE RejectInbound(p, a)
  <2>1. PICK entry \in Entry : /\ entry = Owed(p, a, "UPDATE", None)
                               /\ entry.op = "UPDATE" /\ entry.event = None
    <3>1. Owed(p, a, "UPDATE", None) \in Entry
      BY <1>5 DEF Owed, Entry
    <3> QED BY <3>1 DEF Owed
  <2>2. Decided(p, a, None, entry) /\ Verdict(a, change, None, entry)
    BY <1>10, <2>1 DEF RejectInbound, Verdict
  <2> QED BY <1>6, <2>2
<1> QED BY <1>7, <1>8, <1>9, <1>10

LEMMA PollSteps ==
  ASSUME SyncInv, NEW p \in Pollers, Poller(p), ~CommitBatch(p), ~StoreToken(p)
  PROVE  \E y, x \in Poll : Polls(p, y, x)
<1>0. clock \in Nat /\ poll \in [Pollers -> Poll]
  BY DEF SyncInv, SyncTypeOK, PInv, LInv, IInv, TypeOK
<1>1. PICK y \in Poll : y = poll[p]
  BY <1>0
<1>2. ASSUME NEW k \in Techs, Fetch(p, k, TRUE) \/ Fetch(p, k, FALSE)
      PROVE  \E x \in Poll : Polls(p, y, x)
  <2>1. /\ UNCHANGED <<rows, outbox, txns, disp, events, stamps, unread, raced, rewritten>>
        /\ clock' \in {clock, clock + 1}
    BY <1>2 DEF Fetch, vars, coreVars, projVars
  <2>2. PICK x \in Poll : poll' = [poll EXCEPT ![p] = x] /\ Fetches(x)
    BY <1>2, FetchFetches
  <2> QED BY <1>1, <2>1, <2>2 DEF Polls
<1>3. ASSUME NEW a \in Appts, InboundReread(p, a)
      PROVE  \E v, x \in Poll : Polls(p, v, x)
  <2>1. /\ UNCHANGED <<rows, outbox, txns, disp, events, stamps, unread, raced, rewritten>>
        /\ clock' \in {clock, clock + 1}
    BY <1>3 DEF InboundReread, vars, coreVars, projVars
  <2>2. PICK v, x \in Poll : v = poll[p] /\ poll' = [poll EXCEPT ![p] = x] /\ Rechecks(v, x, a)
    BY <1>3, RereadRechecks
  <2> QED BY <2>1, <2>2 DEF Polls
<1>4. CASE AcquireLease(p) \/ LoseLease(p) \/ Die(p) \/ AbortBatch(p)
  <2>1. /\ UNCHANGED <<rows, outbox, txns, disp, events, stamps, unread, raced, rewritten>>
        /\ clock' \in {clock, clock + 1}
    BY <1>4 DEF AcquireLease, LoseLease, Die, AbortBatch, vars, coreVars, projVars
  <2>2. CASE UNCHANGED poll
    <3>1. poll' = [poll EXCEPT ![p] = y]
      BY <1>0, <1>1, <2>2
    <3> QED BY <1>1, <2>1, <3>1 DEF Polls
  <2>3. ASSUME NEW phase \in {"standby", "idle"}, poll' = [poll EXCEPT ![p] = Resting(phase)]
        PROVE  \E x \in Poll : Polls(p, y, x)
    BY <1>1, <2>1, <2>3, RestingEnds DEF Polls
  <2> QED BY <1>1, <1>4, <2>2, <2>3 DEF AcquireLease, LoseLease, Die, AbortBatch
<1> QED BY <1>1, <1>2, <1>3, <1>4, ReconcileDecides DEF Poller, Sweep

(* A step within a poller keeps the names of its batch.                    *)
LEMMA PollKeepsOwnNames ==
  ASSUME NInv, NEW p \in Pollers, NEW y \in Poll, NEW x \in Poll, Polls(p, y, x)
  PROVE  OwnNames(x)
<1>0. /\ OwnNames(y) /\ clock \in Nat /\ rows \in [Appts -> Row \cup {None}] /\ Batched(y)
      /\ \A a \in Appts : rows[a] # None => rows[a].event \in {None, a}
  BY DEF Polls, NInv, SyncInv, SyncTypeOK, ProjectionTypeOK, TypeOK, Names, NamesOwn
<1>1. CASE x = y
  BY <1>0, <1>1
<1>2. CASE Ends(x) \/ Fetches(x)
  BY <1>2 DEF Ends, Fetches, OwnNames
<1>3. ASSUME NEW a \in Appts, Rechecks(y, x, a) PROVE OwnNames(x)
  BY <1>0, <1>3 DEF Rechecks, OwnNames
<1>4. ASSUME NEW a \in Appts, NEW copy \in Row \cup {None}, NEW entry \in Entry \cup {None},
             Decides(y, x, a, copy, entry), Verdict(a, y.batch[a], copy, entry)
      PROVE  OwnNames(x)
  <2>1. PICK row \in Row : row = rows[a]
    <3>1. rows[a] # None
      BY <1>0, <1>4 DEF Decides, Batched, NInv, SyncInv, EventsHaveRows
    <3> QED BY <1>0, <3>1
  <2>2. row.event \in {None, a}
    BY <1>0, <2>1, NoneAssumption
  <2>3. copy # None => copy.event \in {None, a}
    BY <1>4, <2>1, <2>2 DEF Verdict, Cancelled, Rescheduled, Row
  <2>4. entry # None => entry.event \in {None, a}
    BY <1>4, <2>1, <2>2 DEF Verdict
  <2>5. /\ x.copies = [y.copies EXCEPT ![a] = copy] /\ x.entries = [y.entries EXCEPT ![a] = entry]
        /\ y.copies \in [Appts -> Row \cup {None}] /\ y.entries \in [Appts -> Entry \cup {None}]
    BY <1>4 DEF Decides, Poll
  <2> QED BY <1>0, <2>3, <2>4, <2>5 DEF OwnNames
<1> QED BY <1>1, <1>2, <1>3, <1>4 DEF Polls

LEMMA PollKeepsNInv ==
  ASSUME NInv, NEW p \in Pollers, Poller(p), ~CommitBatch(p), ~StoreToken(p)
  PROVE  NInv'
<1>0. SyncInv /\ SyncInv' /\ poll \in [Pollers -> Poll]
  BY PollerKeepsSync DEF NInv, SyncInv, SyncTypeOK
<1>1. PICK y, x \in Poll : Polls(p, y, x)
  BY <1>0, PollSteps
<1>2. Names' /\ Announced'
  BY <1>1, OthersKeepNames DEF Polls
<1>3. OwnNames(x)
  BY <1>1, PollKeepsOwnNames
<1>4. ASSUME NEW q \in Pollers PROVE OwnNames(poll[q])'
  <2>1. PICK z \in Poll : z = poll'[q]
    BY <1>0 DEF SyncInv, SyncTypeOK
  <2>2. OwnNames(z)
    BY <1>0, <1>1, <1>3, <2>1 DEF Polls, NInv
  <2> QED BY <2>1, <2>2 DEF OwnNames
<1>5. \A a \in unread' : events'[a] # None
  BY <1>1 DEF Polls, NInv
<1> QED BY <1>0, <1>2, <1>4, <1>5 DEF NInv

LEMMA StoreTokenKeepsNInv ==
  ASSUME NInv, NEW p \in Pollers, StoreToken(p)
  PROVE  NInv'
<1>0. /\ SyncInv' /\ poll \in [Pollers -> Poll]
      /\ UNCHANGED <<rows, outbox, txns, disp, events>>
      /\ poll' = [poll EXCEPT ![p] = Resting("idle")]
      /\ unread' = OnCalendar(poll[p].tech, poll[p].since)
                   \cup (unread \ OnCalendar(poll[p].tech, unread))
  BY StoreTokenKeepsSync DEF NInv, SyncInv, SyncTypeOK, StoreToken, vars, coreVars, projVars
<1>1. Names' /\ Announced'
  BY <1>0, OthersKeepNames
<1>2. ASSUME NEW q \in Pollers PROVE OwnNames(poll[q])'
  <2>1. OwnNames(Resting("idle"))
    BY DEF OwnNames, Resting, Nothing
  <2>2. PICK z : z = poll'[q]
    OBVIOUS
  <2>3. OwnNames(z)
    BY <1>0, <2>1, <2>2 DEF NInv
  <2> QED BY <2>2, <2>3 DEF OwnNames
<1>3. \A a \in unread' : events'[a] # None
  BY <1>0 DEF NInv, OnCalendar
<1> QED BY <1>0, <1>1, <1>2, <1>3 DEF NInv

LEMMA BatchKeepsNInv ==
  ASSUME NInv, NEW p \in Pollers, CommitBatch(p)
  PROVE  NInv'
<1>0. /\ SyncInv /\ SyncInv' /\ poll \in [Pollers -> Poll] /\ rows \in [Appts -> Row \cup {None}]
      /\ Batched(poll[p]) /\ OwnNames(poll[p])
      /\ outbox \in [Txns -> Entry \cup {None}]
      /\ \A a \in Appts : rows[a] # None => rows[a].event \in {None, a}
  BY CommitKeepsSync DEF NInv, SyncInv, SyncTypeOK, ProjectionTypeOK, TypeOK, Names, NamesOwn
<1>1. /\ UNCHANGED <<disp, events, unread>>
      /\ \A a \in Appts : rows'[a] = None <=> rows[a] = None
      /\ \A t \in Txns : txns'[t] = txns[t] \/ txns'[t] = Unbound("done")
  BY <1>0, BatchTables DEF CommitBatch
<1>2. \A t \in Txns :
        \/ outbox'[t] = outbox[t]
        \/ /\ outbox[t] = None
           /\ \E a \in Appts : poll[p].entries[a] # None /\ outbox'[t] = poll[p].entries[a]
  BY <1>0, BatchEntries
<1>3. \A a \in Appts : rows'[a] # None => rows'[a].event \in {None, a}
  <2> SUFFICES ASSUME NEW a \in Appts, rows'[a] # None PROVE rows'[a].event \in {None, a}
    OBVIOUS
  <2>1. PICK y \in Poll : y = poll[p]
    BY <1>0
  <2>2. rows'[a] = IF y.bases[a] = None THEN rows[a] ELSE Merged(y.copies[a], y.bases[a], rows[a])
    BY <2>1 DEF CommitBatch, View
  <2>3. CASE y.bases[a] = None
    BY <1>0, <2>2, <2>3
  <2>4. CASE y.bases[a] # None
    <3>1. y.copies[a] # None /\ rows[a] # None /\ y.copies[a] \in Row /\ rows[a] \in Row
      BY <1>0, <1>1, <2>1, <2>4 DEF Batched, Poll
    <3>2. Merged(y.copies[a], y.bases[a], rows[a]).event \in {y.copies[a].event, rows[a].event}
      BY <3>1 DEF Merged, Column, Row
    <3>3. y.copies[a].event \in {None, a} /\ rows[a].event \in {None, a}
      BY <1>0, <2>1, <3>1 DEF OwnNames
    <3> QED BY <2>2, <2>4, <3>2, <3>3
  <2> QED BY <2>3, <2>4
<1>4. \A t \in Txns : outbox'[t] # None => outbox'[t].event \in {None, outbox'[t].appt}
  <2> SUFFICES ASSUME NEW t \in Txns, outbox'[t] # None
               PROVE  outbox'[t].event \in {None, outbox'[t].appt}
    OBVIOUS
  <2>1. CASE outbox'[t] = outbox[t]
    BY <2>1 DEF NInv, Names, NamesOwn
  <2>2. ASSUME NEW a \in Appts, poll[p].entries[a] # None, outbox'[t] = poll[p].entries[a]
        PROVE  outbox'[t].event \in {None, outbox'[t].appt}
    BY <1>0, <2>2 DEF Batched, OwnNames
  <2> QED BY <1>2, <2>1, <2>2
<1>5. NamesOwn'
  <2>1. ~Saves(Unbound("done")) /\ ~Drafts(Unbound("done"))
    BY DEF Saves, Drafts, Unbound
  <2>2. ASSUME NEW t \in Txns
        PROVE  /\ Saves(txns'[t]) => txns'[t].copy.event \in {None, txns'[t].appt}
               /\ Drafts(txns'[t]) => txns'[t].copy.event = None
    BY <1>1, <2>1 DEF NInv, Names, NamesOwn
  <2> QED BY <1>3, <1>4, <2>2 DEF NamesOwn
<1>6. \A t \in Txns : outbox[t] # None => outbox'[t] = outbox[t]
  BY <1>2
<1>7. ASSUME NEW d \in Dispatchers PROVE Named(disp[d])'
  <2>1. Named(disp[d]) /\ disp'[d] = disp[d]
    BY <1>1 DEF NInv, Names
  <2>2. Holding(disp[d]) => outbox'[disp[d].entry] = outbox[disp[d].entry]
    BY <1>0, <1>6, HeldEntry DEF SyncInv
  <2> QED BY <2>1, <2>2 DEF Named, Holding
<1>8. Announced'
  BY <1>1, <1>6 DEF NInv, Announced, EntriesOf
<1>9. ASSUME NEW q \in Pollers PROVE OwnNames(poll[q])'
  <2>1. OwnNames([Resting("committed") EXCEPT !.tech = poll[p].tech, !.since = poll[p].since])
    BY DEF OwnNames, Resting, Nothing
  <2>2. PICK z : z = poll'[q]
    OBVIOUS
  <2>3. poll' = [poll EXCEPT ![p] =
          [Resting("committed") EXCEPT !.tech = poll[p].tech, !.since = poll[p].since]]
    BY DEF CommitBatch
  <2>4. OwnNames(z)
    BY <1>0, <2>1, <2>2, <2>3 DEF NInv
  <2> QED BY <2>2, <2>4 DEF OwnNames
<1> QED BY <1>0, <1>1, <1>5, <1>7, <1>8, <1>9 DEF NInv, Names

LEMMA NInitially == Init /\ SyncInit => NInv
<1> SUFFICES ASSUME Init, SyncInit PROVE NInv
  OBVIOUS
<1>1. SyncInv /\ unread = {}
  BY SyncInitially DEF SyncInit
<1>2. \A p \in Pollers : OwnNames(poll[p])
  BY DEF SyncInit, OwnNames, Resting, Nothing
<1>3. Names /\ Announced
  BY DEF Init, CoreInit, ProjInit, Names, NamesOwn, Named, Announced, Rest, Saves, Drafts, Unbound
<1> QED BY <1>1, <1>2, <1>3 DEF NInv

LEMMA StutterKeepsNInv == NInv /\ UNCHANGED allVars => NInv'
<1> SUFFICES ASSUME NInv, UNCHANGED allVars PROVE NInv'
  OBVIOUS
<1>1. UNCHANGED <<rows, outbox, txns, disp, events, unread, poll>>
  BY DEF allVars, vars, coreVars, projVars, syncVars
<1>2. SyncInv' /\ Names' /\ Announced'
  BY <1>1, StutterKeepsSync, OthersKeepNames DEF NInv
<1>3. \A p \in Pollers : OwnNames(poll[p])'
  BY <1>1 DEF NInv, OwnNames
<1> QED BY <1>1, <1>2, <1>3 DEF NInv

LEMMA NInductive == NInv /\ [SyncNext]_allVars => NInv'
<1> SUFFICES ASSUME NInv, [SyncNext]_allVars PROVE NInv'
  OBVIOUS
<1>1. ASSUME NEW a \in Appts,
             (\E r \in EditRanges : MoveEvent(a, r)) \/ RemoveEvent(a) \/ DeclineEvent(a)
      PROVE  NInv'
  BY <1>1, EditKeepsNInv
<1>2. ASSUME NEW p \in Pollers, Poller(p) PROVE NInv'
  BY <1>2, BatchKeepsNInv, StoreTokenKeepsNInv, PollKeepsNInv
<1> QED BY <1>1, <1>2, NextKeepsNInv, StutterKeepsNInv DEF SyncNext

----------------------------------------------------------------------------
(* How one appointment and its event come to agree.                        *)

(* A DELETE of a has been enqueued.                                        *)
Deleting(a) == \E t \in EntriesOf(a) : outbox[t].op = "DELETE"

Gone(a) == events[a] # None /\ ~events[a].live

(* An UPDATE of a waits for the row to be loaded.                          *)
Coming(a) ==
  \E t \in EntriesOf(a) :
    /\ outbox[t].op = "UPDATE"
    /\ Open(t)
    /\ \A d \in Dispatchers : disp[d].entry = t => disp[d].phase \notin {"loaded", "returned"}

(* A dispatcher has loaded a for an UPDATE that will fail, bring the time  *)
(* of r, or change the event so that a poller takes notice.                *)
Sending(w, a, r) ==
  /\ Handles(w, a)
  /\ w.phase = "loaded"
  /\ outbox[w.entry].op = "UPDATE"
  /\ w.copy.event = None \/ ~Moves(w.copy, r) \/ Body(w.copy) # events[a]

(* The event is there at the time of r.                                    *)
Meant(a, r) == IsLive(a) /\ ~Moves(events[a], r)

OnItsWay(a, r) ==
  Deleting(a) \/ Meant(a, r) \/ Coming(a) \/ \E d \in Dispatchers : Sending(disp[d], a, r)

Sweeps(x) == x.phase \in {"fetched", "committed"}

(* A sweep of the calendar whose token is not stored yet still has the     *)
(* change of a before it, has decided on it, or will leave it listed.      *)
WillRead(x, a) ==
  Sweeps(x) /\ x.tech = rows[a].tech =>
    a \in x.left \/ a \in x.since \/ x.entries[a] # None \/ x.copies[a] # None

(* The change of a's event is newer than the row and will be reconciled.   *)
Listed(a) ==
  /\ a \in unread
  /\ stamps[a] > rows[a].updated
  /\ \A p \in Pollers : WillRead(poll[p], a)

(* The calendar has, or will be brought to, what the row says, or the row  *)
(* what the calendar says.                                                 *)
Covered(a) ==
  IF Active(rows[a])
  THEN events[a] = None \/ OnItsWay(a, rows[a]) \/ Listed(a)
  ELSE Deleting(a) \/ Gone(a)

(* The event changed after the batch of x decided on it.                   *)
Stirred(x, a) == a \in x.since /\ a \in unread /\ stamps[a] > x.copies[a].updated

(* The row the batch would leave.                                          *)
Result(x, a) == Merged(x.copies[a], x.bases[a], rows[a])

(* What a poller has decided for a is as well covered once committed.      *)
Drafted(x, a) ==
  x.copies[a] # None =>
    /\ x.copies[a].updated # rows[a].updated
    /\ ~Active(rows[a]) => Deleting(a)
    /\ IF Active(x.copies[a])
       THEN Stirred(x, a) \/ Meant(a, x.copies[a])
       ELSE Gone(a) \/ (x.entries[a] # None /\ x.entries[a].op = "DELETE")
    /\ x.bases[a] # None =>
         /\ x.bases[a].updated # x.copies[a].updated
         /\ ~Active(x.bases[a]) => Deleting(a)
         /\ Active(Result(x, a)) => Stirred(x, a) \/ OnItsWay(a, Result(x, a))

Follows(x, a) ==
  /\ a \in x.left => x.batch[a] = MapEvent(a)
  /\ x.entries[a] # None /\ x.copies[a] = None => x.entries[a].op = "UPDATE"
  /\ x.phase # "fetched" => a \notin x.left /\ x.copies[a] = None /\ x.entries[a] = None
  /\ Drafted(x, a)

Tracked(a) == Covered(a) /\ \A p \in Pollers : Follows(poll[p], a)

(* One sweep at a time: nobody commits what was fetched before another     *)
(* batch, nor stores its token over a later one.                           *)
OneSweep == \A p, q \in Pollers : Sweeps(poll[p]) /\ Sweeps(poll[q]) => p = q

AInv ==
  /\ NInv
  /\ \A a \in Appts : rows[a] # None /\ a \notin raced \cup rewritten => Tracked(a)

(* The step leaves the row of a, but for its event id.                     *)
KeepsRow(a) ==
  /\ rows[a] \in Row /\ rows'[a] \in Row
  /\ rows'[a].tech = rows[a].tech /\ rows'[a].status = rows[a].status
  /\ rows'[a].start = rows[a].start /\ rows'[a].end = rows[a].end
  /\ rows'[a].updated = rows[a].updated

(* A poller learns at most that a changed again.                           *)
KeepsBatch(y, x, a) ==
  /\ x.phase = y.phase /\ x.tech = y.tech /\ x.batch = y.batch /\ x.left = y.left
  /\ x.copies = y.copies /\ x.bases = y.bases /\ x.entries = y.entries
  /\ a \in y.since => a \in x.since

(* What was on its way to the calendar, is.                                *)
Carries(a) ==
  /\ Deleting(a) => Deleting(a)'
  /\ \A r \in Row : r = rows[a] /\ OnItsWay(a, r) => OnItsWay(a, r)'
  /\ \A p \in Pollers, r \in Row :
       /\ poll[p].copies[a] # None
       /\ poll[p].bases[a] # None
       /\ r = Result(poll[p], a)
       /\ Active(r)
       /\ OnItsWay(a, r)
       => OnItsWay(a, r)' \/ Stirred(poll[p], a)

LEMMA CarriesAll ==
  ASSUME NEW a \in Appts, Deleting(a) => Deleting(a)',
         \A r \in Row : OnItsWay(a, r) => OnItsWay(a, r)'
  PROVE  Carries(a)
BY DEF Carries

(* Only the time of a row has a way to the calendar.                       *)
LEMMA WaysOfOneTime ==
  ASSUME NEW a \in Appts, NEW r \in Row, NEW s \in Row, r.start = s.start, r.end = s.end,
         OnItsWay(a, r)'
  PROVE  OnItsWay(a, s)'
<1>1. Meant(a, r)' => Meant(a, s)'
  BY DEF Meant, Moves
<1>2. ASSUME NEW d \in Dispatchers, Sending(disp[d], a, r)'
      PROVE  \E c \in Dispatchers : Sending(disp[c], a, s)'
  BY <1>2 DEF Sending, Moves
<1> QED BY <1>1, <1>2 DEF OnItsWay

(* A merge into a row that differs in its event id alone.                  *)
LEMMA ResultsOfOneTime ==
  ASSUME NEW copy \in Row, NEW basis \in Row, NEW row \in Row, NEW new \in Row,
         new.start = row.start, new.end = row.end, new.status = row.status
  PROVE  LET r == Merged(copy, basis, row)
             s == Merged(copy, basis, new)
         IN  /\ r \in Row /\ s \in Row
             /\ r.start = s.start /\ r.end = s.end /\ r.status = s.status
<1>1. Merged(copy, basis, row) \in Row /\ Merged(copy, basis, new) \in Row
  BY MergedIsRow
<1>2. /\ Merged(copy, basis, row).start = Merged(copy, basis, new).start
      /\ Merged(copy, basis, row).end = Merged(copy, basis, new).end
      /\ Merged(copy, basis, row).status = Merged(copy, basis, new).status
  BY DEF Merged, Row
<1> QED BY <1>1, <1>2

LEMMA SyncTypes ==
  ASSUME SyncInv
  PROVE  /\ PInv /\ LInv
         /\ rows \in [Appts -> Row \cup {None}] /\ outbox \in [Txns -> Entry \cup {None}]
         /\ txns \in [Txns -> Txn] /\ clock \in Nat
         /\ events \in [Appts -> Event \cup {None}] /\ disp \in [Dispatchers -> Worker]
         /\ stamps \in [Appts -> Nat] /\ unread \subseteq Appts /\ poll \in [Pollers -> Poll]
BY DEF SyncInv, SyncTypeOK, PInv, ProjectionTypeOK, TypeOK

(* Nothing happened to the row or the event of a.                          *)
LEMMA SteadyKeepsTracked ==
  ASSUME SyncInv, NEW a \in Appts, rows[a] # None, Tracked(a), KeepsRow(a), Carries(a),
         events'[a] = events[a], stamps'[a] = stamps[a], a \in unread => a \in unread',
         \A p \in Pollers : KeepsBatch(poll[p], poll'[p], a)
  PROVE  Tracked(a)'
<1>0. poll \in [Pollers -> Poll] /\ Covered(a) /\ \A p \in Pollers : Follows(poll[p], a)
  BY SyncTypes DEF Tracked
<1>1. PICK row \in Row, new \in Row :
        /\ row = rows[a] /\ new = rows'[a] /\ new.tech = row.tech /\ new.status = row.status
        /\ new.start = row.start /\ new.end = row.end /\ new.updated = row.updated
  BY DEF KeepsRow
<1>2. Active(rows[a])' <=> Active(rows[a])
  BY <1>1 DEF Active
<1>3. (Deleting(a) => Deleting(a)') /\ (Gone(a) => Gone(a)')
  BY DEF Carries, Gone
<1>4. ASSUME NEW r \in Row, Meant(a, r) PROVE Meant(a, r)'
  BY <1>4 DEF Meant, IsLive
<1>5. Covered(a)'
  <2>1. CASE ~Active(rows[a])
    BY <1>0, <1>2, <1>3, <2>1 DEF Covered
  <2>2. CASE Active(rows[a]) /\ events[a] = None
    BY <1>2, <2>2 DEF Covered
  <2>3. CASE Active(rows[a]) /\ OnItsWay(a, rows[a])
    <3>1. OnItsWay(a, row)
      BY <1>1, <2>3
    <3>2. OnItsWay(a, row)'
      BY <1>1, <3>1 DEF Carries
    <3>3. OnItsWay(a, new)'
      BY <1>1, <3>2, WaysOfOneTime
    <3>4. OnItsWay(a, rows[a])'
      BY <1>1, <3>3 DEF OnItsWay, Meant, Sending, IsLive
    <3> QED BY <1>2, <2>3, <3>4 DEF Covered
  <2>4. CASE Active(rows[a]) /\ Listed(a)
    <3>1. ASSUME NEW p \in Pollers PROVE WillRead(poll[p], a)'
      <4>1. KeepsBatch(poll[p], poll'[p], a) /\ WillRead(poll[p], a)
        BY <2>4 DEF Listed
      <4> QED BY <1>1, <4>1 DEF KeepsBatch, WillRead, Sweeps
    <3>2. Listed(a)'
      BY <1>1, <2>4, <3>1 DEF Listed
    <3> QED BY <1>2, <2>4, <3>2 DEF Covered
  <2> QED BY <1>0, <2>1, <2>2, <2>3, <2>4 DEF Covered
<1>6. ASSUME NEW p \in Pollers PROVE Follows(poll[p], a)'
  <2>1. PICK y \in Poll : y = poll[p]
    BY <1>0
  <2>2. PICK x : x = poll'[p]
    OBVIOUS
  <2>3. KeepsBatch(y, x, a) /\ Follows(y, a)
    BY <1>0, <2>1, <2>2
  <2>4. Stirred(y, a) => Stirred(x, a)'
    BY <2>3 DEF KeepsBatch, Stirred
  <2>5. Drafted(x, a)'
    <3> SUFFICES ASSUME y.copies[a] # None
                 PROVE  /\ y.copies[a].updated # new.updated
                        /\ ~Active(new) => Deleting(a)'
                        /\ IF Active(y.copies[a])
                           THEN Stirred(x, a)' \/ Meant(a, y.copies[a])'
                           ELSE Gone(a)' \/ (y.entries[a] # None /\ y.entries[a].op = "DELETE")
                        /\ y.bases[a] # None =>
                             /\ y.bases[a].updated # y.copies[a].updated
                             /\ ~Active(y.bases[a]) => Deleting(a)'
                             /\ Active(Result(x, a)') => Stirred(x, a)' \/ OnItsWay(a, Result(x, a))'
      BY <1>1, <2>3 DEF KeepsBatch, Drafted, Meant
    <3>1. Drafted(y, a) /\ y.copies[a] \in Row
      BY <2>3 DEF Follows, Poll
    <3>2. IF Active(y.copies[a])
          THEN Stirred(x, a)' \/ Meant(a, y.copies[a])'
          ELSE Gone(a)' \/ (y.entries[a] # None /\ y.entries[a].op = "DELETE")
      BY <1>3, <1>4, <2>4, <3>1 DEF Drafted
    <3>3. ASSUME y.bases[a] # None, Active(Result(x, a)')
          PROVE  Stirred(x, a)' \/ OnItsWay(a, Result(x, a))'
      <4>1. PICK copy \in Row, basis \in Row : copy = y.copies[a] /\ basis = y.bases[a]
        BY <3>1, <3>3 DEF Poll
      <4>2. PICK r \in Row, s \in Row :
              /\ r = Merged(copy, basis, row) /\ s = Merged(copy, basis, new)
              /\ r.start = s.start /\ r.end = s.end /\ r.status = s.status
        BY <1>1, ResultsOfOneTime
      <4>3. r = Result(poll[p], a) /\ r = Result(y, a) /\ s = Result(x, a)'
        BY <1>1, <2>1, <2>3, <4>1, <4>2 DEF Result, KeepsBatch
      <4>4. Active(r)
        BY <3>3, <4>2, <4>3 DEF Active
      <4>5. Stirred(y, a) \/ OnItsWay(a, r)
        BY <3>1, <3>3, <4>3, <4>4 DEF Drafted
      <4>6. CASE OnItsWay(a, r)
        <5>1. OnItsWay(a, r)' \/ Stirred(y, a)
          BY <2>1, <3>3, <4>3, <4>4, <4>6 DEF Carries
        <5>2. CASE OnItsWay(a, r)'
          <6>1. OnItsWay(a, s)'
            BY <4>2, <5>2, WaysOfOneTime
          <6> QED BY <4>3, <6>1 DEF OnItsWay, Meant, Sending, IsLive
        <5> QED BY <2>4, <5>1, <5>2
      <4> QED BY <2>4, <4>5, <4>6
    <3> QED BY <1>1, <1>2, <1>3, <3>1, <3>2, <3>3 DEF Drafted, Active
  <2>6. a \in x.left => x.batch[a] = MapEvent(a)'
    BY <2>3 DEF KeepsBatch, Follows, MapEvent
  <2> QED BY <2>2, <2>3, <2>5, <2>6 DEF Follows, KeepsBatch, Drafted, Stirred, Result
<1> QED BY <1>5, <1>6 DEF Tracked

(* The event of a changed: the sweep under way will leave it listed.       *)
LEMMA StirredKeepsTracked ==
  ASSUME SyncInv, NEW a \in Appts, rows[a] # None, Tracked(a), Noticed, Grows,
         a \in Touched, a \notin raced', rows'[a] = rows[a],
         Deleting(a) => Deleting(a)'
  PROVE  Tracked(a)'
<1>0. /\ poll \in [Pollers -> Poll] /\ clock \in Nat /\ stamps \in [Appts -> Nat] /\ PInv
      /\ rows \in [Appts -> Row \cup {None}]
      /\ Covered(a) /\ \A p \in Pollers : Follows(poll[p], a) /\ Batched(poll[p])
  BY SyncTypes DEF Tracked, SyncInv
<1>1. stamps'[a] = clock /\ a \in unread' /\ \A p \in Pollers : a \notin poll[p].left
  BY DEF Noticed
<1>2. PICK row \in Row : row = rows[a] /\ row = rows'[a]
  BY <1>0
<1>3. row.updated \in Nat /\ row.updated < clock
  BY <1>0, <1>2 DEF PInv, LInv, Stamped, Row
<1>4. (Deleting(a) => Deleting(a)') /\ (Gone(a) => Gone(a)')
  BY DEF Grows, Gone
<1>5. ASSUME NEW p \in Pollers
      PROVE  /\ poll'[p].phase = poll[p].phase /\ poll'[p].tech = poll[p].tech
             /\ poll'[p].left = poll[p].left /\ poll'[p].copies = poll[p].copies
             /\ poll'[p].bases = poll[p].bases /\ poll'[p].entries = poll[p].entries
             /\ Sweeps(poll[p]) => a \in poll'[p].since
  BY <1>0, NoticedPoll DEF Sweeps
<1>6. Covered(a)'
  <2>1. \A p \in Pollers : WillRead(poll[p], a)'
    BY <1>5 DEF WillRead, Sweeps
  <2>2. Listed(a)'
    BY <1>0, <1>1, <1>2, <1>3, <2>1 DEF Listed
  <2> QED BY <1>0, <1>2, <1>4, <2>2 DEF Covered
<1>7. ASSUME NEW p \in Pollers PROVE Follows(poll[p], a)'
  <2>1. PICK y \in Poll : y = poll[p]
    BY <1>0
  <2>2. PICK x : x = poll'[p]
    OBVIOUS
  <2>3. /\ x.phase = y.phase /\ x.left = y.left /\ x.copies = y.copies
        /\ x.bases = y.bases /\ x.entries = y.entries
        /\ Follows(y, a) /\ Batched(y) /\ a \notin y.left
    BY <1>0, <1>1, <1>5, <2>1, <2>2
  <2>4. y.copies[a] # None => Stirred(x, a)'
    <3> SUFFICES ASSUME y.copies[a] # None PROVE Stirred(x, a)'
      OBVIOUS
    <3>1. y.copies[a] \in Row /\ y.copies[a].updated < clock
      BY <2>3 DEF Poll, Batched, Stale
    <3>2. a \in x.since
      BY <1>5, <2>1, <2>2, <2>3 DEF Follows, Sweeps
    <3>3. y.copies[a].updated \in Nat
      BY <3>1 DEF Row
    <3> QED BY <1>0, <1>1, <2>3, <3>1, <3>2, <3>3 DEF Stirred
  <2>5. Drafted(x, a)'
    BY <1>2, <1>4, <2>3, <2>4 DEF Follows, Drafted
  <2> QED BY <2>2, <2>3, <2>5 DEF Follows, Drafted, Stirred, Result
<1> QED BY <1>6, <1>7 DEF Tracked

(* A new appointment has no event, and no batch knows of it.               *)
LEMMA BookedIsTracked ==
  ASSUME SyncInv, NEW a \in Appts, rows[a] = None, rows'[a] # None, Active(rows'[a]),
         UNCHANGED events, \A p \in Pollers : KeepsBatch(poll[p], poll'[p], a)
  PROVE  Tracked(a)'
<1>1. events[a] = None /\ \A p \in Pollers : Batched(poll[p])
  BY DEF SyncInv, EventsHaveRows
<1>2. Covered(a)'
  BY <1>1 DEF Covered
<1>3. ASSUME NEW p \in Pollers PROVE Follows(poll[p], a)'
  <2>1. PICK x : x = poll'[p]
    OBVIOUS
  <2>2. poll[p].copies[a] = None /\ poll[p].entries[a] = None /\ a \notin poll[p].left
    BY <1>1 DEF Batched
  <2>3. x.copies[a] = None /\ x.entries[a] = None /\ a \notin x.left
    BY <2>1, <2>2 DEF KeepsBatch
  <2> QED BY <2>1, <2>3 DEF Follows, Drafted
<1> QED BY <1>2, <1>3 DEF Tracked

(* What did not happen to a goes unnoticed.                                *)
LEMMA UntouchedIsSteady ==
  ASSUME SyncInv, Noticed, NEW a \in Appts, a \notin Touched
  PROVE  /\ events'[a] = events[a] /\ stamps'[a] = stamps[a] /\ (a \in unread => a \in unread')
         /\ \A p \in Pollers : KeepsBatch(poll[p], poll'[p], a)
<1>0. poll \in [Pollers -> Poll]
  BY SyncTypes
<1>1. events'[a] = events[a]
  BY DEF Touched
<1>2. stamps'[a] = stamps[a] /\ (a \in unread => a \in unread')
  BY DEF Noticed
<1>3. ASSUME NEW p \in Pollers PROVE KeepsBatch(poll[p], poll'[p], a)
  <2>1. CASE Sweeps(poll[p])
    BY <1>0, <2>1, NoticedPoll DEF KeepsBatch, Sweeps
  <2>2. CASE ~Sweeps(poll[p])
    BY <2>2 DEF KeepsBatch, Sweeps, Noticed
  <2> QED BY <2>1, <2>2
<1> QED BY <1>1, <1>2, <1>3

(* A request that saves a enqueues what brings it to the calendar.         *)
LEMMA SavedIsTracked ==
  ASSUME NInv, Noticed, NEW a \in Appts, rows[a] # None, Tracked(a), UNCHANGED <<events, disp>>,
         NEW t \in Txns, NEW row \in Row, Commits(t, row), Written(t, row), txns[t].appt = a,
         row.updated = txns[t].copy.updated
  PROVE  Tracked(a)'
<1>0. /\ SyncInv /\ PInv /\ LInv /\ poll \in [Pollers -> Poll]
      /\ Covered(a) /\ \A p \in Pollers : Follows(poll[p], a) /\ Batched(poll[p])
  BY SyncTypes DEF Tracked, NInv, SyncInv
<1>1. /\ rows'[a] = row /\ outbox[t] = None /\ outbox'[t] = Enqueued(t) /\ outbox'[t] # None
      /\ \A u \in Txns \ {t} : outbox'[u] = outbox[u]
  BY <1>0, CommitTables
<1>2. /\ txns[t].op # "BOOK" /\ Mutated(txns[t])
      /\ (~Active(row) => ~Active(rows[a]) \/ txns[t].op = "CANCEL")
  BY DEF Written
<1>3. a \notin Touched
  BY DEF Touched
<1>4. /\ events'[a] = events[a] /\ stamps'[a] = stamps[a] /\ (a \in unread => a \in unread')
      /\ \A p \in Pollers : KeepsBatch(poll[p], poll'[p], a)
  BY <1>0, <1>3, UntouchedIsSteady
<1>5. (Deleting(a) => Deleting(a)') /\ (Gone(a) => Gone(a)')
  BY <1>1, <1>4 DEF Deleting, EntriesOf, Gone
<1>6. t \in EntriesOf(a)' /\ outbox'[t].op = OutboxOp(txns[t].op) /\ outbox'[t].status = "PENDING"
  BY <1>1 DEF EntriesOf, Enqueued
<1>7. txns[t].op = "CANCEL" => Deleting(a)'
  BY <1>6 DEF Deleting, OutboxOp
<1>8. txns[t].op # "CANCEL" => Coming(a)'
  <2>1. \A d \in Dispatchers : Holding(disp[d]) => disp[d].entry # t
    BY <1>0, <1>1, HeldEntry
  <2>2. Open(t)'
    BY <1>1, <1>6 DEF Open
  <2> QED BY <1>2, <1>6, <2>1, <2>2 DEF Coming, OutboxOp, Holding
<1>9. \A r : OnItsWay(a, r)'
  BY <1>7, <1>8 DEF OnItsWay
<1>10. ~Active(row) => Deleting(a)' \/ (~Active(rows[a]) /\ txns[t].op # "CANCEL")
  BY <1>2, <1>7
<1>11. Covered(a)'
  <2>1. OnItsWay(a, rows[a])'
    BY <1>7, <1>8 DEF OnItsWay
  <2>2. ~Active(row) => Deleting(a)' \/ Gone(a)'
    BY <1>0, <1>5, <1>10 DEF Covered
  <2> QED BY <1>1, <2>1, <2>2 DEF Covered
<1>12. ASSUME NEW p \in Pollers PROVE Follows(poll[p], a)'
  <2>1. PICK y \in Poll : y = poll[p]
    BY <1>0
  <2>2. PICK x : x = poll'[p]
    OBVIOUS
  <2>3. KeepsBatch(y, x, a) /\ Follows(y, a) /\ Batched(y)
    BY <1>0, <1>4, <2>1, <2>2
  <2>4. Stirred(y, a) => Stirred(x, a)'
    BY <1>4, <2>3 DEF KeepsBatch, Stirred
  <2>5. Drafted(x, a)'
    <3> SUFFICES ASSUME y.copies[a] # None
                 PROVE  /\ y.copies[a].updated # row.updated
                        /\ ~Active(row) => Deleting(a)'
                        /\ IF Active(y.copies[a])
                           THEN Stirred(x, a)' \/ Meant(a, y.copies[a])'
                           ELSE Gone(a)' \/ (y.entries[a] # None /\ y.entries[a].op = "DELETE")
                        /\ y.bases[a] # None =>
                             /\ y.bases[a].updated # y.copies[a].updated
                             /\ ~Active(y.bases[a]) => Deleting(a)'
      BY <1>1, <1>9, <2>3 DEF KeepsBatch, Drafted, Meant
    <3>1. Drafted(y, a)
      BY <2>3 DEF Follows
    <3>2. y.copies[a].updated # row.updated
      BY <1>2, <2>3 DEF Batched, Stale
    <3>3. Meant(a, y.copies[a]) => Meant(a, y.copies[a])'
      BY <1>4, <2>3 DEF Meant, IsLive, KeepsBatch
    <3> QED BY <1>5, <1>10, <2>4, <3>1, <3>2, <3>3 DEF Drafted
  <2>6. a \in x.left => x.batch[a] = MapEvent(a)'
    BY <1>4, <2>3 DEF KeepsBatch, Follows, MapEvent
  <2> QED BY <2>2, <2>3, <2>5, <2>6 DEF Follows, KeepsBatch, Drafted, Stirred, Result
<1> QED BY <1>11, <1>12 DEF Tracked

LEMMA RequestKeepsTracked ==
  ASSUME NInv, [CoreNext]_coreVars, UNCHANGED projVars, Noticed, NEW a \in Appts,
         rows[a] # None => Tracked(a), rows'[a] # None
  PROVE  Tracked(a)'
<1>0. /\ SyncInv /\ PInv /\ LInv /\ UNCHANGED <<events, disp>> /\ a \notin Touched
      /\ rows \in [Appts -> Row \cup {None}]
  BY SyncTypes DEF NInv, projVars, Touched
<1>1. /\ events'[a] = events[a] /\ stamps'[a] = stamps[a] /\ (a \in unread => a \in unread')
      /\ \A p \in Pollers : KeepsBatch(poll[p], poll'[p], a)
  BY <1>0, UntouchedIsSteady
<1>2. ASSUME rows'[a] = rows[a] PROVE Tracked(a)'
  <2>1. KeepsRow(a)
    BY <1>0, <1>2 DEF KeepsRow
  <2>2. \A e \in Txns : outbox[e] # None => outbox'[e] = outbox[e]
    BY <1>0, RequestsOnlyAdd
  <2>3. ASSUME NEW d \in Dispatchers, Holding(disp[d])
        PROVE  outbox'[disp[d].entry] = outbox[disp[d].entry]
    BY <1>0, <2>2, <2>3, HeldEntry
  <2>4. Deleting(a) => Deleting(a)'
    BY <2>2 DEF Deleting, EntriesOf
  <2>5. Coming(a) => Coming(a)'
    BY <1>0, <2>2 DEF Coming, EntriesOf, Open
  <2>6. ASSUME NEW r \in Row, NEW d \in Dispatchers, Sending(disp[d], a, r)
        PROVE  Sending(disp[d], a, r)'
    BY <1>0, <2>3, <2>6 DEF Sending, Handles
  <2>7. ASSUME NEW r \in Row, OnItsWay(a, r) PROVE OnItsWay(a, r)'
    BY <1>0, <2>4, <2>5, <2>6, <2>7 DEF OnItsWay, Meant, IsLive
  <2>8. Carries(a)
    BY <2>4, <2>7, CarriesAll
  <2> QED BY <1>0, <1>1, <1>2, <2>1, <2>8, SteadyKeepsTracked
<1>3. CASE Inert
  BY <1>2, <1>3 DEF Inert
<1>4. ASSUME NEW t \in Txns, NEW row \in Row, Commits(t, row), Written(t, row),
             txns[t].op # "BOOK" => row.updated = txns[t].copy.updated
      PROVE  Tracked(a)'
  <2>1. CASE txns[t].appt # a
    BY <1>0, <1>2, <1>4, <2>1, CommitTables
  <2>2. CASE txns[t].appt = a /\ rows[a] # None
    BY <1>0, <1>4, <2>2, SavedIsTracked DEF Written
  <2>3. CASE txns[t].appt = a /\ rows[a] = None
    <3>1. Active(rows'[a])
      BY <1>0, <1>4, <2>3, CommitTables DEF Written
    <3> QED BY <1>0, <1>1, <2>3, <3>1, BookedIsTracked
  <2> QED BY <2>1, <2>2, <2>3
<1> QED BY <1>0, <1>3, <1>4, CommitsCopies

(* A turn of a dispatcher, as Turns gives it.                              *)
Turn(d, w, x) ==
  /\ w = disp[d] /\ disp' = [disp EXCEPT ![d] = x]
  /\ UNCHANGED <<calls, audits, txns, clock>>
  /\ \/ Rests(x) \/ Takes(w, x) \/ Loads(w, x) \/ Raises(d, w, x) \/ Returns(d, w, x)
     \/ Fails(w, x) \/ Settles(w, x) \/ Rereads(w, x) \/ Links(w, x)

(* An UPDATE is loaded for a.                                              *)
LoadsUpdate(w, x, a) ==
  Loads(w, x) /\ outbox[w.entry].appt = a /\ outbox[w.entry].op = "UPDATE"

(* Only the entry a dispatcher settles stops being open, and by a return   *)
(* of its call.                                                            *)
LEMMA TurnsKeepOpen ==
  ASSUME PInv, NEW d \in Dispatchers, NEW w \in Worker, NEW x \in Worker, Turn(d, w, x),
         NEW t \in Txns, Open(t)
  PROVE  /\ outbox'[t] # None /\ outbox'[t].op = outbox[t].op /\ outbox'[t].appt = outbox[t].appt
         /\ Open(t)' \/ (t = w.entry /\ (Settles(w, x) \/ Links(w, x)))
<1>0. outbox \in [Txns -> Entry \cup {None}]
  BY DEF PInv, ProjectionTypeOK, TypeOK
<1>1. \/ UNCHANGED outbox
      \/ /\ Holding(w)
         /\ outbox' \in {[outbox EXCEPT ![w.entry] = Failed(outbox[w.entry])],
                         [outbox EXCEPT ![w.entry] = Processed(outbox[w.entry])]}
  BY DEF Turn, Rests, Takes, Loads, Raises, Returns, Fails, Settles, Rereads, Links, Holding
<1>2. /\ outbox'[t] # None /\ outbox'[t].op = outbox[t].op /\ outbox'[t].appt = outbox[t].appt
      /\ outbox'[t] # outbox[t] => Holding(w) /\ t = w.entry
  BY <1>1, TurnsKeepEntries DEF Open, Turn
<1>3. CASE outbox'[t] = outbox[t]
  BY <1>2, <1>3 DEF Open
<1>4. CASE outbox'[t] # outbox[t] /\ Fails(w, x)
  <2>1. t = w.entry /\ outbox[t] \in Entry /\ outbox'[t] = Failed(outbox[t])
    BY <1>0, <1>2, <1>4 DEF Fails, Open
  <2>2. outbox'[t].status # "PROCESSED"
    BY <2>1, SettledIsEntry DEF Open
  <2> QED BY <1>2, <2>2 DEF Open
<1>5. CASE outbox'[t] # outbox[t] /\ ~Fails(w, x)
  BY <1>2, <1>5 DEF Turn, Rests, Takes, Loads, Raises, Returns, Rereads
<1> QED BY <1>2, <1>3, <1>4, <1>5

LEMMA TurnsKeepComing ==
  ASSUME PInv, NEW d \in Dispatchers, NEW w \in Worker, NEW x \in Worker, Turn(d, w, x),
         NEW a \in Appts, Coming(a), ~LoadsUpdate(w, x, a)
  PROVE  Coming(a)'
<1>0. disp \in [Dispatchers -> Worker] /\ disp'[d] = x
      /\ \A c \in Dispatchers \ {d} : disp'[c] = disp[c]
  BY DEF PInv, ProjectionTypeOK, Turn
<1>1. PICK t \in Txns :
        /\ outbox[t] # None /\ outbox[t].appt = a /\ outbox[t].op = "UPDATE" /\ Open(t)
        /\ \A c \in Dispatchers : disp[c].entry = t => disp[c].phase \notin {"loaded", "returned"}
  BY DEF Coming, EntriesOf
<1>2. w.entry = t => w.phase \notin {"loaded", "returned"}
  BY <1>1 DEF Turn
<1>3. Open(t)'
  <2>1. w.entry = t => ~Settles(w, x) /\ ~Links(w, x)
    <3>1. w.entry = t => w.phase # "reread"
      BY <1>1 DEF Turn, PInv, Sound
    <3> QED BY <1>2, <3>1 DEF Settles, Links
  <2> QED BY <1>1, <2>1, TurnsKeepOpen
<1>4. outbox'[t] # None /\ outbox'[t].op = outbox[t].op /\ outbox'[t].appt = outbox[t].appt
  BY <1>1, TurnsKeepOpen
<1>5. x.entry = t => x.phase \notin {"loaded", "returned"}
  <2> SUFFICES ASSUME x.entry = t PROVE x.phase \notin {"loaded", "returned"}
    OBVIOUS
  <2>1. CASE Rests(x) \/ Fails(w, x) \/ Settles(w, x) \/ Links(w, x)
    BY <2>1 DEF Rests, Fails, Settles, Links, Idle
  <2>2. CASE Takes(w, x) \/ Raises(d, w, x) \/ Rereads(w, x)
    BY <2>2 DEF Takes, Raises, Rereads
  <2>3. CASE Loads(w, x)
    BY <1>1, <2>3 DEF LoadsUpdate, Loads
  <2>4. CASE Returns(d, w, x)
    BY <1>2, <2>4 DEF Returns
  <2> QED BY <2>1, <2>2, <2>3, <2>4 DEF Turn
<1> QED BY <1>0, <1>1, <1>3, <1>4, <1>5 DEF Coming, EntriesOf

(* A call that changes nothing leaves the event as it was sent; one that   *)
(* is given up leaves the entry to be loaded again, or failed.             *)
LEMMA TurnsKeepSending ==
  ASSUME NInv, NEW d \in Dispatchers, NEW w \in Worker, NEW x \in Worker, Turn(d, w, x),
         NEW a \in Appts, events'[a] = events[a], NEW r \in Row,
         NEW c \in Dispatchers, Sending(disp[c], a, r)
  PROVE  OnItsWay(a, r)'
<1>0. /\ PInv /\ disp \in [Dispatchers -> Worker] /\ disp'[d] = x
      /\ \A b \in Dispatchers \ {d} : disp'[b] = disp[b]
  BY SyncTypes DEF NInv, Turn
<1>1. PICK t \in Txns :
        /\ t = disp[c].entry /\ outbox[t] # None /\ outbox[t].status = "PENDING"
        /\ outbox[t].appt = a /\ outbox[t].op = "UPDATE"
  BY <1>0, HeldEntry DEF Sending, Handles
<1>2. Open(t)
  BY <1>1 DEF Open
<1>3. CASE c # d
  <2>1. outbox'[t].op = outbox[t].op /\ outbox'[t].appt = outbox[t].appt
    BY <1>0, <1>2, TurnsKeepOpen
  <2>2. disp'[c] = disp[c]
    BY <1>0, <1>3
  <2>3. Sending(disp[c], a, r)'
    BY <1>1, <2>1, <2>2 DEF Sending, Handles, Moves, Body
  <2> QED BY <2>3 DEF OnItsWay
<1>4. CASE c = d /\ ~Returns(d, w, x)
  <2>1. w.phase = "loaded" /\ w.entry = t
    BY <1>1, <1>4 DEF Sending, Turn
  <2>2. Rests(x) \/ Raises(d, w, x) \/ Fails(w, x)
    BY <1>4, <2>1 DEF Turn, Takes, Loads, Settles, Rereads, Links
  <2>3. x.phase \notin {"loaded", "returned"}
    BY <2>2 DEF Rests, Raises, Fails, Idle
  <2>4. /\ outbox'[t] # None /\ outbox'[t].op = "UPDATE" /\ outbox'[t].appt = a
        /\ Open(t)'
    <3>1. ~Settles(w, x) /\ ~Links(w, x)
      BY <2>1 DEF Settles, Links
    <3> QED BY <1>0, <1>1, <1>2, <3>1, TurnsKeepOpen
  <2>5. \A b \in Dispatchers \ {d} : disp[b].entry # t
    <3>1. t # None
      BY <1>0, <1>1, <1>4 DEF PInv, Sound, Sending, Handles
    <3> QED BY <1>0, <1>1, <1>4, <3>1 DEF PInv, Exclusive
  <2>6. Coming(a)'
    BY <1>0, <2>3, <2>4, <2>5 DEF Coming, EntriesOf
  <2> QED BY <2>6 DEF OnItsWay
<1>5. CASE c = d /\ Returns(d, w, x)
  <2>1. /\ w = disp[c] /\ w.phase = "loaded" /\ w.copy \in Row
        /\ w.copy.event = None \/ ~Moves(w.copy, r) \/ Body(w.copy) # events[a]
    BY <1>0, <1>5 DEF Sending, Turn, PInv, Sound
  <2>2. NamesOwn /\ Named(disp[d]) /\ Effect(d)
    BY <1>5 DEF NInv, Names, Returns
  <2>3. w.copy.event # None /\ events'[a] = Body(w.copy)
    BY <1>0, <1>1, <1>5, <2>1, <2>2, EffectIsOwn
  <2>4. ~Moves(w.copy, r) /\ events'[a] # None
    BY <2>1, <2>3, BodyIsEvent
  <2>5. Meant(a, r)'
    BY <2>3, <2>4 DEF Meant, IsLive, Moves, Body
  <2> QED BY <2>5 DEF OnItsWay
<1> QED BY <1>3, <1>4, <1>5

LEMMA TurnsCarry ==
  ASSUME NInv, NEW d \in Dispatchers, NEW w \in Worker, NEW x \in Worker, Turn(d, w, x),
         Dispatch(d) \/ Crash(d), NEW a \in Appts, events'[a] = events[a],
         ~LoadsUpdate(w, x, a)
  PROVE  Carries(a)
<1>0. PInv
  BY SyncTypes DEF NInv
<1>1. Deleting(a) => Deleting(a)'
  BY <1>0, TurnsKeepWhatEntriesSay DEF Deleting, EntriesOf, EntriesStay
<1>2. ASSUME NEW r \in Row, OnItsWay(a, r) PROVE OnItsWay(a, r)'
  <2>1. CASE Deleting(a) \/ Meant(a, r)
    BY <1>1, <2>1 DEF OnItsWay, Meant, IsLive
  <2>2. CASE Coming(a)
    BY <1>0, <2>2, TurnsKeepComing DEF OnItsWay
  <2>3. CASE \E c \in Dispatchers : Sending(disp[c], a, r)
    BY <2>3, TurnsKeepSending
  <2> QED BY <1>2, <2>1, <2>2, <2>3 DEF OnItsWay
<1> QED BY <1>1, <1>2, CarriesAll

(* An UPDATE brings the row it loads, and that is what the batches rely    *)
(* on: an event they have decided on is at the time of the row, moves to   *)
(* it, or changed since.                                                   *)
LEMMA LoadsCarry ==
  ASSUME NInv, NEW d \in Dispatchers, NEW w \in Worker, NEW x \in Worker, Turn(d, w, x),
         NEW a \in Appts, Tracked(a), rows[a] # None, LoadsUpdate(w, x, a)
  PROVE  Carries(a)
<1>0. /\ PInv /\ disp \in [Dispatchers -> Worker] /\ disp'[d] = x
      /\ UNCHANGED <<rows, outbox, events>>
      /\ rows \in [Appts -> Row \cup {None}] /\ poll \in [Pollers -> Poll]
      /\ \A p \in Pollers : Follows(poll[p], a)
  BY SyncTypes DEF NInv, Turn, LoadsUpdate, Loads, Tracked
<1>1. PICK row \in Row : row = rows[a]
  BY <1>0
<1>2. /\ x.phase = "loaded" /\ x.entry = w.entry /\ x.copy = row
      /\ outbox'[x.entry].appt = a /\ outbox'[x.entry].op = "UPDATE"
  BY <1>0, <1>1 DEF LoadsUpdate, Loads
<1>3. (Deleting(a) => Deleting(a)') /\ \A r \in Row : Meant(a, r) => Meant(a, r)'
  BY <1>0 DEF Deleting, EntriesOf, Meant, IsLive
<1>4. ASSUME NEW r \in Row,
             row.event = None \/ ~Moves(row, r) \/ Body(row) # events[a]
      PROVE  OnItsWay(a, r)'
  <2>1. Sending(x, a, r)'
    BY <1>0, <1>2, <1>4 DEF Sending, Handles, Holding, Moves, Body
  <2>2. Sending(disp[d], a, r)'
    BY <1>0, <2>1 DEF Sending, Handles, Moves, Body
  <2> QED BY <2>2 DEF OnItsWay
<1>5. OnItsWay(a, row)'
  BY <1>4 DEF Moves
<1>6. ASSUME NEW p \in Pollers, NEW r \in Row, poll[p].copies[a] # None, poll[p].bases[a] # None,
             r = Result(poll[p], a), Active(r)
      PROVE  OnItsWay(a, r)' \/ Stirred(poll[p], a)
  <2>1. PICK y \in Poll : y = poll[p]
    BY <1>0
  <2>2. PICK copy \in Row, basis \in Row : copy = y.copies[a] /\ basis = y.bases[a]
    BY <1>6, <2>1 DEF Poll
  <2>3. r = Merged(copy, basis, row)
    BY <1>1, <1>6, <2>1, <2>2 DEF Result
  <2>4. Drafted(y, a)
    BY <1>0, <2>1 DEF Follows
  <2>5. CASE row.event = None \/ Body(row) # events[a]
    BY <1>4, <2>5
  <2>6. CASE Body(row) = events[a] /\ ~Active(copy)
    <3>1. ~Active(basis)
      BY <1>6, <2>3, <2>6 DEF Merged, Column, Active, Row
    <3>2. Deleting(a)
      BY <1>6, <2>1, <2>2, <2>4, <3>1 DEF Drafted
    <3> QED BY <1>3, <3>2 DEF OnItsWay
  <2>7. CASE Body(row) = events[a] /\ Active(copy)
    <3>1. Stirred(y, a) \/ Meant(a, copy)
      BY <1>6, <2>1, <2>2, <2>4, <2>7 DEF Drafted
    <3>2. CASE Meant(a, copy)
      <4>1. copy.start = row.start /\ copy.end = row.end
        BY <2>7, <3>2 DEF Meant, Moves, Body
      <4>2. r.start = row.start /\ r.end = row.end
        BY <2>3, <4>1 DEF Merged, Column, Row
      <4>3. Meant(a, r)
        BY <2>7, <3>2, <4>2 DEF Meant, Moves, Body
      <4> QED BY <1>3, <4>3 DEF OnItsWay
    <3> QED BY <2>1, <3>1, <3>2
  <2> QED BY <2>5, <2>6, <2>7
<1> QED BY <1>1, <1>3, <1>5, <1>6 DEF Carries

LEMMA DispatcherKeepsTracked ==
  ASSUME NInv, NEW d \in Dispatchers, Dispatch(d) \/ Crash(d), Noticed, Grows,
         NEW a \in Appts, rows[a] # None, Tracked(a), a \notin raced' \cup rewritten'
  PROVE  Tracked(a)'
<1>0. SyncInv /\ PInv /\ rows \in [Appts -> Row \cup {None}]
  BY SyncTypes DEF NInv
<1>1. PICK w, x \in Worker : Turn(d, w, x)
  BY <1>0, Turns DEF Turn
<1>2. Deleting(a) => Deleting(a)'
  BY <1>0, TurnsKeepWhatEntriesSay DEF Deleting, EntriesOf, EntriesStay
<1>3. CASE a \in Touched
  <2>1. UNCHANGED rows
    BY <1>1, <1>3 DEF Touched, Turn, Rests, Takes, Loads, Raises, Returns, Fails, Settles, Rereads,
                      Links
  <2> QED BY <1>0, <1>2, <1>3, <2>1, StirredKeepsTracked
<1>4. CASE a \notin Touched
  <2>1. Carries(a)
    <3>1. events'[a] = events[a]
      BY <1>4 DEF Touched
    <3> QED BY <1>1, <3>1, TurnsCarry, LoadsCarry
  <2>2. rows'[a] = [rows[a] EXCEPT !.event = rows'[a].event]
    BY <1>1 DEF Noticed, Rewrites, Turn
  <2>3. KeepsRow(a)
    <3>1. rows'[a] \in Row
      BY <1>0, DispatcherWrites
    <3> QED BY <1>0, <2>2, <3>1 DEF KeepsRow, Row
  <2> QED BY <1>0, <1>4, <2>1, <2>3, UntouchedIsSteady, SteadyKeepsTracked
<1> QED BY <1>3, <1>4

LEMMA EditKeepsTracked ==
  ASSUME NInv, NEW b \in Appts,
         (\E r \in EditRanges : MoveEvent(b, r)) \/ RemoveEvent(b) \/ DeclineEvent(b),
         NEW a \in Appts, rows[a] # None, Tracked(a), a \notin raced'
  PROVE  Tracked(a)'
<1>0. SyncInv /\ rows \in [Appts -> Row \cup {None}]
  BY SyncTypes DEF NInv
<1>1. UNCHANGED <<rows, outbox, txns, clock, disp>> /\ Noticed /\ Grows
  BY <1>0, EditsGrow
<1>2. (Deleting(a) => Deleting(a)') /\ (Coming(a) => Coming(a)')
  BY <1>1 DEF Deleting, Coming, EntriesOf, Open
<1>3. CASE a \in Touched
  BY <1>0, <1>1, <1>2, <1>3, StirredKeepsTracked
<1>4. CASE a \notin Touched
  <2>1. events'[a] = events[a]
    BY <1>4 DEF Touched
  <2>2. ASSUME NEW r \in Row, OnItsWay(a, r) PROVE OnItsWay(a, r)'
    <3>1. \A d \in Dispatchers : Sending(disp[d], a, r) => Sending(disp[d], a, r)'
      BY <1>1, <2>1 DEF Sending, Handles, Holding, Moves, Body
    <3> QED BY <1>2, <2>1, <2>2, <3>1 DEF OnItsWay, Meant, IsLive
  <2>3. Carries(a)
    BY <1>2, <2>2, CarriesAll
  <2>4. KeepsRow(a)
    BY <1>0, <1>1 DEF KeepsRow
  <2> QED BY <1>0, <1>1, <1>4, <2>3, <2>4, UntouchedIsSteady, SteadyKeepsTracked
<1> QED BY <1>3, <1>4

(* Of the appointments it is not about, a step of a poller keeps what the  *)
(* batch says.                                                             *)
LEMMA ElsewhereFollows ==
  ASSUME NEW a \in Appts, NEW y \in Poll, NEW x \in Poll, Follows(y, a),
         x.phase = y.phase, x.tech = y.tech, x.batch = y.batch, x.since = y.since,
         a \in x.left <=> a \in y.left, x.copies[a] = y.copies[a], x.bases[a] = y.bases[a],
         x.entries[a] = y.entries[a]
  PROVE  Follows(x, a) /\ (WillRead(y, a) => WillRead(x, a))
BY DEF Follows, WillRead, Sweeps, Drafted, Stirred, Result

(* What is saved with a basis of now is the copy.                          *)
LEMMA RecheckFollows ==
  ASSUME SyncInv, NEW a \in Appts, rows[a] # None, NEW y \in Poll, NEW x \in Poll,
         Follows(y, a), Rechecks(y, x, a)
  PROVE  Follows(x, a) /\ (WillRead(y, a) => WillRead(x, a))
<1>1. PICK row \in Row : row = rows[a]
  BY SyncTypes
<1>2. PICK copy \in Row : copy = y.copies[a]
  BY DEF Rechecks, Poll
<1>3. /\ x.copies[a] = copy /\ x.bases[a] = row /\ x.entries[a] = y.entries[a]
      /\ x.since = y.since /\ x.phase = y.phase /\ x.tech = y.tech /\ x.left = y.left
      /\ x.batch = y.batch
  BY <1>1, <1>2 DEF Rechecks, Poll
<1>4. Drafted(y, a) /\ y.copies[a] # None
  BY DEF Follows, Rechecks
<1>5. ASSUME Active(Result(x, a)) PROVE Stirred(x, a) \/ OnItsWay(a, Result(x, a))
  <2>1. PICK r \in Row : r = Merged(copy, row, row)
    BY MergedIsRow
  <2>2. r = Result(x, a)
    BY <1>1, <1>3, <2>1 DEF Result
  <2>3. r.start = copy.start /\ r.end = copy.end /\ r.status = copy.status
    BY <2>1 DEF Merged, Column, Row
  <2>4. Active(copy)
    BY <1>5, <2>2, <2>3 DEF Active
  <2>5. Stirred(y, a) \/ Meant(a, copy)
    BY <1>2, <1>4, <2>4 DEF Drafted
  <2>6. Stirred(y, a) => Stirred(x, a)
    BY <1>2, <1>3 DEF Stirred
  <2>7. Meant(a, copy) => Meant(a, r)
    BY <2>3 DEF Meant, Moves
  <2> QED BY <2>2, <2>5, <2>6, <2>7 DEF OnItsWay
<1>6. Stirred(y, a) <=> Stirred(x, a)
  BY <1>2, <1>3 DEF Stirred
<1>7. Drafted(x, a)
  BY <1>1, <1>2, <1>3, <1>4, <1>5, <1>6 DEF Drafted
<1> QED BY <1>2, <1>3, <1>4, <1>7 DEF Follows, WillRead, Sweeps, Rechecks

(* What is decided on the latest version of the event makes row and event  *)
(* agree, and what is ignored already did.                                 *)
LEMMA VerdictFollows ==
  ASSUME SyncInv, NEW a \in Appts, rows[a] # None, NEW y \in Poll, NEW x \in Poll, Batched(y),
         Follows(y, a), NEW copy \in Row \cup {None}, NEW entry \in Entry \cup {None},
         Decides(y, x, a, copy, entry), Verdict(a, y.batch[a], copy, entry)
  PROVE  /\ Follows(x, a)
         /\ Active(rows[a]) /\ Listed(a) => WillRead(x, a) \/ Meant(a, rows[a])
<1>0. PInv /\ LInv /\ clock \in Nat
  BY SyncTypes
<1>1. PICK row \in Row : row = rows[a]
  BY SyncTypes
<1>2. /\ y.batch[a] = MapEvent(a) /\ events[a] # None /\ y.copies[a] = None /\ y.bases[a] = None
      /\ a \in y.left /\ x.phase = "fetched"
  BY DEF Decides, Follows, Batched
<1>3. /\ x.copies[a] = copy /\ x.entries[a] = entry /\ x.bases[a] = None /\ a \notin x.left
  BY <1>2 DEF Decides, Poll
<1>4. clock # row.updated
  BY <1>0, <1>1 DEF LInv, Stamped, Row
<1>5. CASE ~Applies(MapEvent(a), row) /\ copy = None /\ entry = None
  <2>1. Follows(x, a)
    BY <1>2, <1>3, <1>5 DEF Follows, Drafted
  <2>2. Active(row) /\ stamps[a] > row.updated => Meant(a, row)
    BY <1>2, <1>5 DEF Applies, MapEvent, Meant, IsLive, Moves
  <2> QED BY <1>1, <2>1, <2>2 DEF Listed
<1>6. CASE /\ Applies(MapEvent(a), row) /\ copy = Cancelled(row, clock)
           /\ \/ MapEvent(a).cancelled /\ entry = None
              \/ entry \in Entry /\ entry.op = "DELETE" /\ entry.event = row.event
  <2>1. copy.updated = clock /\ ~Active(copy) /\ copy # None /\ Active(row)
    <3>1. Cancelled(row, clock) \in Row
      BY <1>0 DEF Cancelled, Row, Statuses
    <3>2. Cancelled(row, clock).updated = clock /\ Cancelled(row, clock).status = "CANCELLED"
      BY <1>0 DEF Cancelled, Row
    <3>3. Active(row)
      BY <1>6 DEF Applies
    <3> QED BY <1>6, <3>1, <3>2, <3>3, NoneAssumption DEF Active
  <2>2. Gone(a) \/ (entry # None /\ entry.op = "DELETE")
    BY <1>2, <1>6, NoneAssumption DEF MapEvent, Gone
  <2>3. Drafted(x, a)
    BY <1>1, <1>3, <1>4, <2>1, <2>2 DEF Drafted
  <2> QED BY <1>2, <1>3, <2>1, <2>3 DEF Follows, WillRead
<1>7. CASE /\ Applies(MapEvent(a), row) /\ ~MapEvent(a).cancelled
           /\ copy = Rescheduled(row, MapEvent(a), clock) /\ entry = None
  <2>1. /\ copy.updated = clock /\ Active(copy) /\ copy # None /\ Active(row)
        /\ copy.start = MapEvent(a).start /\ copy.end = MapEvent(a).end
    <3>0. events \in [Appts -> Event \cup {None}]
      BY SyncTypes
    <3>1. MapEvent(a).start \in Int /\ MapEvent(a).end \in Int
      BY <1>2, <3>0 DEF MapEvent, Event
    <3>2. copy \in Row
      BY <1>0, <1>7, <3>1 DEF Rescheduled, Row, Statuses
    <3>3. /\ copy.updated = clock /\ copy.status = "RESCHEDULED"
          /\ copy.start = MapEvent(a).start /\ copy.end = MapEvent(a).end
      BY <1>7, <3>2 DEF Rescheduled, Row
    <3>4. Active(row)
      BY <1>7 DEF Applies
    <3> QED BY <3>2, <3>3, <3>4, NoneAssumption DEF Active
  <2>2. Meant(a, copy)
    BY <1>2, <1>7, <2>1 DEF MapEvent, Meant, IsLive, Moves
  <2>3. Drafted(x, a)
    BY <1>1, <1>3, <1>4, <2>1, <2>2 DEF Drafted
  <2> QED BY <1>2, <1>3, <2>1, <2>3 DEF Follows, WillRead
<1>8. CASE copy = None /\ entry \in Entry /\ entry.op = "UPDATE" /\ entry.event = None
  <2>1. Drafted(x, a) /\ entry # None
    BY <1>3, <1>8, NoneAssumption DEF Drafted
  <2> QED BY <1>2, <1>3, <1>8, <2>1 DEF Follows, WillRead
<1> QED BY <1>1, <1>2, <1>5, <1>6, <1>7, <1>8 DEF Verdict

LEMMA PollFollows ==
  ASSUME NInv, NEW p \in Pollers, NEW y \in Poll, NEW x \in Poll, Polls(p, y, x),
         NEW a \in Appts, rows[a] # None, Tracked(a)
  PROVE  /\ Follows(x, a)
         /\ Active(rows[a]) /\ Listed(a) => WillRead(x, a) \/ Meant(a, rows[a])
<1>0. /\ SyncInv /\ Follows(y, a) /\ Batched(y) /\ (Listed(a) => WillRead(y, a))
      /\ \A b \in unread : events[b] # None
  BY DEF Polls, NInv, SyncInv, Tracked, Listed
<1>1. CASE x = y
  BY <1>0, <1>1
<1>2. CASE Ends(x)
  BY <1>2 DEF Ends, Follows, Drafted, WillRead, Sweeps
<1>3. CASE Fetches(x)
  <2>1. Follows(x, a)
    BY <1>3 DEF Fetches, Follows, Drafted
  <2>2. Listed(a) => WillRead(x, a)
    BY <1>0, <1>3 DEF Fetches, Listed, WillRead
  <2> QED BY <2>1, <2>2
<1>4. ASSUME NEW b \in Appts, Rechecks(y, x, b)
      PROVE  Follows(x, a) /\ (WillRead(y, a) => WillRead(x, a))
  <2>1. CASE b = a
    BY <1>0, <1>4, <2>1, RecheckFollows
  <2>2. CASE b # a
    BY <1>0, <1>4, <2>2, ElsewhereFollows DEF Rechecks, Poll
  <2> QED BY <2>1, <2>2
<1>5. ASSUME NEW b \in Appts, NEW copy \in Row \cup {None}, NEW entry \in Entry \cup {None},
             Decides(y, x, b, copy, entry), Verdict(b, y.batch[b], copy, entry)
      PROVE  /\ Follows(x, a)
             /\ Active(rows[a]) /\ Listed(a) => WillRead(x, a) \/ Meant(a, rows[a])
  <2>1. CASE b = a
    BY <1>0, <1>5, <2>1, VerdictFollows
  <2>2. CASE b # a
    <3>1. Follows(x, a) /\ (WillRead(y, a) => WillRead(x, a))
      BY <1>0, <1>5, <2>2, ElsewhereFollows DEF Decides, Poll
    <3> QED BY <1>0, <3>1
  <2> QED BY <2>1, <2>2
<1> QED BY <1>0, <1>1, <1>2, <1>3, <1>4, <1>5 DEF Polls

LEMMA PollKeepsTracked ==
  ASSUME NInv, NEW p \in Pollers, Poller(p), ~CommitBatch(p), ~StoreToken(p),
         NEW a \in Appts, rows[a] # None, Tracked(a)
  PROVE  Tracked(a)'
<1>0. SyncInv /\ poll \in [Pollers -> Poll]
  BY SyncTypes DEF NInv
<1>1. PICK y, x \in Poll : Polls(p, y, x)
  BY <1>0, PollSteps
<1>2. /\ UNCHANGED <<rows, outbox, txns, disp, events, stamps, unread>>
      /\ poll'[p] = x /\ \A q \in Pollers \ {p} : poll'[q] = poll[q]
  BY <1>0, <1>1 DEF Polls
<1>3. /\ Follows(x, a)
      /\ Active(rows[a]) /\ Listed(a) => WillRead(x, a) \/ Meant(a, rows[a])
  BY <1>1, PollFollows
<1>4. (Deleting(a) <=> Deleting(a)') /\ (Gone(a) <=> Gone(a)') /\ (Coming(a) <=> Coming(a)')
  BY <1>2 DEF Deleting, Gone, Coming, EntriesOf, Open
<1>5. ASSUME NEW r, OnItsWay(a, r) PROVE OnItsWay(a, r)'
  BY <1>2, <1>4, <1>5 DEF OnItsWay, Meant, IsLive, Sending, Handles, Holding, Moves, Body
<1>6. ASSUME NEW z \in Poll, Follows(z, a) PROVE Follows(z, a)'
  <2>1. PICK s : s = Result(z, a) /\ s = Result(z, a)'
    BY <1>2 DEF Result
  <2>2. Drafted(z, a)'
    <3>1. OnItsWay(a, Result(z, a)) => OnItsWay(a, Result(z, a))'
      <4>1. OnItsWay(a, Result(z, a)) => OnItsWay(a, s)
        BY <2>1
      <4>2. OnItsWay(a, s)' => OnItsWay(a, Result(z, a))'
        BY <2>1 DEF OnItsWay, Meant, Sending, IsLive
      <4> QED BY <1>5, <4>1, <4>2
    <3>2. Active(Result(z, a))' <=> Active(Result(z, a))
      BY <2>1
    <3> QED BY <1>2, <1>4, <1>6, <3>1, <3>2
            DEF Follows, Drafted, Stirred, Meant, IsLive, Active
  <2> QED BY <1>2, <1>6, <2>2 DEF Follows, MapEvent
<1>7. ASSUME NEW z \in Poll, WillRead(z, a) PROVE WillRead(z, a)'
  BY <1>2, <1>7 DEF WillRead, Sweeps
<1>8. ASSUME NEW q \in Pollers PROVE Follows(poll[q], a)'
  <2>1. PICK z \in Poll : z = poll'[q]
    BY <1>0, <1>2
  <2>2. Follows(z, a)
    BY <1>2, <1>3, <2>1 DEF Tracked
  <2>3. Follows(z, a)'
    BY <1>6, <2>2
  <2> QED BY <2>1, <2>3 DEF Follows, Drafted, Stirred, Result
<1>9. Covered(a)'
  <2>0. Covered(a)
    BY DEF Tracked
  <2>1. CASE ~Active(rows[a]) \/ events[a] = None
    BY <1>2, <1>4, <2>0, <2>1 DEF Covered
  <2>2. CASE OnItsWay(a, rows[a])
    <3>1. PICK s : s = rows[a] /\ s = rows'[a]
      BY <1>2
    <3>2. OnItsWay(a, s)'
      BY <1>5, <2>2, <3>1
    <3>3. OnItsWay(a, rows[a])'
      BY <3>1, <3>2 DEF OnItsWay, Meant, Sending, IsLive
    <3> QED BY <1>2, <1>4, <2>0, <3>3 DEF Covered
  <2>3. CASE Active(rows[a]) /\ Listed(a) /\ WillRead(x, a)
    <3>1. ASSUME NEW q \in Pollers PROVE WillRead(poll[q], a)'
      <4>1. PICK z \in Poll : z = poll'[q]
        BY <1>0, <1>2
      <4>2. WillRead(z, a)
        BY <1>2, <2>3, <4>1 DEF Listed
      <4> QED BY <1>7, <4>1, <4>2 DEF WillRead
    <3>2. Listed(a)'
      BY <1>2, <2>3, <3>1 DEF Listed
    <3> QED BY <1>2, <2>3, <3>2 DEF Covered
  <2>4. Meant(a, rows[a]) => OnItsWay(a, rows[a])
    BY DEF OnItsWay
  <2> QED BY <1>3, <2>0, <2>1, <2>2, <2>3, <2>4 DEF Covered
<1> QED BY <1>8, <1>9 DEF Tracked

(* The row a batch saves: cancelled if the copy or the row was, with the   *)
(* time stamp of the copy.                                                 *)
LEMMA SavedRow ==
  ASSUME NEW copy \in Row, NEW basis \in Row, NEW row \in Row, basis.updated # copy.updated
  PROVE  /\ Merged(copy, basis, row) \in Row
         /\ Merged(copy, basis, row).updated = copy.updated
         /\ Active(copy) /\ Active(row) => Active(Merged(copy, basis, row))
<1>1. Merged(copy, basis, row) \in Row
  BY MergedIsRow
<1>2. /\ Merged(copy, basis, row).updated = copy.updated
      /\ Merged(copy, basis, row).status \in {copy.status, row.status}
  BY DEF Merged, Column, Row
<1> QED BY <1>1, <1>2 DEF Active

(* What was on its way stays so when a batch adds entries, and what the    *)
(* batch owes is on its way from then on.                                  *)
LEMMA BatchCarries ==
  ASSUME SyncInv, NEW p \in Pollers, CommitBatch(p), NEW a \in Appts
  PROVE  /\ Deleting(a) => Deleting(a)'
         /\ \A r : OnItsWay(a, r) => OnItsWay(a, r)'
         /\ poll[p].entries[a] # None /\ poll[p].entries[a].op = "DELETE" => Deleting(a)'
         /\ poll[p].entries[a] # None /\ poll[p].entries[a].op = "UPDATE" => Coming(a)'
<1>0. /\ PInv /\ Batched(poll[p]) /\ UNCHANGED <<events, disp>>
  BY BatchTables, SyncTypes DEF SyncInv
<1>1. \A t \in Txns : outbox[t] # None => outbox'[t] = outbox[t]
  BY BatchEntries
<1>2. Deleting(a) => Deleting(a)'
  BY <1>1 DEF Deleting, EntriesOf
<1>3. Coming(a) => Coming(a)'
  BY <1>0, <1>1 DEF Coming, EntriesOf, Open
<1>4. ASSUME NEW d \in Dispatchers, Holding(disp[d])
      PROVE  outbox'[disp[d].entry] = outbox[disp[d].entry]
  BY <1>0, <1>1, <1>4, HeldEntry
<1>5. ASSUME NEW r, NEW d \in Dispatchers, Sending(disp[d], a, r)
      PROVE  Sending(disp[d], a, r)'
  BY <1>0, <1>4, <1>5 DEF Sending, Handles
<1>6. ASSUME NEW r, OnItsWay(a, r) PROVE OnItsWay(a, r)'
  BY <1>0, <1>2, <1>3, <1>5, <1>6 DEF OnItsWay, Meant, IsLive
<1>7. ASSUME poll[p].entries[a] # None
      PROVE  /\ poll[p].entries[a].op = "DELETE" => Deleting(a)'
             /\ poll[p].entries[a].op = "UPDATE" => Coming(a)'
  <2>1. PICK t \in Txns : outbox[t] = None /\ outbox'[t] = poll[p].entries[a]
    BY <1>7, BatchEntries
  <2>2. outbox'[t] # None /\ outbox'[t].appt = a /\ outbox'[t].status = "PENDING"
    BY <1>0, <1>7, <2>1 DEF Batched
  <2>3. \A d \in Dispatchers : Holding(disp[d]) => disp[d].entry # t
    BY <1>0, <2>1, HeldEntry
  <2>4. outbox'[t].op = "UPDATE" => Coming(a)'
    BY <1>0, <2>2, <2>3 DEF Coming, EntriesOf, Open, Holding
  <2> QED BY <2>1, <2>2, <2>4 DEF Deleting, EntriesOf
<1> QED BY <1>2, <1>6, <1>7

(* The commit of a batch, when no other sweep is under way, leaves the     *)
(* calendar on its way to what the table says.                             *)
LEMMA BatchCovers ==
  ASSUME SyncInv, OneSweep, NEW p \in Pollers, CommitBatch(p),
         NEW a \in Appts, rows[a] # None, Tracked(a)
  PROVE  Covered(a)'
<1>0. /\ UNCHANGED <<events, disp, stamps, unread>> /\ poll \in [Pollers -> Poll]
      /\ Covered(a) /\ Follows(poll[p], a) /\ Batched(poll[p])
  BY BatchTables, SyncTypes DEF CommitBatch, Tracked, SyncInv
<1>1. PICK y \in Poll : y = poll[p]
  BY <1>0
<1>2. PICK row \in Row : row = rows[a]
  BY SyncTypes
<1>3. PICK new : new = rows'[a]
  OBVIOUS
<1>4. new = IF y.bases[a] = None THEN row ELSE Result(y, a)
  BY <1>1, <1>2, <1>3 DEF CommitBatch, View, Result
<1>5. /\ y.left = {} /\ y.phase = "fetched"
      /\ (y.copies[a] # None <=> y.bases[a] # None)
  BY <1>0, <1>1 DEF CommitBatch, Flushed, Batched
<1>6. /\ Deleting(a) => Deleting(a)'
      /\ Gone(a) => Gone(a)'
      /\ \A r : OnItsWay(a, r) => OnItsWay(a, r)'
      /\ y.entries[a] # None /\ y.entries[a].op = "DELETE" => Deleting(a)'
      /\ y.entries[a] # None /\ y.entries[a].op = "UPDATE" => Coming(a)'
  BY <1>0, <1>1, BatchCarries DEF Gone
<1>7. new.tech = row.tech
  BY <1>2, <1>3, BatchTables
<1>8. ASSUME row.tech = y.tech => a \in y.since, a \in unread, stamps[a] > new.updated
      PROVE  Listed(a)'
  <2>1. ASSUME NEW q \in Pollers PROVE WillRead(poll[q], a)'
    <3>1. poll' = [poll EXCEPT ![p] =
            [Resting("committed") EXCEPT !.tech = y.tech, !.since = y.since]]
      BY <1>1 DEF CommitBatch
    <3>2. CASE q = p
      <4>1. PICK z : z = [Resting("committed") EXCEPT !.tech = y.tech, !.since = y.since]
        OBVIOUS
      <4>2. z.tech = y.tech /\ z.since = y.since
        BY <4>1 DEF Resting
      <4>3. poll'[q] = z
        BY <1>0, <3>1, <3>2, <4>1
      <4> QED BY <1>2, <1>3, <1>7, <1>8, <4>2, <4>3 DEF WillRead
    <3>3. CASE q # p
      <4>1. ~Sweeps(poll[q])
        BY <1>1, <1>5, <3>3 DEF OneSweep, Sweeps
      <4>2. poll'[q] = poll[q]
        BY <1>0, <3>1, <3>3
      <4> QED BY <4>1, <4>2 DEF WillRead, Sweeps
    <3> QED BY <3>2, <3>3
  <2> QED BY <1>0, <1>3, <1>8, <2>1 DEF Listed
<1>9. CASE y.bases[a] = None
  <2>1. new = row /\ y.copies[a] = None
    BY <1>4, <1>5, <1>9
  <2>2. CASE ~Active(row)
    BY <1>0, <1>2, <1>3, <1>6, <2>1, <2>2 DEF Covered
  <2>3. CASE Active(row) /\ events[a] = None
    BY <1>0, <1>2, <1>3, <2>1, <2>3 DEF Covered
  <2>4. CASE Active(row) /\ OnItsWay(a, row)
    <3>1. OnItsWay(a, new)'
      BY <1>6, <2>1, <2>4
    <3>2. OnItsWay(a, rows[a])'
      BY <1>3, <3>1 DEF OnItsWay, Meant, Sending, IsLive
    <3> QED BY <1>3, <2>1, <2>4, <3>2 DEF Covered
  <2>5. CASE Active(row) /\ Listed(a)
    <3>1. CASE y.entries[a] # None
      <4>1. Coming(a)'
        BY <1>0, <1>1, <1>6, <2>1, <3>1 DEF Follows
      <4>2. OnItsWay(a, rows[a])'
        BY <4>1 DEF OnItsWay
      <4> QED BY <1>3, <2>1, <2>5, <4>2 DEF Covered
    <3>2. CASE y.entries[a] = None
      <4>1. row.tech = y.tech => a \in y.since
        BY <1>1, <1>2, <1>5, <2>1, <2>5, <3>2 DEF Listed, WillRead, Sweeps
      <4>2. a \in unread /\ stamps[a] > new.updated
        BY <1>2, <2>1, <2>5 DEF Listed
      <4>3. Listed(a)'
        BY <1>8, <4>1, <4>2
      <4> QED BY <1>3, <2>1, <2>5, <4>3 DEF Covered
    <3> QED BY <3>1, <3>2
  <2> QED BY <1>0, <1>2, <2>2, <2>3, <2>4, <2>5 DEF Covered
<1>10. CASE y.bases[a] # None
  <2>1. PICK copy \in Row, basis \in Row : copy = y.copies[a] /\ basis = y.bases[a]
    BY <1>5, <1>10 DEF Poll
  <2>2. Drafted(y, a)
    BY <1>0, <1>1 DEF Follows
  <2>3. basis.updated # copy.updated
    BY <1>5, <1>10, <2>1, <2>2 DEF Drafted
  <2>4. new = Merged(copy, basis, row) /\ new = Result(y, a)
    BY <1>2, <1>4, <1>10, <2>1 DEF Result
  <2>5. new.updated = copy.updated /\ (Active(copy) /\ Active(row) => Active(new))
    <3>1. /\ Merged(copy, basis, row).updated = copy.updated
          /\ Active(copy) /\ Active(row) => Active(Merged(copy, basis, row))
      BY <2>3, SavedRow
    <3> QED BY <2>4, <3>1 DEF Active
  <2>6. CASE Active(new) /\ Stirred(y, a)
    <3>1. Listed(a)'
      BY <1>8, <2>1, <2>5, <2>6 DEF Stirred
    <3> QED BY <1>3, <2>6, <3>1 DEF Covered
  <2>7. CASE Active(new) /\ OnItsWay(a, new)
    <3>1. OnItsWay(a, new)'
      BY <1>6, <2>7
    <3>2. OnItsWay(a, rows[a])'
      BY <1>3, <3>1 DEF OnItsWay, Meant, Sending, IsLive
    <3> QED BY <1>3, <2>7, <3>2 DEF Covered
  <2>8. CASE ~Active(new)
    <3>1. Deleting(a)' \/ Gone(a)'
      BY <1>2, <1>5, <1>6, <1>10, <2>1, <2>2, <2>5, <2>8 DEF Drafted
    <3> QED BY <1>3, <2>8, <3>1 DEF Covered
  <2> QED BY <1>5, <1>10, <2>2, <2>4, <2>6, <2>7, <2>8 DEF Drafted
<1> QED BY <1>9, <1>10

(* Whoever is not sweeping, or has committed, has decided on nothing.      *)
LEMMA BatchKeepsTracked ==
  ASSUME SyncInv, OneSweep, NEW p \in Pollers, CommitBatch(p),
         NEW a \in Appts, rows[a] # None, Tracked(a)
  PROVE  Tracked(a)'
<1>1. ASSUME NEW q \in Pollers PROVE Follows(poll[q], a)'
  <2>1. PICK z : z = poll'[q]
    OBVIOUS
  <2>2. a \notin z.left /\ z.copies[a] = None /\ z.entries[a] = None
    <3>1. poll \in [Pollers -> Poll]
      BY SyncTypes
    <3>2. CASE q = p
      BY <2>1, <3>1, <3>2 DEF CommitBatch, Resting, Nothing
    <3>3. CASE q # p
      <4>1. poll[q].phase # "fetched"
        BY <3>3 DEF OneSweep, Sweeps, CommitBatch
      <4>2. poll'[q] = poll[q]
        BY <3>1, <3>3 DEF CommitBatch
      <4> QED BY <2>1, <4>1, <4>2 DEF Tracked, Follows
    <3> QED BY <3>2, <3>3
  <2> QED BY <2>1, <2>2 DEF Follows, Drafted
<1> QED BY <1>1, BatchCovers DEF Tracked

(* What the stored token passes over was decided on.                       *)
LEMMA StoreTokenKeepsTracked ==
  ASSUME NInv, OneSweep, NEW p \in Pollers, StoreToken(p),
         NEW a \in Appts, rows[a] # None, Tracked(a)
  PROVE  Tracked(a)'
<1>0. /\ poll \in [Pollers -> Poll] /\ unread \subseteq Appts
      /\ UNCHANGED <<rows, outbox, txns, disp, events, stamps>>
      /\ poll[p].phase = "committed"
      /\ poll' = [poll EXCEPT ![p] = Resting("idle")]
      /\ unread' = OnCalendar(poll[p].tech, poll[p].since)
                   \cup (unread \ OnCalendar(poll[p].tech, unread))
      /\ Covered(a) /\ \A q \in Pollers : Follows(poll[q], a)
  BY SyncTypes DEF NInv, StoreToken, vars, coreVars, projVars, Tracked
<1>1. ASSUME NEW q \in Pollers
      PROVE  /\ ~Sweeps(poll'[q])
             /\ a \notin poll'[q].left /\ poll'[q].copies[a] = None /\ poll'[q].entries[a] = None
  <2>1. CASE q = p
    BY <1>0, <2>1 DEF Resting, Nothing, Sweeps
  <2>2. CASE q # p
    <3>1. ~Sweeps(poll[q])
      BY <1>0, <2>2 DEF OneSweep, Sweeps
    <3>2. poll'[q] = poll[q]
      BY <1>0, <2>2
    <3> QED BY <1>0, <3>1, <3>2 DEF Follows, Sweeps
  <2> QED BY <2>1, <2>2
<1>2. ASSUME NEW q \in Pollers PROVE Follows(poll[q], a)' /\ WillRead(poll[q], a)'
  BY <1>1 DEF Follows, Drafted, WillRead, Sweeps
<1>3. ASSUME Listed(a) PROVE Listed(a)'
  <2>1. /\ a \in unread /\ events[a] # None /\ WillRead(poll[p], a)
        /\ poll[p].copies[a] = None /\ poll[p].entries[a] = None /\ a \notin poll[p].left
    BY <1>0, <1>3 DEF Listed, NInv, Follows
  <2>2. a \in unread'
    BY <1>0, <2>1 DEF WillRead, Sweeps, OnCalendar
  <2> QED BY <1>0, <1>2, <1>3, <2>2 DEF Listed
<1>4. Covered(a)'
  BY <1>0, <1>3 DEF Covered, Deleting, Gone, OnItsWay, Meant, IsLive, Coming, EntriesOf, Open, Sending,
                    Handles, Holding, Moves, Body
<1> QED BY <1>2, <1>4 DEF Tracked

----------------------------------------------------------------------------
(* Agreement of table and calendar.                                        *)

LEMMA AInitially == Init /\ SyncInit => AInv
BY NInitially DEF AInv, Init, CoreInit

(* What happened to an appointment is not forgotten.                       *)
LEMMA HistoryGrows == [SyncNext]_allVars => raced \subseteq raced' /\ rewritten \subseteq rewritten'
<1> SUFFICES ASSUME [SyncNext]_allVars
             PROVE  raced \subseteq raced' /\ rewritten \subseteq rewritten'
  OBVIOUS
<1>1. CASE Noticed
  BY <1>1 DEF Noticed
<1>2. ASSUME NEW a \in Appts,
             (\E r \in EditRanges : MoveEvent(a, r)) \/ RemoveEvent(a) \/ DeclineEvent(a)
      PROVE  Noticed
  BY <1>2 DEF MoveEvent, RemoveEvent, DeclineEvent, Edit
<1>3. ASSUME NEW p \in Pollers, Poller(p) PROVE UNCHANGED <<raced, rewritten>>
  BY <1>3 DEF Poller, Sweep, AcquireLease, LoseLease, Die, Fetch, Ignore, CancelInbound,
              RescheduleInbound, RejectInbound, InboundReread, CommitBatch, AbortBatch, StoreToken
<1>4. CASE UNCHANGED allVars
  BY <1>4 DEF allVars, syncVars
<1> QED BY <1>1, <1>2, <1>3, <1>4 DEF SyncNext

LEMMA StutterKeepsTracked ==
  ASSUME SyncInv, UNCHANGED allVars, NEW a \in Appts, rows[a] # None, Tracked(a)
  PROVE  Tracked(a)'
<1>1. /\ UNCHANGED <<rows, outbox, disp, events, stamps, unread, poll>>
      /\ rows \in [Appts -> Row \cup {None}]
  BY SyncTypes DEF allVars, vars, coreVars, projVars, syncVars
<1>2. Carries(a)
  BY <1>1, CarriesAll DEF Deleting, OnItsWay, Meant, IsLive, Coming, EntriesOf, Open, Sending,
                          Handles, Holding, Moves, Body
<1>3. KeepsRow(a) /\ \A p \in Pollers : KeepsBatch(poll[p], poll'[p], a)
  BY <1>1 DEF KeepsRow, KeepsBatch
<1> QED BY <1>1, <1>2, <1>3, SteadyKeepsTracked

LEMMA AInductive == AInv /\ OneSweep /\ [SyncNext]_allVars => AInv'
<1> SUFFICES ASSUME AInv, OneSweep, [SyncNext]_allVars PROVE AInv'
  OBVIOUS
<1>0. NInv /\ NInv' /\ SyncInv /\ PInv
  BY NInductive DEF AInv, NInv, SyncInv
<1> SUFFICES ASSUME NEW a \in Appts, rows'[a] # None, a \notin raced' \cup rewritten'
             PROVE  Tracked(a)'
  BY <1>0 DEF AInv
<1>1. rows[a] # None => Tracked(a)
  BY HistoryGrows DEF AInv
<1>2. CASE Next /\ Noticed
  <2>1. CASE [CoreNext]_coreVars /\ UNCHANGED projVars
    BY <1>0, <1>1, <1>2, <2>1, RequestKeepsTracked
  <2>2. ASSUME NEW d \in Dispatchers, Dispatch(d) \/ Crash(d) PROVE Tracked(a)'
    <3>1. rows[a] # None
      BY <1>0, <2>2, TurnsKeepWhatEntriesSay
    <3>2. Grows
      BY <1>0, <1>2, NextFacts
    <3> QED BY <1>0, <1>1, <1>2, <2>2, <3>1, <3>2, DispatcherKeepsTracked
  <2> QED BY <1>2, <2>1, <2>2 DEF Next
<1>3. ASSUME NEW b \in Appts,
             (\E r \in EditRanges : MoveEvent(b, r)) \/ RemoveEvent(b) \/ DeclineEvent(b)
      PROVE  Tracked(a)'
  <2>1. UNCHANGED rows
    BY <1>0, <1>3, EditsGrow
  <2> QED BY <1>0, <1>1, <1>3, <2>1, EditKeepsTracked
<1>4. ASSUME NEW p \in Pollers, Poller(p) PROVE Tracked(a)'
  <2>1. CASE CommitBatch(p)
    <3>1. rows[a] # None
      BY <1>0, <2>1, BatchTables
    <3> QED BY <1>0, <1>1, <2>1, <3>1, BatchKeepsTracked
  <2>2. CASE StoreToken(p)
    <3>1. UNCHANGED rows
      BY <2>2 DEF StoreToken, vars, coreVars
    <3> QED BY <1>0, <1>1, <2>2, <3>1, StoreTokenKeepsTracked
  <2>3. CASE ~CommitBatch(p) /\ ~StoreToken(p)
    <3>1. PICK y, x \in Poll : Polls(p, y, x)
      BY <1>0, <1>4, <2>3, PollSteps
    <3>2. UNCHANGED rows
      BY <3>1 DEF Polls
    <3> QED BY <1>0, <1>1, <1>4, <2>3, <3>2, PollKeepsTracked
  <2> QED BY <2>1, <2>2, <2>3
<1>5. CASE UNCHANGED allVars
  <2>1. UNCHANGED rows
    BY <1>5 DEF allVars, vars, coreVars
  <2> QED BY <1>0, <1>1, <1>5, <2>1, StutterKeepsTracked
<1> QED BY <1>2, <1>3, <1>4, <1>5 DEF SyncNext

(* Once nothing is under way, what is covered agrees.                      *)
LEMMA CoveredAgrees ==
  ASSUME NInv, Quiet, NEW a \in Appts, Settled(a), Covered(a)
  PROVE  Agrees(a)
<1>0. /\ PInv /\ events \in [Appts -> Event \cup {None}] /\ outbox \in [Txns -> Entry \cup {None}]
      /\ rows[a] # None /\ unread = {}
  BY SyncTypes DEF NInv, Quiet, Settled
<1>1. ASSUME NEW t \in EntriesOf(a)
      PROVE  outbox[t].status = "PROCESSED" /\ Delivered(t)
  <2>1. outbox[t] \in Entry /\ outbox[t] # None /\ t \in Txns
    BY <1>0 DEF EntriesOf
  <2>2. outbox[t].status = "PROCESSED"
    BY <2>1 DEF Settled, Unfailed, Quiet, Drained, Pending, Entry
  <2> QED BY <1>0, <2>1, <2>2 DEF PInv, Honest
<1>2. ~Coming(a)
  BY <1>1 DEF Coming, Open
<1>3. ASSUME NEW d \in Dispatchers, NEW r PROVE ~Sending(disp[d], a, r)
  <2>1. ~Holding(disp[d])
    BY <1>0 DEF PInv, Sound, Quiet, Drained
  <2> QED BY <2>1 DEF Sending, Handles
<1>4. events[a] # None
  BY <1>0, <1>1 DEF NInv, Announced, EntriesOf, Delivered
<1>5. CASE Active(rows[a])
  <2>1. ~Deleting(a)
    BY <1>5 DEF Settled, Revived, Deleting
  <2>2. ~Listed(a)
    BY <1>0 DEF Listed
  <2>3. Meant(a, rows[a])
    BY <1>2, <1>3, <1>4, <1>5, <2>1, <2>2 DEF Covered, OnItsWay
  <2> QED BY <1>5, <2>3 DEF Meant, Agrees
<1>6. CASE ~Active(rows[a])
  <2>1. ASSUME NEW t \in EntriesOf(a), outbox[t].op = "DELETE" PROVE ~IsLive(a)
    <3>1. outbox[t].event = a
      <4>1. outbox[t] # None /\ outbox[t].appt = a /\ t \in Txns
        BY DEF EntriesOf
      <4> QED BY <2>1, <4>1 DEF Settled, BlindDelete, NInv, Names, NamesOwn
    <3> QED BY <1>0, <1>1, <2>1, <3>1 DEF Delivered, IsLive, Settled, BlindDelete
  <2>2. ~IsLive(a)
    BY <1>6, <2>1 DEF Covered, Deleting, Gone, IsLive
  <2> QED BY <1>6, <2>2 DEF Agrees
<1> QED BY <1>5, <1>6

LEMMA AInvAgrees == AInv => AgreedUnlessRaced
BY CoveredAgrees DEF AInv, Tracked, AgreedUnlessRaced, Settled

(* Table and calendar end up agreeing on whether and when every            *)
(* appointment AgreedUnlessRaced is about takes place, whatever requests,  *)
(* any number of dispatchers, people and crashes do, provided that one     *)
(* sweep at a time is under way, which is what core/lease.py is for.       *)
THEOREM AgreementUnderOneSweep == SyncSpec /\ []OneSweep => []AgreedUnlessRaced
<1>1. Init /\ SyncInit => AInv
  BY AInitially
<1>2. AInv /\ OneSweep /\ [SyncNext]_allVars => AInv'
  BY AInductive
<1>3. AInv => AgreedUnlessRaced
  BY AInvAgrees
<1> QED BY <1>1, <1>2, <1>3, PTL DEF SyncSpec

(* Whoever polls holds the lease.                                          *)
Leased == /\ lease \in Pollers \cup {None}
          /\ \A p \in Pollers : poll[p].phase # "standby" => lease = p

(* core/lease.py: the advisory lock keeps a single worker polling, as long *)
(* as no session that holds it loses its connection while its worker polls *)
(* on.                                                                     *)
THEOREM LeaseKeepsOneSweep ==
  SyncSpec /\ [][\A p \in Pollers : ~LoseLease(p)]_allVars => []OneSweep
<1>1. Init /\ SyncInit => Leased
  BY DEF SyncInit, Leased, Resting
<1>2. ASSUME SyncTypeOK, Leased, [SyncNext]_allVars, [\A p \in Pollers : ~LoseLease(p)]_allVars
      PROVE  Leased'
  <2>0. poll \in [Pollers -> Poll]
    BY <1>2 DEF SyncTypeOK
  <2>1. CASE Noticed
    <3>1. \A p \in Pollers : poll'[p].phase = poll[p].phase
      BY <2>0, <2>1 DEF Noticed, Poll
    <3> QED BY <1>2, <2>1, <3>1 DEF Leased, Noticed
  <2>2. ASSUME NEW a \in Appts,
               (\E r \in EditRanges : MoveEvent(a, r)) \/ RemoveEvent(a) \/ DeclineEvent(a)
        PROVE  Noticed
    BY <2>2 DEF MoveEvent, RemoveEvent, DeclineEvent, Edit
  <2>3. CASE UNCHANGED allVars
    BY <1>2, <2>3 DEF allVars, syncVars, Leased
  <2>4. ASSUME NEW p \in Pollers, AcquireLease(p) PROVE Leased'
    <3>1. \A q \in Pollers \ {p} : poll'[q] = poll[q]
      BY <2>0, <2>4 DEF AcquireLease
    <3>2. \A q \in Pollers : poll[q].phase = "standby"
      BY <1>2, <2>4, InboundAssumption DEF AcquireLease, Leased
    <3> QED BY <2>4, <3>1, <3>2 DEF AcquireLease, Leased
  <2>5. ASSUME NEW p \in Pollers, Die(p) PROVE Leased'
    <3>1. poll'[p].phase = "standby" /\ \A q \in Pollers \ {p} : poll'[q] = poll[q]
      BY <2>0, <2>5 DEF Die, Resting
    <3> QED BY <1>2, <2>5, <3>1 DEF Die, Leased
  <2>6. ASSUME NEW p \in Pollers, LoseLease(p) PROVE FALSE
    BY <1>2, <2>6 DEF LoseLease, allVars, vars, projVars
  <2>7. ASSUME NEW p \in Pollers, Poller(p), ~AcquireLease(p), ~Die(p) PROVE Leased'
    <3>1. /\ UNCHANGED lease /\ poll[p].phase # "standby"
          /\ \A q \in Pollers \ {p} : poll'[q] = poll[q]
      BY <2>0, <2>6, <2>7 DEF Poller, Sweep, Fetch, Ignore, CancelInbound, RescheduleInbound,
              RejectInbound, Reconciling, Decided, InboundReread, CommitBatch, AbortBatch, StoreToken
    <3> QED BY <1>2, <3>1 DEF Leased
  <2> QED BY <1>2, <2>1, <2>2, <2>3, <2>4, <2>5, <2>7 DEF SyncNext
<1>3. Leased => OneSweep
  BY DEF Leased, OneSweep, Sweeps
<1> QED BY <1>1, <1>2, <1>3, SyncTypeCorrect, PTL DEF SyncSpec

(* So the lease, while sessions last, gives agreement ...                  *)
THEOREM AgreementUnderTheLease ==
  SyncSpec /\ [][\A p \in Pollers : ~LoseLease(p)]_allVars => []AgreedUnlessRaced
BY LeaseKeepsOneSweep, AgreementUnderOneSweep, PTL

(* ... and with a single worker process the lease is not even needed: its  *)
(* session may drop, and the worker may die, whenever it likes.            *)
THEOREM AgreementWithOneWorker ==
  ASSUME \A p, q \in Pollers : p = q
  PROVE  SyncSpec => []AgreedUnlessRaced
<1>1. OneSweep
  BY DEF OneSweep
<1> QED BY <1>1, AgreementUnderOneSweep, PTL

----------------------------------------------------------------------------
(* Cancelled appointments, with any number of pollers.                     *)

(* The log tells of the cancellation of a, and the calendar was told, or   *)
(* did the telling.                                                        *)
Heard(a) ==
  /\ \E i \in DOMAIN audits[a] : audits[a][i] = "CANCELLED"
  /\ Deleting(a) \/ Gone(a)

(* Whoever cancels an appointment, a request or the guest or technician in *)
(* the calendar, and whatever saves and batches merge into its row.        *)
CancelledIsHeardOf == \A a \in Appts : rows[a] # None /\ ~Active(rows[a]) => Heard(a)

(* A dispatcher's copy is no news, and a batch cancels what is gone, or    *)
(* owes the calendar a DELETE.                                             *)
NoNews(w) ==
  w.phase \in {"loaded", "returned", "reread"} /\ ~Active(w.copy) => Heard(outbox[w.entry].appt)

Cancels(x, a) ==
  /\ x.batch[a] # None /\ x.batch[a].cancelled => Gone(a)
  /\ x.copies[a] # None /\ ~Active(x.copies[a]) =>
       Gone(a) \/ (x.entries[a] # None /\ x.entries[a].op = "DELETE")

CInv ==
  /\ SyncInv
  /\ CancelledIsHeardOf
  /\ \A d \in Dispatchers : NoNews(disp[d])
  /\ \A p \in Pollers, a \in Appts : Cancels(poll[p], a)

(* What a step never takes back of the log, the outbox and the calendar.   *)
Remembers ==
  /\ \A a \in Appts : \/ audits'[a] = audits[a]
                      \/ \E act \in AuditActions : audits'[a] = Append(audits[a], act)
  /\ EntriesStay
  /\ \A a \in Appts : Gone(a) => Gone(a)'

LEMMA HeardForGood ==
  ASSUME SyncInv, Remembers, NEW a \in Appts, Heard(a)
  PROVE  Heard(a)'
<1>0. audits[a] \in Seq(AuditActions)
  BY DEF SyncInv, PInv, LInv, IInv, TypeOK
<1>1. PICK i \in DOMAIN audits[a] : audits[a][i] = "CANCELLED"
  BY DEF Heard
<1>2. i \in DOMAIN audits'[a] /\ audits'[a][i] = "CANCELLED"
  BY <1>0, <1>1 DEF Remembers
<1>3. (Deleting(a) => Deleting(a)') /\ (Gone(a) => Gone(a)')
  BY DEF Remembers, EntriesStay, Deleting, EntriesOf
<1> QED BY <1>2, <1>3 DEF Heard

(* The dispatchers the step leaves alone keep what they know.              *)
LEMMA NoNewsStays ==
  ASSUME SyncInv, Remembers, NEW d \in Dispatchers, NoNews(disp[d]), disp'[d] = disp[d]
  PROVE  NoNews(disp[d])'
<1>1. Holding(disp[d]) =>
        /\ disp[d].entry \in Txns /\ outbox[disp[d].entry] # None
        /\ outbox[disp[d].entry].appt \in Appts
  BY HeldEntry DEF SyncInv
<1>2. Holding(disp[d]) => outbox'[disp[d].entry].appt = outbox[disp[d].entry].appt
  BY <1>1 DEF Remembers, EntriesStay
<1>3. Holding(disp[d]) /\ Heard(outbox[disp[d].entry].appt) => Heard(outbox[disp[d].entry].appt)'
  <2> SUFFICES ASSUME Holding(disp[d]), Heard(outbox[disp[d].entry].appt)
               PROVE  Heard(outbox[disp[d].entry].appt)'
    OBVIOUS
  <2>1. PICK a \in Appts : a = outbox[disp[d].entry].appt /\ a = outbox'[disp[d].entry].appt
    BY <1>1, <1>2
  <2>2. Heard(a)'
    BY <2>1, HeardForGood
  <2> QED BY <2>1, <2>2 DEF Heard, Deleting, Gone
<1> QED BY <1>3 DEF NoNews, Holding, Heard, Deleting, Gone

(* A row the step leaves alone, and one it cancels.                        *)
LEMMA HeardOfRows ==
  ASSUME SyncInv, CancelledIsHeardOf, Remembers,
         \A a \in Appts : rows'[a] # None /\ ~Active(rows'[a]) =>
           (rows[a] # None /\ ~Active(rows[a])) \/ Heard(a)'
  PROVE  CancelledIsHeardOf'
<1> SUFFICES ASSUME NEW a \in Appts, rows'[a] # None, ~Active(rows'[a]) PROVE Heard(a)'
  BY DEF CancelledIsHeardOf, Heard, Deleting, Gone
<1> QED BY HeardForGood DEF CancelledIsHeardOf

(* A batch that is not decided any further keeps what it knows.            *)
LEMMA CancelsStays ==
  ASSUME Remembers, NEW a \in Appts, NEW y, NEW x, Cancels(y, a),
         x.batch = y.batch, x.copies = y.copies, x.entries = y.entries
  PROVE  Cancels(x, a)'
BY DEF Remembers, Cancels

LEMMA NoticedCancels ==
  ASSUME CInv, Remembers, Noticed
  PROVE  \A p \in Pollers, a \in Appts : Cancels(poll[p], a)'
<1> SUFFICES ASSUME NEW p \in Pollers, NEW a \in Appts PROVE Cancels(poll[p], a)'
  OBVIOUS
<1>1. PICK y : y = poll[p]
  OBVIOUS
<1>2. PICK x : x = poll'[p]
  OBVIOUS
<1>3. x.batch = y.batch /\ x.copies = y.copies /\ x.entries = y.entries
  BY <1>1, <1>2, NoticedPoll, SyncTypes DEF CInv
<1>4. Cancels(y, a)
  BY <1>1 DEF CInv
<1>5. Cancels(x, a)'
  BY <1>3, <1>4, CancelsStays
<1> QED BY <1>2, <1>5 DEF Cancels

LEMMA RequestKeepsCInv ==
  ASSUME CInv, SyncInv', [CoreNext]_coreVars, UNCHANGED projVars, Noticed
  PROVE  CInv'
<1>0. /\ SyncInv /\ PInv /\ LInv /\ UNCHANGED <<events, disp>>
      /\ audits \in [Appts -> Seq(AuditActions)]
  BY SyncTypes DEF CInv, projVars, LInv, IInv, TypeOK
<1>1. EntriesStay /\ \A a \in Appts : Gone(a) => Gone(a)'
  BY <1>0, RequestsOnlyAdd DEF EntriesStay, Gone
<1>2. /\ \A a \in Appts : \/ audits'[a] = audits[a]
                          \/ \E act \in AuditActions : audits'[a] = Append(audits[a], act)
      /\ \A a \in Appts : rows'[a] # None /\ ~Active(rows'[a]) =>
           (rows[a] # None /\ ~Active(rows[a])) \/ Heard(a)'
  <2>1. CASE Inert
    BY <2>1 DEF Inert
  <2>2. ASSUME NEW t \in Txns, NEW row \in Row, Commits(t, row), Written(t, row)
        PROVE  /\ \A a \in Appts : \/ audits'[a] = audits[a]
                                   \/ \E act \in AuditActions : audits'[a] = Append(audits[a], act)
               /\ \A a \in Appts : rows'[a] # None /\ ~Active(rows'[a]) =>
                    (rows[a] # None /\ ~Active(rows[a])) \/ Heard(a)'
    <3>1. PICK b \in Appts :
            /\ b = txns[t].appt /\ rows'[b] = row
            /\ audits'[b] = Append(audits[b], AuditAction(txns[t].op))
            /\ outbox'[t] = Enqueued(t) /\ outbox'[t] # None
            /\ \A a \in Appts \ {b} : rows'[a] = rows[a] /\ audits'[a] = audits[a]
      BY <1>0, <2>2, CommitTables
    <3>2. AuditAction(txns[t].op) \in AuditActions
      BY <1>0, <2>2, CommitFacts DEF Written, AuditAction, AuditActions, Ops
    <3>3. ASSUME txns[t].op = "CANCEL" PROVE Heard(b)'
      <4>1. audits[b] \in Seq(AuditActions) /\ audits'[b] = Append(audits[b], "CANCELLED")
        BY <1>0, <3>1, <3>3 DEF AuditAction
      <4>2. /\ Len(audits[b]) + 1 \in DOMAIN audits'[b]
            /\ audits'[b][Len(audits[b]) + 1] = "CANCELLED"
        BY <4>1
      <4>3. outbox'[t].op = "DELETE" /\ outbox'[t].appt = b
        BY <3>1, <3>3 DEF Enqueued, OutboxOp
      <4> QED BY <3>1, <4>2, <4>3 DEF Heard, Deleting, EntriesOf
    <3>4. ~Active(row) => rows[b] # None /\ (~Active(rows[b]) \/ txns[t].op = "CANCEL")
      BY <2>2, <3>1 DEF Written
    <3> QED BY <3>1, <3>2, <3>3, <3>4
  <2> QED BY <1>0, <2>1, <2>2, StepWrites
<1>3. Remembers
  BY <1>1, <1>2 DEF Remembers
<1>4. CancelledIsHeardOf'
  BY <1>0, <1>2, <1>3, HeardOfRows DEF CInv
<1>5. \A d \in Dispatchers : NoNews(disp[d])'
  BY <1>0, <1>3, NoNewsStays DEF CInv
<1> QED BY <1>3, <1>4, <1>5, NoticedCancels DEF CInv

LEMMA DispatcherKeepsCInv ==
  ASSUME CInv, SyncInv', NEW d \in Dispatchers, Dispatch(d) \/ Crash(d), Noticed, Grows
  PROVE  CInv'
<1>0. /\ SyncInv /\ PInv /\ rows \in [Appts -> Row \cup {None}]
      /\ disp \in [Dispatchers -> Worker]
  BY SyncTypes DEF CInv
<1>1. PICK w, x \in Worker : Turn(d, w, x)
  BY <1>0, Turns DEF Turn
<1>2. /\ w = disp[d] /\ disp'[d] = x /\ \A c \in Dispatchers \ {d} : disp'[c] = disp[c]
      /\ Sound(w) /\ NoNews(w)
  BY <1>0, <1>1 DEF Turn, PInv, CInv
<1>3. Remembers
  BY <1>0, <1>1, TurnsKeepWhatEntriesSay DEF Remembers, Turn, Gone, Grows
<1>4. Holding(w) =>
        /\ w.entry \in Txns /\ outbox[w.entry] # None
        /\ outbox[w.entry].appt \in Appts /\ rows[outbox[w.entry].appt] # None
        /\ rows[outbox[w.entry].appt] \in Row
        /\ outbox'[w.entry].appt = outbox[w.entry].appt
  BY <1>0, <1>2, <1>3, HeldEntry DEF Remembers, EntriesStay
<1>5. NoNews(disp[d])'
  <2> SUFFICES ASSUME x.phase \in {"loaded", "returned", "reread"}, ~Active(x.copy)
               PROVE  \E a : a = outbox'[x.entry].appt /\ Heard(a)'
    BY <1>2 DEF NoNews, Heard, Deleting, Gone
  <2>1. x.entry = w.entry /\ Holding(w) /\ Heard(outbox[w.entry].appt)
    <3>1. CASE Loads(w, x)
      BY <1>4, <3>1 DEF Loads, Holding, CInv, CancelledIsHeardOf
    <3>2. CASE Returns(d, w, x)
      BY <1>2, <3>2 DEF Returns, Holding, NoNews
    <3>3. CASE Rereads(w, x)
      <4>1. w.copy \in Row
        BY <1>2, <3>3 DEF Rereads, Sound
      <4>2. x.copy.status = w.copy.status
        BY <3>3, <4>1 DEF Rereads, Row
      <4> QED BY <1>2, <3>3, <4>2 DEF Rereads, Holding, NoNews, Active
    <3> QED BY <1>1, <3>1, <3>2, <3>3 DEF Turn, Rests, Takes, Raises, Fails, Settles, Links, Idle
  <2>2. PICK a \in Appts : a = outbox[w.entry].appt /\ a = outbox'[w.entry].appt
    BY <1>4, <2>1
  <2>3. Heard(a)'
    BY <1>0, <1>3, <2>1, <2>2, HeardForGood
  <2> QED BY <2>1, <2>2, <2>3
<1>6. \A c \in Dispatchers : NoNews(disp[c])'
  BY <1>0, <1>2, <1>3, <1>5, NoNewsStays DEF CInv
<1>7. CancelledIsHeardOf'
  <2>1. ASSUME NEW a \in Appts, rows'[a] # None, ~Active(rows'[a])
        PROVE  (rows[a] # None /\ ~Active(rows[a])) \/ Heard(a)'
    <3>1. CASE Links(w, x)
      <4>1. PICK b \in Appts : b = outbox[w.entry].appt /\ rows[b] # None /\ rows[b] \in Row
        BY <1>4, <3>1 DEF Links, Holding
      <4>2. /\ w.copy \in Row /\ w.basis \in Row
            /\ rows' = [rows EXCEPT ![b] = Merged(w.copy, w.basis, rows[b])]
        BY <1>2, <3>1, <4>1 DEF Links, Sound
      <4>3. Merged(w.copy, w.basis, rows[b]).status \in {w.copy.status, rows[b].status}
        BY <4>1, <4>2 DEF Merged, Column, Row
      <4>4. ~Active(w.copy) => Heard(b)
        BY <1>2, <3>1, <4>1 DEF Links, NoNews
      <4>5. ~Active(w.copy) => Heard(b)'
        BY <1>0, <1>3, <4>4, HeardForGood
      <4> QED BY <1>0, <2>1, <4>1, <4>2, <4>3, <4>5 DEF Active
    <3>2. CASE UNCHANGED rows
      BY <2>1, <3>2
    <3> QED BY <1>1, <3>1, <3>2 DEF Turn, Rests, Takes, Loads, Raises, Returns, Fails, Settles, Rereads
  <2> QED BY <1>0, <1>3, <2>1, HeardOfRows DEF CInv
<1> QED BY <1>3, <1>6, <1>7, NoticedCancels DEF CInv

LEMMA EditKeepsCInv ==
  ASSUME CInv, SyncInv', NEW b \in Appts,
         (\E r \in EditRanges : MoveEvent(b, r)) \/ RemoveEvent(b) \/ DeclineEvent(b)
  PROVE  CInv'
<1>1. UNCHANGED <<rows, audits, outbox, disp>> /\ Noticed /\ Grows /\ SyncInv
  BY EditsGrow DEF CInv
<1>2. Remembers
  BY <1>1 DEF Remembers, EntriesStay, Gone, Grows
<1>3. CancelledIsHeardOf' /\ \A d \in Dispatchers : NoNews(disp[d])'
  BY <1>1, <1>2, HeardOfRows, NoNewsStays DEF CInv
<1> QED BY <1>1, <1>2, <1>3, NoticedCancels DEF CInv

(* Only the commit of a batch writes the tables.                           *)
LEMMA PollersLeaveTables ==
  ASSUME NEW p \in Pollers, Poller(p), ~CommitBatch(p)
  PROVE  UNCHANGED <<calls, rows, audits, outbox, txns, disp, events>>
BY DEF Poller, Sweep, AcquireLease, LoseLease, Die, Fetch, Ignore, CancelInbound, RescheduleInbound,
       RejectInbound, InboundReread, AbortBatch, StoreToken, vars, coreVars, projVars

(* What a poller decides to cancel is gone, or is owed a DELETE.           *)
LEMMA PollCancels ==
  ASSUME SyncInv, NEW p \in Pollers, NEW y \in Poll, NEW x \in Poll, Polls(p, y, x),
         NEW a \in Appts, Cancels(y, a)
  PROVE  Cancels(x, a)
<1>0. Batched(y) /\ clock \in Nat
  BY SyncTypes DEF Polls, SyncInv
<1>1. CASE x = y
  BY <1>1
<1>2. CASE Ends(x)
  BY <1>2 DEF Ends, Cancels
<1>3. CASE Fetches(x)
  <2>1. x.copies[a] = None
    BY <1>3 DEF Fetches
  <2>2. CASE a \in x.left
    <3>1. x.batch[a] = MapEvent(a) /\ events[a] # None
      BY <1>3, <2>2 DEF Fetches
    <3>2. x.batch[a].cancelled = ~events[a].live
      BY <3>1 DEF MapEvent
    <3> QED BY <2>1, <3>1, <3>2 DEF Cancels, Gone
  <2>3. CASE a \notin x.left
    BY <1>3, <2>1, <2>3 DEF Fetches, Cancels
  <2> QED BY <2>2, <2>3
<1>4. ASSUME NEW b \in Appts, Rechecks(y, x, b) PROVE Cancels(x, a)
  BY <1>4 DEF Rechecks, Cancels
<1>5. ASSUME NEW b \in Appts, NEW copy \in Row \cup {None}, NEW entry \in Entry \cup {None},
             Decides(y, x, b, copy, entry), Verdict(b, y.batch[b], copy, entry)
      PROVE  Cancels(x, a)
  <2>1. /\ x.batch = y.batch /\ x.copies[b] = copy /\ x.entries[b] = entry
        /\ a # b => x.copies[a] = y.copies[a] /\ x.entries[a] = y.entries[a]
    BY <1>5 DEF Decides, Poll
  <2>2. CASE a # b
    BY <2>1, <2>2 DEF Cancels
  <2>3. CASE a = b
    <3>1. PICK row \in Row : row = rows[a]
      BY <1>0, <1>5, <2>3, SyncTypes DEF Decides, Batched, SyncInv, EventsHaveRows
    <3>2. CASE copy = Rescheduled(row, y.batch[a], clock) /\ Applies(y.batch[a], row)
      <4>1. copy.status # "CANCELLED"
        BY <3>1, <3>2 DEF Rescheduled, Row
      <4> QED BY <2>1, <2>3, <3>1, <4>1 DEF Cancels, Active
    <3>3. CASE copy = None
      BY <2>1, <2>3, <3>3 DEF Cancels
    <3>4. CASE y.batch[a].cancelled \/ (entry \in Entry /\ entry.op = "DELETE")
      <4>1. y.batch[a] # None
        BY <1>0, <1>5, <2>3 DEF Decides, Batched
      <4> QED BY <2>1, <2>3, <3>4, <4>1, NoneAssumption DEF Cancels
    <3> QED BY <1>5, <2>3, <3>1, <3>2, <3>3, <3>4 DEF Verdict
  <2> QED BY <2>2, <2>3
<1> QED BY <1>1, <1>2, <1>3, <1>4, <1>5 DEF Polls

LEMMA PollKeepsCInv ==
  ASSUME CInv, SyncInv', NEW p \in Pollers, Poller(p), ~CommitBatch(p)
  PROVE  CInv'
<1>0. /\ SyncInv /\ poll \in [Pollers -> Poll]
      /\ UNCHANGED <<calls, rows, audits, outbox, txns, disp, events>>
  BY PollersLeaveTables, SyncTypes DEF CInv
<1>1. Remembers
  BY <1>0 DEF Remembers, EntriesStay, Gone
<1>2. CancelledIsHeardOf' /\ \A d \in Dispatchers : NoNews(disp[d])'
  BY <1>0, <1>1, HeardOfRows, NoNewsStays DEF CInv
<1>3. PICK x \in Poll : poll' = [poll EXCEPT ![p] = x] /\ \A a \in Appts : Cancels(x, a)
  <2>1. CASE StoreToken(p)
    <3>1. PICK x \in Poll : x = Resting("idle") /\ Ends(x)
      BY RestingEnds
    <3> QED BY <2>1, <3>1 DEF StoreToken, Ends, Cancels
  <2>2. CASE ~StoreToken(p)
    <3>1. PICK y, x \in Poll : Polls(p, y, x)
      BY <1>0, <2>2, PollSteps
    <3>2. \A a \in Appts : Cancels(y, a)
      BY <3>1 DEF CInv, Polls
    <3> QED BY <1>0, <3>1, <3>2, PollCancels DEF Polls
  <2> QED BY <2>1, <2>2
<1>4. ASSUME NEW q \in Pollers, NEW a \in Appts PROVE Cancels(poll[q], a)'
  <2>1. PICK z : z = poll'[q]
    OBVIOUS
  <2>2. Cancels(z, a)
    BY <1>0, <1>3, <2>1 DEF CInv
  <2>3. Cancels(z, a)'
    BY <1>1, <2>2, CancelsStays
  <2> QED BY <2>1, <2>3 DEF Cancels
<1> QED BY <1>2, <1>4 DEF CInv

LEMMA BatchKeepsCInv ==
  ASSUME CInv, SyncInv', NEW p \in Pollers, CommitBatch(p)
  PROVE  CInv'
<1>0. /\ SyncInv /\ poll \in [Pollers -> Poll] /\ rows \in [Appts -> Row \cup {None}]
      /\ UNCHANGED <<disp, events>> /\ Batched(poll[p])
      /\ audits \in [Appts -> Seq(AuditActions)]
  BY BatchTables, SyncTypes DEF CInv, SyncInv, PInv, LInv, IInv, TypeOK
<1>1. PICK y \in Poll : y = poll[p]
  BY <1>0
<1>2. \A a \in Appts :
        audits'[a] = IF y.copies[a] # None
                     THEN Append(audits[a], IF y.copies[a].status = "CANCELLED"
                                            THEN "CANCELLED" ELSE "RESCHEDULED")
                     ELSE audits[a]
  BY <1>1 DEF CommitBatch, Saved
<1>3. Remembers
  <2>1. EntriesStay
    BY <1>0, BatchEntries DEF EntriesStay
  <2> QED BY <1>0, <1>2, <2>1 DEF Remembers, Gone, AuditActions
<1>4. ASSUME NEW a \in Appts, rows'[a] # None, ~Active(rows'[a])
      PROVE  (rows[a] # None /\ ~Active(rows[a])) \/ Heard(a)'
  <2>1. rows'[a] = IF y.bases[a] = None THEN rows[a] ELSE Merged(y.copies[a], y.bases[a], rows[a])
    BY <1>1 DEF CommitBatch, View
  <2>2. CASE y.bases[a] = None
    BY <1>4, <2>1, <2>2
  <2>3. CASE y.bases[a] # None
    <3>1. PICK copy \in Row, row \in Row : copy = y.copies[a] /\ row = rows[a]
      BY <1>0, <1>1, <2>3 DEF Batched, Poll
    <3>2. y.copies[a] # None /\ rows[a] # None
      BY <1>0, <1>1, <2>3 DEF Batched
    <3>3. Merged(copy, y.bases[a], row).status \in {copy.status, row.status}
      BY DEF Merged, Column, Row
    <3>4. CASE ~Active(copy)
      <4>1. audits[a] \in Seq(AuditActions) /\ audits'[a] = Append(audits[a], "CANCELLED")
        BY <1>0, <1>2, <3>1, <3>2, <3>4 DEF Active
      <4>2. /\ Len(audits[a]) + 1 \in DOMAIN audits'[a]
            /\ audits'[a][Len(audits[a]) + 1] = "CANCELLED"
        BY <4>1
      <4>3. Gone(a) \/ (y.entries[a] # None /\ y.entries[a].op = "DELETE")
        BY <1>1, <3>1, <3>2, <3>4 DEF CInv, Cancels
      <4>4. Gone(a)' \/ Deleting(a)'
        BY <1>0, <1>1, <1>3, <4>3, BatchCarries DEF Remembers
      <4> QED BY <4>2, <4>4 DEF Heard
    <3>5. CASE Active(copy)
      BY <1>4, <2>1, <2>3, <3>1, <3>2, <3>3, <3>5 DEF Active
    <3> QED BY <3>4, <3>5
  <2> QED BY <2>2, <2>3
<1>5. CancelledIsHeardOf' /\ \A d \in Dispatchers : NoNews(disp[d])'
  BY <1>0, <1>3, <1>4, HeardOfRows, NoNewsStays DEF CInv
<1>6. ASSUME NEW q \in Pollers, NEW a \in Appts PROVE Cancels(poll[q], a)'
  <2>1. PICK z : z = poll'[q]
    OBVIOUS
  <2>2. Cancels(z, a)
    <3>1. CASE q = p
      BY <1>0, <2>1, <3>1 DEF CommitBatch, Resting, Nothing, Cancels
    <3>2. CASE q # p
      <4>1. z = poll[q]
        BY <1>0, <2>1, <3>2 DEF CommitBatch
      <4> QED BY <4>1 DEF CInv
    <3> QED BY <3>1, <3>2
  <2>3. Cancels(z, a)'
    BY <1>3, <2>2, CancelsStays
  <2> QED BY <2>1, <2>3 DEF Cancels
<1> QED BY <1>5, <1>6 DEF CInv

LEMMA CInitially == Init /\ SyncInit => CInv
<1> SUFFICES ASSUME Init, SyncInit PROVE CInv
  OBVIOUS
<1>1. SyncInv
  BY SyncInitially
<1>2. CancelledIsHeardOf /\ \A d \in Dispatchers : NoNews(disp[d])
  BY DEF Init, CoreInit, ProjInit, CancelledIsHeardOf, NoNews, Rest
<1>3. \A p \in Pollers, a \in Appts : Cancels(poll[p], a)
  BY DEF SyncInit, Cancels, Resting, Nothing
<1> QED BY <1>1, <1>2, <1>3 DEF CInv

LEMMA CInductive == CInv /\ [SyncNext]_allVars => CInv'
<1> SUFFICES ASSUME CInv, [SyncNext]_allVars PROVE CInv'
  OBVIOUS
<1>0. SyncInv /\ SyncInv' /\ PInv
  BY SyncInductive DEF CInv, SyncInv
<1>1. CASE Next /\ Noticed
  <2>1. CASE [CoreNext]_coreVars /\ UNCHANGED projVars
    BY <1>0, <1>1, <2>1, RequestKeepsCInv
  <2>2. ASSUME NEW d \in Dispatchers, Dispatch(d) \/ Crash(d) PROVE CInv'
    <3>1. Grows
      BY <1>0, <1>1, NextFacts
    <3> QED BY <1>0, <1>1, <2>2, <3>1, DispatcherKeepsCInv
  <2> QED BY <1>1, <2>1, <2>2 DEF Next
<1>2. ASSUME NEW a \in Appts,
             (\E r \in EditRanges : MoveEvent(a, r)) \/ RemoveEvent(a) \/ DeclineEvent(a)
      PROVE  CInv'
  BY <1>0, <1>2, EditKeepsCInv
<1>3. ASSUME NEW p \in Pollers, Poller(p) PROVE CInv'
  BY <1>0, <1>3, BatchKeepsCInv, PollKeepsCInv
<1>4. CASE UNCHANGED allVars
  <2>1. UNCHANGED <<rows, audits, outbox, disp, events, poll>>
    BY <1>4 DEF allVars, vars, coreVars, projVars, syncVars
  <2>2. Remembers
    BY <2>1 DEF Remembers, EntriesStay, Gone
  <2>3. CancelledIsHeardOf' /\ \A d \in Dispatchers : NoNews(disp[d])'
    BY <1>0, <2>1, <2>2, HeardOfRows, NoNewsStays DEF CInv
  <2>4. \A p \in Pollers, a \in Appts : Cancels(poll[p], a)'
    BY <2>1, <2>2 DEF CInv, Cancels, Remembers
  <2> QED BY <1>0, <2>3, <2>4 DEF CInv
<1> QED BY <1>1, <1>2, <1>3, <1>4 DEF SyncNext

(* A cancelled appointment has CANCELLED in its log, and a DELETE in the   *)
(* outbox or an event that is gone from the calendar, however requests,    *)
(* write-backs and batches of overlapping pollers merge into its row: no   *)
(* slot is given up behind the calendar's back.                            *)
THEOREM CancellationsAreHeardOf == SyncSpec => []CancelledIsHeardOf
<1>1. Init /\ SyncInit => CInv
  BY CInitially
<1>2. CInv /\ [SyncNext]_allVars => CInv'
  BY CInductive
<1>3. CInv => CancelledIsHeardOf
  BY DEF CInv
<1> QED BY <1>1, <1>2, <1>3, PTL DEF SyncSpec

----------------------------------------------------------------------------
(* Service calls.                                                          *)

(* No write-back and no batch makes an appointment, or gives it to another *)
(* service call.                                                           *)
LEMMA OthersKeepBookings ==
  ASSUME SyncInv, ScheduledIffBooked, UNCHANGED calls,
         \A a \in Appts : \/ rows'[a] = rows[a]
                          \/ rows[a] # None /\ rows'[a] # None /\ rows'[a].call = rows[a].call
  PROVE  ScheduledIffBooked'
BY DEF ScheduledIffBooked

(* A service call is SCHEDULED exactly when an appointment was booked for  *)
(* it, with dispatchers writing appointments back and pollers committing   *)
(* batches of them as well.                                                *)
THEOREM CallsFollowBookingsUnderPollers == SyncSpec => []ScheduledIffBooked
<1>1. Init /\ SyncInit => ScheduledIffBooked
  BY NoneAssumption DEF Init, CoreInit, ScheduledIffBooked
<1>2. ASSUME SyncInv, ScheduledIffBooked, [SyncNext]_allVars PROVE ScheduledIffBooked'
  <2>0. PInv /\ LInv /\ rows \in [Appts -> Row \cup {None}] /\ poll \in [Pollers -> Poll]
    BY <1>2, SyncTypes
  <2>1. CASE [CoreNext]_coreVars
    BY <1>2, <2>0, <2>1, BookedStep
  <2>2. ASSUME NEW d \in Dispatchers, Dispatch(d) \/ Crash(d) PROVE ScheduledIffBooked'
    <3>1. PICK w, x \in Worker : Turn(d, w, x)
      BY <2>0, <2>2, Turns DEF Turn
    <3>2. CASE Links(w, x)
      <4>1. w = disp[d] /\ w.phase = "reread" /\ Sound(w) /\ UNCHANGED calls
        BY <2>0, <3>1, <3>2 DEF Turn, Links, PInv
      <4>2. PICK a \in Appts : a = outbox[w.entry].appt /\ rows[a] # None /\ rows[a] \in Row
        BY <2>0, <4>1, HeldEntry DEF Holding
      <4>3. rows' = [rows EXCEPT ![a] = Merged(w.copy, w.basis, rows[a])]
        BY <3>2, <4>2 DEF Links
      <4>4. w.copy \in Row /\ w.basis \in Row
        BY <4>1 DEF Sound
      <4>5. /\ Merged(w.copy, w.basis, rows[a]) \in Row
            /\ Merged(w.copy, w.basis, rows[a]).call = rows[a].call
        BY <4>2, <4>4, MergedIsRow DEF Merged, Row
      <4> QED BY <1>2, <2>0, <4>1, <4>2, <4>3, <4>5, NoneAssumption, OthersKeepBookings
    <3>3. CASE UNCHANGED rows
      BY <1>2, <3>1, <3>3, OthersKeepBookings DEF Turn
    <3> QED BY <3>1, <3>2, <3>3 DEF Turn, Rests, Takes, Loads, Raises, Returns, Fails, Settles, Rereads
  <2>3. ASSUME NEW a \in Appts,
               (\E r \in EditRanges : MoveEvent(a, r)) \/ RemoveEvent(a) \/ DeclineEvent(a)
        PROVE  ScheduledIffBooked'
    BY <1>2, <2>3, EditsGrow, OthersKeepBookings
  <2>4. ASSUME NEW p \in Pollers, Poller(p), ~CommitBatch(p) PROVE ScheduledIffBooked'
    BY <1>2, <2>4, PollersLeaveTables, OthersKeepBookings
  <2>5. ASSUME NEW p \in Pollers, CommitBatch(p) PROVE ScheduledIffBooked'
    <3>1. UNCHANGED calls /\ Batched(poll[p])
      BY <1>2, <2>5 DEF CommitBatch, SyncInv
    <3>2. ASSUME NEW a \in Appts, rows'[a] # rows[a]
          PROVE  rows[a] # None /\ rows'[a] # None /\ rows'[a].call = rows[a].call
      <4>1. PICK y \in Poll : y = poll[p]
        BY <2>0
      <4>2. y.bases[a] # None /\ rows'[a] = Merged(y.copies[a], y.bases[a], rows[a])
        BY <2>5, <3>2, <4>1 DEF CommitBatch, View
      <4>3. rows[a] # None /\ rows[a] \in Row /\ rows'[a] # None
        BY <1>2, <2>0, <2>5, <3>1, <4>1, <4>2, BatchTables DEF Batched
      <4>4. y.copies[a] \in Row /\ y.bases[a] \in Row
        BY <3>1, <4>1, <4>2 DEF Batched, Poll
      <4>5. Merged(y.copies[a], y.bases[a], rows[a]).call = rows[a].call
        BY <4>3 DEF Merged, Row
      <4> QED BY <4>2, <4>3, <4>5
    <3> QED BY <1>2, <3>1, <3>2, OthersKeepBookings
  <2>6. CASE UNCHANGED allVars
    <3>1. UNCHANGED <<calls, rows>>
      BY <2>6 DEF allVars, vars, coreVars
    <3> QED BY <1>2, <3>1, OthersKeepBookings
  <2> QED BY <1>2, <2>1, <2>2, <2>3, <2>4, <2>5, <2>6 DEF SyncNext, Next
<1> QED BY <1>1, <1>2, SyncInvariance, PTL DEF SyncSpec

----------------------------------------------------------------------------
(* The audit log.                                                          *)

(* The write-back of a CREATE of a is committed by this step.              *)
WrittenBack(a) ==
  \E t \in EntriesOf(a) : /\ outbox[t].op = "CREATE"
                          /\ Pending(t)
                          /\ outbox'[t].status = "PROCESSED"

AuditedOrWrittenBack ==
  \A a \in Appts :
    \/ rows'[a] = rows[a] /\ audits'[a] = audits[a]
    \/ \E act \in AuditActions : audits'[a] = Append(audits[a], act)
    \/ WrittenBack(a) /\ audits'[a] = audits[a]

(* With dispatchers and pollers the log stays append-only, by one row for  *)
(* an appointment in a step, and complete but for the one change nobody    *)
(* audits: the write-back of a CREATE, when its entry is settled.          *)
THEOREM OnlyWriteBacksAreUnaudited == SyncSpec => [][AuditedOrWrittenBack]_allVars
<1>1. ASSUME SyncInv, [SyncNext]_allVars PROVE [AuditedOrWrittenBack]_allVars
  <2>0. /\ PInv /\ LInv /\ rows \in [Appts -> Row \cup {None}]
        /\ outbox \in [Txns -> Entry \cup {None}] /\ audits \in [Appts -> Seq(AuditActions)]
    BY <1>1, SyncTypes DEF LInv, IInv, TypeOK
  <2>1. CASE [CoreNext]_coreVars
    BY <2>0, <2>1, AuditStep DEF AuditedWithChange, AuditedOrWrittenBack, coreVars
  <2>2. ASSUME NEW d \in Dispatchers, Dispatch(d) \/ Crash(d) PROVE AuditedOrWrittenBack
    <3>1. PICK w, x \in Worker : Turn(d, w, x)
      BY <2>0, <2>2, Turns DEF Turn
    <3>2. CASE Links(w, x)
      <4>1. w = disp[d] /\ w.phase = "reread" /\ Sound(w) /\ UNCHANGED audits
        BY <2>0, <3>1, <3>2 DEF Turn, Links, PInv
      <4>2. PICK e \in Txns : /\ e = w.entry /\ outbox[e] # None /\ outbox[e] \in Entry
                              /\ Pending(e) /\ outbox[e].appt \in Appts
        BY <2>0, <4>1, HeldEntry DEF Holding, Sound
      <4>3. outbox[e].op = "CREATE"
        BY <4>1, <4>2 DEF Sound
      <4>4. outbox'[e] = Processed(outbox[e]) /\ Processed(outbox[e]).status = "PROCESSED"
        BY <2>0, <3>2, <4>2 DEF Links, Processed, Entry
      <4>5. \A a \in Appts \ {outbox[e].appt} : rows'[a] = rows[a]
        BY <2>0, <3>2, <4>2 DEF Links
      <4> QED BY <4>1, <4>2, <4>3, <4>4, <4>5 DEF AuditedOrWrittenBack, WrittenBack, EntriesOf
    <3>3. CASE UNCHANGED rows
      BY <3>1, <3>3 DEF Turn, AuditedOrWrittenBack
    <3> QED BY <3>1, <3>2, <3>3 DEF Turn, Rests, Takes, Loads, Raises, Returns, Fails, Settles, Rereads
  <2>3. ASSUME NEW a \in Appts,
               (\E r \in EditRanges : MoveEvent(a, r)) \/ RemoveEvent(a) \/ DeclineEvent(a)
        PROVE  AuditedOrWrittenBack
    BY <1>1, <2>3, EditsGrow DEF AuditedOrWrittenBack
  <2>4. ASSUME NEW p \in Pollers, Poller(p), ~CommitBatch(p) PROVE AuditedOrWrittenBack
    BY <2>4, PollersLeaveTables DEF AuditedOrWrittenBack
  <2>5. ASSUME NEW p \in Pollers, CommitBatch(p) PROVE AuditedOrWrittenBack
    <3> SUFFICES ASSUME NEW a \in Appts
                 PROVE  \/ rows'[a] = rows[a] /\ audits'[a] = audits[a]
                        \/ \E act \in AuditActions : audits'[a] = Append(audits[a], act)
      BY DEF AuditedOrWrittenBack
    <3>1. CASE poll[p].copies[a] = None
      <4>1. rows'[a] = rows[a]
        BY <1>1, <2>5, <3>1, ViewedRow DEF CommitBatch
      <4>2. audits'[a] = audits[a]
        BY <2>5, <3>1 DEF CommitBatch, Saved
      <4> QED BY <4>1, <4>2
    <3>2. CASE poll[p].copies[a] # None
      BY <2>5, <3>2 DEF CommitBatch, Saved, AuditActions
    <3> QED BY <3>1, <3>2
  <2> QED BY <1>1, <2>1, <2>2, <2>3, <2>4, <2>5 DEF SyncNext, Next
<1> QED BY <1>1, SyncInvariance, PTL DEF SyncSpec

=============================================================================
