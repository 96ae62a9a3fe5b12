-------------------------- MODULE ConnectionProofs --------------------------
(***************************************************************************)
(* Proofs about a technician's Google connection, for any consents,        *)
(* calendars, appointments and attempts.  The inductive invariant ConnIInv *)
(* says what the connect callback may rely on while it talks to Google:    *)
(* the calendar it provisions is its own and follows one that was deleted  *)
(* (Provisions), unless it races the row has not moved since it was read   *)
(* (Steady), so what exists at Google is the row's or about to be (Owned), *)
(* and an appointment nobody lost is on the calendar, in the outbox, or    *)
(* among those the callback will queue with its row (Projected).           *)
(***************************************************************************)
EXTENDS Connection, TLAPS

----------------------------------------------------------------------------
(* The inductive invariant.                                                *)

Polls == [phase : {"idle", "listed", "read", "fetched"}, cal : Cals \cup {None},
          grant : Consents \cup {None}]

(* What the properties do not mention has its type too.                    *)
WorkersTypeOK ==
  /\ call \in Calls \cup {None}
  /\ call # None => call.entry \in pending
  /\ poll \in Polls
  /\ poll.phase = "listed" => conn # None

(* A row that somebody has read is there for good, and every calendar that *)
(* a row has named was provisioned.                                        *)
RowsStand ==
  /\ live \cap dead = {}
  /\ conn # None => conn.cal \in live \cup dead
  /\ conn = None => call = None \/ call.row = None
  /\ \A m \in Markers : marks[m] # None => conn # None /\ marks[m].cal \in live \cup dead

(* The callback q: what it provisions is a calendar of its own, made since *)
(* the one it read was deleted; with the row written, the row of a first   *)
(* connection is still missing.                                            *)
Provisions(q) ==
  LET r == consents[q] IN
  /\ r.previous # None => r.previous \in live \cup dead
  /\ r.row # None => conn # None
  /\ r.phase \in {"wants", "written"} =>
       /\ r.row = None => r.fresh # None
       /\ r.fresh # None =>
            /\ r.fresh \in live \cup dead
            /\ r.fresh # r.previous
            /\ r.row # None => r.row.cal \in dead
  /\ r.phase \notin {"wants", "written"} => r.fresh = None /\ r.row = None
  /\ r.phase = "written" => (r.row = None => conn = None)
  /\ r.phase = "written" => \A u \in Consents : consents[u].phase = "written" => u = q

(* Unless it races, the calendar of the row is the one a callback found.   *)
Steady(q) ==
  LET r == consents[q] IN
  ~raced =>
    /\ r.phase \in {"read", "wants", "written"} => r.previous = CalOf(conn)
    /\ r.phase \in {"wants", "written"} => CalOf(r.row) = CalOf(conn)

(* What exists at Google is the row's calendar or about to be.             *)
Owned == ~raced => \A cal \in live : cal = CalOf(conn) \/ \E q \in Consents : consents[q].fresh = cal

Queued(a) == \E e \in pending : e.appt = a

Claimed == booked \ (failed \cup missed)

(* An appointment is on the calendar or on its way to it, also while the   *)
(* calendar is being replaced.                                             *)
Projected ==
  \A a \in Claimed :
    /\ conn = None => Queued(a)
    /\ conn # None /\ conn.cal \in live => Queued(a) \/ <<conn.cal, a>> \in events
    /\ \A q \in Consents :
         /\ consents[q].phase = "written"
         /\ consents[q].fresh # None
         /\ ~Stale(q)
         => Queued(a) \/ a \in consents[q].listed

ConnIInv ==
  /\ ConnTypeOK
  /\ WorkersTypeOK
  /\ RowsStand
  /\ \A q \in Consents : Provisions(q) /\ Steady(q)
  /\ Owned
  /\ Projected

----------------------------------------------------------------------------
(* Lemmas.                                                                 *)

LEMMA NotNone ==
  /\ None \notin Consents /\ None \notin Cals /\ None \notin ConnRow /\ None \notin Calls
  /\ MaxAttempts \in Nat \ {0}
BY ConnAssumption

(* A consent that is over holds nothing.                                   *)
LEMMA FreshIsState ==
  /\ Fresh \in CallbackState
  /\ Fresh.row = None /\ Fresh.fresh = None /\ Fresh.previous = None /\ Fresh.listed = {}
BY DEF Fresh, CallbackState

(* A step of the callback q before its commit, or its end.                 *)
LEMMA ConsentMoves ==
  ASSUME ConnIInv, NEW q \in Consents, NEW r \in CallbackState,
         consents' = [consents EXCEPT ![q] = r],
         UNCHANGED <<conn, booked, failed, missed, dead, events, workers>>,
         live \subseteq live', live' \subseteq Cals, live' \cap dead = {},
         conn # None /\ conn.cal \in live' => conn.cal \in live,
         synced' \in Cals \cup {None}, valid' \subseteq Consents,
         asked' \in Consents \cup {None},
         raced' \in BOOLEAN, raced => raced',
         Provisions(q)', Steady(q)',
         ~raced' => \A cal \in live' : cal = r.fresh \/ (cal \in live /\ cal # consents[q].fresh),
         \A a \in Claimed :
           r.phase = "written" /\ r.fresh # None /\ ~Stale(q)' => Queued(a) \/ a \in r.listed,
         r.phase = "written" => \A u \in Consents \ {q} : consents[u].phase # "written"
  PROVE  ConnIInv'
<1>1. /\ consents'[q] = r
      /\ consents' \in [Consents -> CallbackState]
      /\ \A u \in Consents \ {q} : consents'[u] = consents[u]
  BY DEF ConnIInv, ConnTypeOK
<1>2. UNCHANGED <<conn, booked, failed, missed, dead, events, call, poll, marks, pending>>
  BY DEF workers
<1>3. ConnTypeOK'
  BY <1>1, <1>2 DEF ConnIInv, ConnTypeOK
<1>4. WorkersTypeOK'
  BY <1>2 DEF ConnIInv, WorkersTypeOK
<1>5. RowsStand'
  BY <1>2 DEF ConnIInv, RowsStand
<1>6. ASSUME NEW u \in Consents, u # q PROVE Provisions(u)' /\ Steady(u)'
  <2>1. Provisions(u) /\ Steady(u) /\ consents'[u] = consents[u]
    BY <1>1, <1>6 DEF ConnIInv
  <2>2. Provisions(u)'
    <3>1. consents'[u].phase = "written" =>
            \A w \in Consents : consents'[w].phase = "written" => w = u
      BY <1>1, <1>6, <2>1 DEF Provisions
    <3> QED BY <1>2, <2>1, <3>1 DEF Provisions
  <2>3. Steady(u)'
    BY <1>2, <2>1 DEF Steady, CalOf
  <2> QED BY <2>2, <2>3
<1>7. Owned'
  <2> SUFFICES ASSUME ~raced', NEW cal \in live'
               PROVE  cal = CalOf(conn) \/ \E u \in Consents : consents'[u].fresh = cal
    BY <1>2 DEF Owned, CalOf
  <2>1. cal = r.fresh \/ (cal \in live /\ cal # consents[q].fresh)
    OBVIOUS
  <2>2. CASE cal = r.fresh
    BY <1>1, <2>2
  <2>3. CASE cal \in live /\ cal # consents[q].fresh
    <3>1. cal = CalOf(conn) \/ \E u \in Consents : consents[u].fresh = cal
      BY <2>3 DEF ConnIInv, Owned
    <3> QED BY <1>1, <2>3, <3>1
  <2> QED BY <2>1, <2>2, <2>3
<1>8. Projected'
  <2> SUFFICES ASSUME NEW a \in Claimed
               PROVE  /\ conn = None => Queued(a)
                      /\ conn # None /\ conn.cal \in live' => Queued(a) \/ <<conn.cal, a>> \in events
                      /\ \A u \in Consents :
                           /\ consents'[u].phase = "written"
                           /\ consents'[u].fresh # None
                           /\ ~Stale(u)'
                           => Queued(a) \/ a \in consents'[u].listed
    BY <1>2 DEF Projected, Claimed, Queued
  <2>1. /\ conn = None => Queued(a)
        /\ conn # None /\ conn.cal \in live => Queued(a) \/ <<conn.cal, a>> \in events
        /\ \A u \in Consents :
             /\ consents[u].phase = "written"
             /\ consents[u].fresh # None
             /\ ~Stale(u)
             => Queued(a) \/ a \in consents[u].listed
    BY DEF ConnIInv, Projected
  <2>2. ASSUME NEW u \in Consents, u # q PROVE consents'[u] = consents[u] /\ (Stale(u)' <=> Stale(u))
    BY <1>1, <1>2, <2>2 DEF Stale, CalOf
  <2> QED BY <1>1, <2>1, <2>2
<1> QED
  <2>1. \A u \in Consents : Provisions(u)' /\ Steady(u)'
    BY <1>6
  <2> QED BY <1>3, <1>4, <1>5, <1>7, <1>8, <2>1 DEF ConnIInv

(* The steps of the callback before its row is written.                    *)
LEMMA CallbackBegins ==
  ASSUME ConnIInv, NEW q \in Consents,
         Login(q) \/ Exchange(q) \/ Reject(q) \/ Mismatch(q) \/ ReadPrevious(q)
  PROVE  ConnIInv'
<1>1. /\ consents \in [Consents -> CallbackState] /\ consents[q] \in CallbackState
      /\ live \subseteq Cals /\ valid \subseteq Consents /\ raced \in BOOLEAN
      /\ asked \in Consents \cup {None} /\ synced \in Cals \cup {None}
      /\ conn \in ConnRow \cup {None} /\ live \cap dead = {}
      /\ Provisions(q) /\ Steady(q)
      /\ conn # None => conn.cal \in live \cup dead /\ conn.cal \in Cals
  BY DEF ConnIInv, ConnTypeOK, RowsStand, ConnRow
<1>2. consents[q].phase \notin {"wants", "written"}
  BY DEF Login, Exchange, Reject, Mismatch, ReadPrevious
<1>3. consents[q].fresh = None /\ consents[q].row = None
  BY <1>1, <1>2 DEF Provisions
<1>4. UNCHANGED <<conn, synced, booked, failed, missed, raced, live, dead, events, workers>>
  BY DEF Login, Exchange, Reject, Mismatch, ReadPrevious, google
<1>5. valid' \subseteq Consents /\ asked' \in Consents \cup {None}
  BY <1>1 DEF Login, Exchange, Reject, Mismatch, ReadPrevious, google
<1>6. \A cal \in live : cal # None
  BY <1>1, NotNone
<1>7. CASE Login(q) \/ Exchange(q)
  <2>1. PICK phase \in {"asked", "back"} : consents' = [consents EXCEPT ![q].phase = phase]
    BY <1>7 DEF Login, Exchange
  <2> DEFINE r == [consents[q] EXCEPT !.phase = phase]
  <2>2. /\ r \in CallbackState /\ r.phase = phase /\ r.previous = consents[q].previous
        /\ r.row = consents[q].row /\ r.fresh = consents[q].fresh
    BY <1>1 DEF CallbackState
  <2>3. consents' = [consents EXCEPT ![q] = r]
    BY <2>1
  <2> HIDE DEF r
  <2>4. consents'[q] = r
    BY <1>1, <2>3
  <2>5. Provisions(q)' /\ Steady(q)'
    BY <1>1, <1>3, <1>4, <2>2, <2>4 DEF Provisions, Steady
  <2> QED BY <1>1, <1>3, <1>4, <1>5, <1>6, <2>2, <2>3, <2>5, ConsentMoves
<1>8. CASE Reject(q) \/ Mismatch(q)
  <2> DEFINE r == [Fresh EXCEPT !.phase = "done"]
  <2>1. /\ consents' = [consents EXCEPT ![q] = r]
        /\ r \in CallbackState /\ r.phase = "done" /\ r.previous = None
        /\ r.row = None /\ r.fresh = None
    BY <1>8 DEF Reject, Mismatch, Fresh, CallbackState
  <2> HIDE DEF r
  <2>2. consents'[q] = r
    BY <1>1, <2>1
  <2>3. Provisions(q)' /\ Steady(q)'
    BY <2>1, <2>2 DEF Provisions, Steady
  <2> QED BY <1>1, <1>3, <1>4, <1>5, <1>6, <2>1, <2>3, ConsentMoves
<1>9. CASE ReadPrevious(q)
  <2> DEFINE cal == CalOf(conn)
             r == [consents[q] EXCEPT !.phase = "read", !.previous = cal]
  <2>1. cal \in Cals \cup {None} /\ (cal # None => cal \in live \cup dead)
    BY <1>1 DEF CalOf
  <2>2. consents' = [consents EXCEPT ![q] = r]
    BY <1>9 DEF ReadPrevious
  <2>3. cal' = cal
    BY <1>4 DEF CalOf
  <2> HIDE DEF cal
  <2>4. /\ r \in CallbackState /\ r.phase = "read" /\ r.previous = cal
        /\ r.row = consents[q].row /\ r.fresh = consents[q].fresh
    BY <1>1, <2>1 DEF CallbackState
  <2> HIDE DEF r
  <2>5. consents'[q] = r
    BY <1>1, <2>2
  <2>6. Provisions(q)'
    BY <1>3, <1>4, <2>1, <2>4, <2>5 DEF Provisions
  <2>7. Steady(q)'
    BY <2>3, <2>4, <2>5 DEF Steady, cal
  <2> QED BY <1>1, <1>3, <1>4, <1>5, <1>6, <2>2, <2>4, <2>6, <2>7, ConsentMoves
<1> QED BY <1>7, <1>8, <1>9

(* The calendar is created or found, and the row written.                  *)
LEMMA CallbackWrites ==
  ASSUME ConnIInv, NEW q \in Consents,
         (\E cal \in Cals : Provision(q, cal)) \/ Reuse(q) \/ Write(q) \/ Fail(q)
  PROVE  ConnIInv'
<1>1. /\ consents \in [Consents -> CallbackState] /\ consents[q] \in CallbackState
      /\ live \subseteq Cals /\ dead \subseteq Cals /\ valid \subseteq Consents /\ raced \in BOOLEAN
      /\ asked \in Consents \cup {None} /\ synced \in Cals \cup {None}
      /\ conn \in ConnRow \cup {None} /\ live \cap dead = {}
      /\ Provisions(q) /\ Steady(q) /\ booked \subseteq Appts
      /\ conn # None => conn.cal \in live \cup dead /\ conn.cal \in Cals
  BY DEF ConnIInv, ConnTypeOK, RowsStand, ConnRow
<1>2. UNCHANGED <<conn, synced, booked, failed, missed, dead, valid, events, asked, workers>>
  BY DEF Provision, Reuse, Write, Fail, google
<1>3. \A cal \in Cals : cal # None
  BY NotNone
<1>4. CASE \E cal \in Cals : Provision(q, cal)
  <2>1. PICK cal \in Cals : Provision(q, cal)
    BY <1>4
  <2> DEFINE r == [consents[q] EXCEPT !.phase = "wants", !.row = conn, !.fresh = cal]
  <2>2. /\ consents' = [consents EXCEPT ![q] = r]
        /\ consents[q].phase = "read" /\ NeedsCalendar(conn)
        /\ cal \notin live \cup dead /\ live' = live \cup {cal} /\ raced' = raced
    BY <2>1 DEF Provision
  <2>3. /\ r \in CallbackState /\ r.phase = "wants" /\ r.row = conn /\ r.fresh = cal
        /\ r.previous = consents[q].previous
    BY <1>1 DEF CallbackState
  <2> HIDE DEF r
  <2>4. consents'[q] = r
    BY <1>1, <2>2
  <2>5. consents[q].fresh = None
    BY <1>1, <2>2 DEF Provisions
  <2>6. Provisions(q)'
    <3>1. conn # None => conn.cal \in dead
      BY <1>1, <2>2 DEF NeedsCalendar, CalendarExists
    <3>2. cal # consents[q].previous
      BY <1>1, <1>3, <2>2 DEF Provisions
    <3> QED BY <1>1, <1>2, <1>3, <2>2, <2>3, <2>4, <3>1, <3>2 DEF Provisions
  <2>7. Steady(q)'
    BY <1>1, <1>2, <2>2, <2>3, <2>4 DEF Steady, CalOf
  <2> QED BY <1>1, <1>2, <1>3, <2>2, <2>3, <2>5, <2>6, <2>7, ConsentMoves
<1>5. CASE Reuse(q)
  <2> DEFINE r == [consents[q] EXCEPT !.phase = "wants", !.row = conn]
  <2>1. /\ consents' = [consents EXCEPT ![q] = r]
        /\ consents[q].phase = "read" /\ conn # None /\ live' = live /\ raced' = raced
    BY <1>5 DEF Reuse, NeedsCalendar, google
  <2>2. /\ r \in CallbackState /\ r.phase = "wants" /\ r.row = conn
        /\ r.fresh = consents[q].fresh /\ r.previous = consents[q].previous
    BY <1>1 DEF CallbackState
  <2> HIDE DEF r
  <2>3. consents'[q] = r
    BY <1>1, <2>1
  <2>4. consents[q].fresh = None
    BY <1>1, <2>1 DEF Provisions
  <2>5. Provisions(q)'
    BY <1>1, <1>2, <2>1, <2>2, <2>3, <2>4 DEF Provisions
  <2>6. Steady(q)'
    BY <1>1, <1>2, <2>1, <2>2, <2>3 DEF Steady, CalOf
  <2> QED BY <1>1, <1>2, <1>3, <2>1, <2>2, <2>4, <2>5, <2>6, ConsentMoves
<1>6. CASE Write(q)
  <2> DEFINE listed == Reprojected(q, consents[q].previous, Returned(q))
             r == [consents[q] EXCEPT !.phase = "written", !.listed = listed]
  <2>1. /\ consents' = [consents EXCEPT ![q] = r]
        /\ consents[q].phase = "wants" /\ Holder = {}
        /\ consents[q].row = None => conn = None
        /\ live' = live /\ raced' = raced
    BY <1>6 DEF Write, google
  <2>2. listed \subseteq Appts
    BY <1>1 DEF Reprojected
  <2>3. ASSUME consents[q].fresh # None, consents[q].previous # None
        PROVE  booked \subseteq listed
    BY <1>1, <2>1, <2>3 DEF Reprojected, Returned, Provisions
  <2> HIDE DEF listed
  <2>4. /\ r \in CallbackState /\ r.phase = "written" /\ r.listed = listed
        /\ r.row = consents[q].row /\ r.fresh = consents[q].fresh
        /\ r.previous = consents[q].previous
    BY <1>1, <2>2 DEF CallbackState
  <2> HIDE DEF r
  <2>5. consents'[q] = r /\ \A u \in Consents \ {q} : consents'[u] = consents[u]
    BY <1>1, <2>1
  <2>6. \A u \in Consents : consents[u].phase # "written"
    BY <2>1 DEF Holder
  <2>7. Provisions(q)'
    BY <1>1, <1>2, <2>1, <2>4, <2>5, <2>6 DEF Provisions
  <2>8. Steady(q)'
    BY <1>1, <1>2, <2>1, <2>4, <2>5 DEF Steady, CalOf
  <2>9. \A cal \in live' : cal = r.fresh \/ (cal \in live /\ cal # consents[q].fresh)
    BY <2>1, <2>4
  <2>10. ASSUME NEW a \in Claimed, r.fresh # None, ~Stale(q)'
         PROVE  Queued(a) \/ a \in r.listed
    <3>1. CASE consents[q].previous = None
      <4>1. {consents[q].previous, CalOf(consents[q].row)} = {CalOf(conn)}
        BY <1>2, <2>4, <2>5, <2>10 DEF Stale, CalOf
      <4>2. conn = None
        BY <1>1, <1>3, <3>1, <4>1 DEF CalOf
      <4> QED BY <4>2 DEF ConnIInv, Projected
    <3>2. CASE consents[q].previous # None
      BY <2>3, <2>4, <2>10, <3>2 DEF Claimed
    <3> QED BY <3>1, <3>2
  <2> QED BY <1>1, <1>2, <2>1, <2>4, <2>6, <2>7, <2>8, <2>9, <2>10, ConsentMoves
<1>7. CASE Fail(q)
  <2> DEFINE r == [Fresh EXCEPT !.phase = "done"]
  <2>1. /\ consents' = [consents EXCEPT ![q] = r]
        /\ r \in CallbackState /\ r.phase = "done" /\ r.previous = None
        /\ r.row = None /\ r.fresh = None
        /\ raced' = (raced \/ consents[q].fresh # None) /\ live' = live
    BY <1>7 DEF Fail, Fresh, CallbackState, google
  <2> HIDE DEF r
  <2>2. consents'[q] = r
    BY <1>1, <2>1
  <2>3. Provisions(q)' /\ Steady(q)'
    BY <2>1, <2>2 DEF Provisions, Steady
  <2>4. ~raced' => \A cal \in live' : cal \in live /\ cal # consents[q].fresh
    BY <1>1, <1>3, <2>1
  <2> QED BY <1>1, <1>2, <1>3, <2>1, <2>3, <2>4, ConsentMoves
<1> QED BY <1>4, <1>5, <1>6, <1>7

(* The row's commit.                                                       *)
LEMMA CallbackCommits ==
  ASSUME ConnIInv, NEW q \in Consents, Commit(q)
  PROVE  ConnIInv'
<1> DEFINE done == [Fresh EXCEPT !.phase = "done"]
<1>1. /\ consents \in [Consents -> CallbackState] /\ consents[q] \in CallbackState
      /\ live \subseteq Cals /\ dead \subseteq Cals /\ raced \in BOOLEAN
      /\ conn \in ConnRow \cup {None} /\ live \cap dead = {}
      /\ Provisions(q) /\ Steady(q)
      /\ conn # None => conn.cal \in live \cup dead /\ conn.cal \in Cals
  BY DEF ConnIInv, ConnTypeOK, RowsStand, ConnRow
<1>2. PICK r \in CallbackState : r = consents[q]
  BY <1>1
<1>3. /\ r.phase = "written"
      /\ synced' = IF r.fresh # None THEN None ELSE synced
      /\ pending' = pending \cup Requeued(q)
      /\ missed' = IF Stale(q) THEN missed \cup booked ELSE missed \ r.listed
      /\ failed' = failed \ r.listed
      /\ raced' = (raced \/ Racing(q))
      /\ asked' = None
      /\ consents' = [consents EXCEPT ![q] = done]
      /\ UNCHANGED <<booked, live, dead, valid, events, call, poll, marks>>
  BY <1>2 DEF Commit, google
<1>4. /\ done \in CallbackState /\ done.phase = "done" /\ done.previous = None
      /\ done.row = None /\ done.fresh = None
  BY DEF Fresh, CallbackState
<1> HIDE DEF done
<1>5. /\ consents'[q] = done
      /\ consents' \in [Consents -> CallbackState]
      /\ \A u \in Consents \ {q} : consents'[u] = consents[u]
      /\ \A u \in Consents \ {q} : consents[u].phase # "written"
  BY <1>1, <1>2, <1>3, <1>4 DEF Provisions
(* The row.                                                                *)
<1>6. /\ r.row = None => conn = None /\ r.fresh # None
      /\ r.row # None => conn # None
      /\ r.fresh # None => r.fresh \in live \cup dead /\ r.fresh \in Cals
      /\ r.fresh # None /\ r.row # None => r.row.cal \in dead
  BY <1>1, <1>2, <1>3 DEF Provisions
<1>7. /\ conn' \in ConnRow
      /\ r.fresh # None => conn'.cal = r.fresh
      /\ r.fresh = None => conn # None /\ conn'.cal = conn.cal
  <2>1. CASE r.row = None
    BY <1>2, <1>6, <2>1 DEF Commit, Added, ConnRow
  <2>2. CASE r.row # None /\ r.fresh # None
    <3>1. conn' = Reprovisioned(conn, q)
      BY <1>2, <2>2 DEF Commit
    <3> QED BY <1>1, <1>2, <1>6, <2>2, <3>1 DEF Reprovisioned, Reconnected, ConnRow
  <2>3. CASE r.row # None /\ r.fresh = None
    <3>1. conn' = Reconnected(conn, q)
      BY <1>2, <2>3 DEF Commit
    <3> QED BY <1>1, <1>2, <1>6, <2>3, <3>1 DEF Reconnected, ConnRow
  <2> QED BY <2>1, <2>2, <2>3
<1>8. conn' # None /\ CalOf(conn') = conn'.cal /\ CalOf(conn)' = conn'.cal
  BY <1>7, NotNone DEF CalOf
<1>9. conn'.cal \in live \cup dead
  BY <1>1, <1>6, <1>7
(* The entries.                                                            *)
<1>10. /\ pending' \subseteq CreateEntry /\ pending \subseteq pending'
       /\ \A a \in r.listed : \E e \in pending' : e.appt = a
  <2>1. ASSUME NEW a \in r.listed
        PROVE  /\ [appt |-> a, by |-> q, attempts |-> 0] \in CreateEntry
               /\ [appt |-> a, by |-> q, attempts |-> 0].appt = a
    <3>1. a \in Appts /\ 0 \in 0..MaxAttempts - 1
      BY NotNone DEF CallbackState
    <3> QED BY <3>1 DEF CreateEntry
  <2>2. Requeued(q) = {[appt |-> a, by |-> q, attempts |-> 0] : a \in r.listed}
    BY <1>2 DEF Requeued
  <2>3. pending \subseteq CreateEntry
    BY DEF ConnIInv, ConnTypeOK
  <2> QED BY <1>3, <2>1, <2>2, <2>3
<1>11. ConnTypeOK'
  <2>1. /\ synced' \in Cals \cup {None} /\ raced' \in BOOLEAN /\ failed' \subseteq Appts
        /\ missed' \subseteq Appts
    BY <1>1, <1>3 DEF ConnIInv, ConnTypeOK
  <2> QED BY <1>3, <1>5, <1>7, <1>10, <2>1 DEF ConnIInv, ConnTypeOK
<1>12. WorkersTypeOK'
  BY <1>3, <1>8, <1>10 DEF ConnIInv, WorkersTypeOK
<1>13. RowsStand'
  BY <1>3, <1>8, <1>9 DEF ConnIInv, RowsStand
<1>14. ASSUME NEW u \in Consents PROVE Provisions(u)' /\ Steady(u)'
  <2>1. CASE u = q
    BY <1>4, <1>5, <2>1 DEF Provisions, Steady
  <2>2. CASE u # q
    <3>1. Provisions(u) /\ Steady(u) /\ consents'[u] = consents[u]
      BY <1>5, <2>2 DEF ConnIInv
    <3>2. Provisions(u)'
      BY <1>3, <1>5, <1>8, <2>2, <3>1 DEF Provisions
    <3>3. Steady(u)'
      <4>1. ~raced' => consents[u].phase \notin {"read", "wants", "written"}
        BY <1>3, <2>2 DEF Racing
      <4> QED BY <3>1, <4>1 DEF Steady
    <3> QED BY <3>2, <3>3
  <2> QED BY <2>1, <2>2
<1>15. Owned'
  <2> SUFFICES ASSUME ~raced', NEW cal \in live PROVE cal = conn'.cal
    BY <1>3, <1>8 DEF Owned
  <2>1. ~raced /\ \A u \in Consents \ {q} : consents[u].phase \notin {"read", "wants", "written"}
    BY <1>3 DEF Racing
  <2>2. \A u \in Consents \ {q} : consents[u].fresh = None
    BY <2>1 DEF ConnIInv, Provisions
  <2>3. cal # None /\ (cal = CalOf(conn) \/ cal = r.fresh)
    <3>1. cal = CalOf(conn) \/ \E u \in Consents : consents[u].fresh = cal
      BY <2>1 DEF ConnIInv, Owned
    <3> QED BY <1>1, <1>2, <2>2, <3>1, NotNone
  <2>4. CASE r.fresh = None
    BY <1>7, <2>3, <2>4 DEF CalOf
  <2>5. CASE r.fresh # None
    <3>1. CalOf(r.row) = CalOf(conn)
      BY <1>1, <1>2, <1>3, <2>1 DEF Steady
    <3>2. cal # CalOf(r.row)
      BY <1>1, <1>6, <2>3, <2>5 DEF CalOf
    <3> QED BY <1>7, <2>3, <2>5, <3>1, <3>2
  <2> QED BY <2>4, <2>5
<1>16. Projected'
  <2> SUFFICES ASSUME NEW a \in Claimed', conn'.cal \in live
               PROVE  Queued(a)' \/ <<conn'.cal, a>> \in events
    BY <1>3, <1>4, <1>5, <1>8 DEF Projected
  <2>1. a \in booked /\ a \notin failed' /\ a \notin missed'
    BY <1>3 DEF Claimed
  <2>2. CASE a \in r.listed
    BY <1>10, <2>2 DEF Queued
  <2>3. CASE a \notin r.listed
    <3>1. ~Stale(q)
      BY <1>3, <2>1
    <3>2. a \in Claimed
      BY <1>3, <2>1, <2>3, <3>1 DEF Claimed
    <3>3. CASE r.fresh # None
      <4>1. Queued(a)
        BY <1>2, <1>3, <2>3, <3>1, <3>2, <3>3 DEF ConnIInv, Projected
      <4> QED BY <1>10, <4>1 DEF Queued
    <3>4. CASE r.fresh = None
      <4>1. Queued(a) \/ <<conn.cal, a>> \in events
        BY <1>7, <3>2, <3>4 DEF ConnIInv, Projected
      <4> QED BY <1>7, <1>10, <3>4, <4>1 DEF Queued
    <3> QED BY <3>3, <3>4
  <2> QED BY <2>2, <2>3
<1> QED BY <1>11, <1>12, <1>13, <1>14, <1>15, <1>16 DEF ConnIInv

(* A step that leaves the row, the callbacks and the calendars alone.      *)
LEMMA WorkerMoves ==
  ASSUME ConnIInv, UNCHANGED <<conn, consents, live, dead, raced>>,
         ConnTypeOK', WorkersTypeOK', RowsStand', Projected'
  PROVE  ConnIInv'
<1>1. \A q \in Consents : Provisions(q)' /\ Steady(q)'
  BY DEF ConnIInv, Provisions, Steady, CalOf
<1>2. Owned'
  BY DEF ConnIInv, Owned, CalOf
<1> QED BY <1>1, <1>2 DEF ConnIInv

(* One that touches no appointment either.                                 *)
LEMMA BystanderMoves ==
  ASSUME ConnIInv,
         UNCHANGED <<conn, consents, live, dead, raced, booked, pending, failed, missed, events>>,
         ConnTypeOK', WorkersTypeOK', RowsStand'
  PROVE  ConnIInv'
<1>1. Projected'
  BY DEF ConnIInv, Projected, Claimed, Queued, Stale, CalOf
<1> QED BY <1>1, WorkerMoves

(* The copy that is read to be disconnected.                               *)
LEMMA MarkIsOfTheRow ==
  ASSUME ConnIInv, NEW m \in Markers, ReadMark(m)
  PROVE  /\ marks' \in [Markers -> ConnRow \cup {None}]
         /\ \A n \in Markers : marks'[n] # None =>
              conn # None /\ marks'[n].cal \in live \cup dead
<1>1. /\ marks \in [Markers -> ConnRow \cup {None}] /\ conn \in ConnRow \cup {None}
      /\ conn # None => conn.cal \in live \cup dead
      /\ \A n \in Markers : marks[n] # None => conn # None /\ marks[n].cal \in live \cup dead
  BY DEF ConnIInv, ConnTypeOK, RowsStand
<1>2. CASE conn = None
  BY <1>1, <1>2 DEF ReadMark
<1>3. CASE conn # None
  <2>1. PICK copy \in ConnRow : copy = [conn EXCEPT !.connected = FALSE] /\ copy.cal = conn.cal
    <3>1. [conn EXCEPT !.connected = FALSE] \in ConnRow
          /\ [conn EXCEPT !.connected = FALSE].cal = conn.cal
      BY <1>1, <1>3 DEF ConnRow
    <3> QED BY <3>1
  <2>2. marks' = [marks EXCEPT ![m] = copy]
    BY <1>3, <2>1 DEF ReadMark
  <2> QED BY <1>1, <1>3, <2>1, <2>2
<1> QED BY <1>2, <1>3

(* The consents withdrawn, a disconnect read, an entry claimed, and the    *)
(* poller.                                                                 *)
LEMMA Bystanders ==
  ASSUME ConnIInv,
         Revoke \/ Disconnect \/ (\E e \in CreateEntry : Resolve(e)) \/ PollOnce
  PROVE  ConnIInv'
<1>1. /\ ConnTypeOK /\ WorkersTypeOK /\ RowsStand
      /\ conn \in ConnRow \cup {None} /\ poll \in Polls
      /\ conn # None => conn.cal \in Cals /\ conn.grant \in Consents
  BY DEF ConnIInv, ConnTypeOK, WorkersTypeOK, ConnRow
<1>2. CASE Revoke
  <2>1. UNCHANGED <<conn, synced, asked, consents, booked, failed, missed, raced, live, dead, events, call, poll, marks, pending>>
        /\ valid' = {}
    BY <1>2 DEF Revoke, workers
  <2>2. ConnTypeOK' /\ WorkersTypeOK' /\ RowsStand'
    BY <1>1, <2>1 DEF ConnTypeOK, WorkersTypeOK, RowsStand
  <2> QED BY <2>1, <2>2, BystanderMoves
<1>3. CASE Disconnect
  <2>1. UNCHANGED <<conn, synced, asked, consents, booked, failed, missed, raced, live, dead, valid, events, call, poll, pending>>
        /\ ReadMark("technician")
    BY <1>3 DEF Disconnect, google
  <2>2. /\ marks' \in [Markers -> ConnRow \cup {None}]
        /\ \A n \in Markers : marks'[n] # None =>
             conn # None /\ marks'[n].cal \in live \cup dead
    BY <2>1, MarkIsOfTheRow DEF Markers
  <2>3. ConnTypeOK' /\ WorkersTypeOK' /\ RowsStand'
    BY <1>1, <2>1, <2>2 DEF ConnTypeOK, WorkersTypeOK, RowsStand
  <2> QED BY <2>1, <2>3, BystanderMoves
<1>4. CASE \E e \in CreateEntry : Resolve(e)
  <2>1. PICK e \in CreateEntry : Resolve(e)
    BY <1>4
  <2>2. /\ UNCHANGED <<conn, synced, asked, consents, booked, failed, missed, raced, live, dead, valid, events, poll, marks, pending>>
        /\ e \in pending /\ call' = [entry |-> e, row |-> conn]
    BY <2>1 DEF Resolve, google
  <2>3. call' \in Calls /\ call'.entry \in pending /\ call'.row = conn
    BY <1>1, <2>2 DEF Calls
  <2>4. ConnTypeOK' /\ WorkersTypeOK' /\ RowsStand'
    BY <1>1, <2>2, <2>3 DEF ConnTypeOK, WorkersTypeOK, RowsStand
  <2> QED BY <2>2, <2>4, BystanderMoves
<1>5. CASE ListConnected \/ ReadCredential
  <2>1. UNCHANGED <<conn, synced, asked, consents, booked, failed, missed, raced, live, dead, valid, events, call, marks, pending>>
    BY <1>5 DEF ListConnected, ReadCredential, google
  <2>2. poll' \in Polls /\ conn # None
    <3>1. CASE ListConnected
      BY <1>1, <3>1 DEF ListConnected, Polls
    <3>2. CASE ReadCredential
      <4>1. conn # None /\ poll' = [poll EXCEPT !.phase = "read", !.grant = conn.grant]
        BY <1>1, <3>2 DEF ReadCredential, WorkersTypeOK
      <4> QED BY <1>1, <4>1 DEF Polls
    <3> QED BY <1>5, <3>1, <3>2
  <2>3. ConnTypeOK' /\ WorkersTypeOK' /\ RowsStand'
    BY <1>1, <2>1, <2>2 DEF ConnTypeOK, WorkersTypeOK, RowsStand
  <2> QED BY <2>1, <2>3, BystanderMoves
<1>6. CASE Fetch
  <2>1. UNCHANGED <<conn, synced, asked, consents, booked, failed, missed, raced, live, dead, valid, events, call, pending>>
    BY <1>6 DEF Fetch, google
  <2>2. poll' \in Polls /\ poll'.phase # "listed"
    BY <1>1, <1>6 DEF Fetch, NoPoll, Polls
  <2>3. /\ marks' \in [Markers -> ConnRow \cup {None}]
        /\ \A n \in Markers : marks'[n] # None =>
             conn # None /\ marks'[n].cal \in live \cup dead
    <3>1. CASE IsAuthError(poll.grant)
      BY <1>6, <3>1, MarkIsOfTheRow DEF Fetch, Disconnecting, Markers
    <3>2. CASE ~IsAuthError(poll.grant)
      BY <1>1, <1>6, <3>2 DEF Fetch, ConnTypeOK, RowsStand
    <3> QED BY <3>1, <3>2
  <2>4. ConnTypeOK' /\ WorkersTypeOK' /\ RowsStand'
    BY <1>1, <2>1, <2>2, <2>3 DEF ConnTypeOK, WorkersTypeOK, RowsStand
  <2> QED BY <2>1, <2>4, BystanderMoves
<1>7. CASE SetSyncToken
  <2>1. UNCHANGED <<conn, asked, consents, booked, failed, missed, raced, live, dead, valid, events, call, marks, pending>>
    BY <1>7 DEF SetSyncToken, google
  <2>2. poll' \in Polls /\ poll'.phase # "listed" /\ synced' \in Cals \cup {None}
    BY <1>1, <1>7 DEF SetSyncToken, NoPoll, Polls
  <2>3. ConnTypeOK' /\ WorkersTypeOK' /\ RowsStand'
    BY <1>1, <2>1, <2>2 DEF ConnTypeOK, WorkersTypeOK, RowsStand
  <2> QED BY <2>1, <2>3, BystanderMoves
<1> QED BY <1>2, <1>3, <1>4, <1>5, <1>6, <1>7 DEF PollOnce

(* An appointment is booked or passes.                                     *)
LEMMA BookingMoves ==
  ASSUME ConnIInv, NEW a \in Appts, Book(a) \/ Lapse(a)
  PROVE  ConnIInv'
<1>1. ConnTypeOK /\ WorkersTypeOK /\ RowsStand /\ Projected
  BY DEF ConnIInv
<1>2. UNCHANGED <<conn, synced, asked, consents, raced, live, dead, valid, events, call, poll, marks>>
  BY DEF Book, Lapse, google, workers
<1>3. CASE Book(a)
  <2> DEFINE e == [appt |-> a, by |-> None, attempts |-> 0]
  <2>1. /\ booked' = booked \cup {a} /\ pending' = pending \cup {e}
        /\ failed' = failed \ {a} /\ missed' = missed \ {a}
    BY <1>3 DEF Book
  <2>2. e \in CreateEntry /\ e.appt = a
    <3>1. 0 \in 0..MaxAttempts - 1
      BY NotNone
    <3> QED BY <3>1 DEF CreateEntry
  <2> HIDE DEF e
  <2>3. ConnTypeOK' /\ WorkersTypeOK' /\ RowsStand'
    BY <1>1, <1>2, <2>1, <2>2 DEF ConnTypeOK, WorkersTypeOK, RowsStand
  <2>4. Projected'
    <3>1. \A b \in Claimed' : b = a \/ b \in Claimed
      BY <2>1 DEF Claimed
    <3>2. \A b \in Claimed : Queued(b) => Queued(b)'
      BY <2>1 DEF Queued
    <3>3. Queued(a)'
      BY <2>1, <2>2 DEF Queued
    <3>4. \A q \in Consents : Stale(q)' <=> Stale(q)
      BY <1>2 DEF Stale, CalOf
    <3> QED BY <1>1, <1>2, <3>1, <3>2, <3>3, <3>4 DEF Projected
  <2> QED BY <1>2, <2>3, <2>4, WorkerMoves
<1>4. CASE Lapse(a)
  <2>1. booked' = booked \ {a} /\ UNCHANGED <<failed, missed, pending>>
    BY <1>4 DEF Lapse, workers
  <2>2. ConnTypeOK' /\ WorkersTypeOK' /\ RowsStand'
    BY <1>1, <1>2, <2>1 DEF ConnTypeOK, WorkersTypeOK, RowsStand
  <2>3. Projected'
    BY <1>1, <1>2, <2>1 DEF Projected, Claimed, Queued, Stale, CalOf
  <2> QED BY <1>2, <2>2, <2>3, WorkerMoves
<1> QED BY <1>3, <1>4

(* The dispatcher's call.  What it created by the calendar of the row is   *)
(* there, and no callback is about to replace a calendar that exists.      *)
LEMMA CreateMoves ==
  ASSUME ConnIInv, Create
  PROVE  ConnIInv'
<1>1. ConnTypeOK /\ WorkersTypeOK /\ RowsStand /\ Projected /\ conn \in ConnRow \cup {None}
  BY DEF ConnIInv, ConnTypeOK
<1>2. PICK c \in Calls : c = call
  BY <1>1 DEF Create, WorkersTypeOK
<1>3. PICK e \in CreateEntry : e = c.entry
  BY DEF Calls
<1>4. PICK row \in ConnRow \cup {None} : row = c.row
  BY DEF Calls
<1>5. /\ UNCHANGED <<conn, synced, asked, consents, booked, failed, raced, live, dead, valid, poll, marks>>
      /\ row # None => row.cal \in live
      /\ events' = IF row = None THEN events ELSE events \cup {<<row.cal, e.appt>>}
      /\ missed' = IF row = None \/ CalOf(row) # CalOf(conn)
                   THEN missed \cup {e.appt} ELSE missed \ {e.appt}
      /\ pending' = pending \ {e}
      /\ call' = None
      /\ e.appt \in Appts
  BY <1>2, <1>3, <1>4 DEF Create, CalendarExists, CreateEntry
<1>6. ConnTypeOK' /\ WorkersTypeOK' /\ RowsStand'
  <2>1. events' \subseteq live \X Appts /\ missed' \subseteq Appts /\ pending' \subseteq CreateEntry
    BY <1>1, <1>5 DEF ConnTypeOK
  <2>2. ConnTypeOK'
    BY <1>1, <1>5, <2>1 DEF ConnTypeOK
  <2> QED BY <1>1, <1>5, <2>2 DEF WorkersTypeOK, RowsStand
<1>7. \A q \in Consents : Stale(q)' <=> Stale(q)
  BY <1>5 DEF Stale, CalOf
<1>8. ASSUME NEW a \in Claimed', a # e.appt
      PROVE  /\ conn = None => Queued(a)'
             /\ conn # None /\ conn.cal \in live => Queued(a)' \/ <<conn.cal, a>> \in events'
             /\ \A q \in Consents :
                  /\ consents[q].phase = "written"
                  /\ consents[q].fresh # None
                  /\ ~Stale(q)
                  => Queued(a)' \/ a \in consents[q].listed
  <2>1. a \in Claimed
    BY <1>5, <1>8 DEF Claimed
  <2>2. Queued(a) => Queued(a)'
    BY <1>5, <1>8 DEF Queued
  <2>3. events \subseteq events'
    BY <1>5
  <2> QED BY <1>1, <2>1, <2>2, <2>3 DEF Projected
<1>9. ASSUME e.appt \in Claimed'
      PROVE  /\ conn # None /\ <<conn.cal, e.appt>> \in events'
             /\ \A q \in Consents :
                  consents[q].phase = "written" /\ consents[q].fresh # None => Stale(q)
  <2>1. row # None /\ CalOf(row) = CalOf(conn)
    BY <1>5, <1>9 DEF Claimed
  <2>2. row \in ConnRow /\ row.cal \in Cals
    BY <2>1 DEF ConnRow
  <2>3. conn # None /\ conn.cal = row.cal /\ CalOf(conn) = row.cal
    BY <2>1, <2>2, NotNone DEF CalOf
  <2>4. ASSUME NEW q \in Consents, consents[q].phase = "written", consents[q].fresh # None, ~Stale(q)
        PROVE  FALSE
    <3>1. CalOf(consents[q].row) = row.cal
      BY <2>3, <2>4 DEF Stale
    <3>2. consents[q].row # None /\ consents[q].row.cal = row.cal
      BY <2>2, <3>1, NotNone DEF CalOf
    <3>3. row.cal \in dead
      BY <2>4, <3>2 DEF ConnIInv, Provisions
    <3> QED BY <1>1, <1>5, <2>1, <3>3 DEF RowsStand
  <2> QED BY <1>5, <2>1, <2>3, <2>4
<1>10. Projected'
  <2> SUFFICES ASSUME NEW a \in Claimed'
               PROVE  /\ conn = None => Queued(a)'
                      /\ conn # None /\ conn.cal \in live => Queued(a)' \/ <<conn.cal, a>> \in events'
                      /\ \A q \in Consents :
                           /\ consents[q].phase = "written"
                           /\ consents[q].fresh # None
                           /\ ~Stale(q)
                           => Queued(a)' \/ a \in consents[q].listed
    BY <1>5, <1>7 DEF Projected
  <2>1. CASE a = e.appt
    BY <1>9, <2>1
  <2>2. CASE a # e.appt
    BY <1>8, <2>2
  <2> QED BY <2>1, <2>2
<1> QED BY <1>5, <1>6, <1>10, WorkerMoves

(* A failed one is tried again or given up.                                *)
LEMMA CreateFailsMoves ==
  ASSUME ConnIInv, CreateFails
  PROVE  ConnIInv'
<1>1. ConnTypeOK /\ WorkersTypeOK /\ RowsStand /\ Projected
  BY DEF ConnIInv
<1>2. PICK c \in Calls : c = call
  BY <1>1 DEF CreateFails, WorkersTypeOK
<1>3. PICK e \in CreateEntry : e = c.entry
  BY DEF Calls
<1> DEFINE again == [e EXCEPT !.attempts = @ + 1]
<1>4. /\ UNCHANGED <<conn, synced, asked, consents, booked, missed, raced, live, dead, valid, events, poll>>
      /\ pending' = IF Spent(e) THEN pending \ {e} ELSE (pending \ {e}) \cup {again}
      /\ failed' = IF Spent(e) THEN failed \cup {e.appt} ELSE failed
      /\ call' = None
      /\ e.appt \in Appts
  BY <1>2, <1>3 DEF CreateFails, CreateEntry, google
<1>5. ASSUME ~Spent(e) PROVE again \in CreateEntry /\ again.appt = e.appt
  <2>1. e.attempts \in 0..MaxAttempts - 1 /\ MaxAttempts \in Nat /\ e.attempts + 1 # MaxAttempts
    BY <1>5, NotNone DEF Spent, CreateEntry
  <2>2. e.attempts + 1 \in 0..MaxAttempts - 1
    BY <2>1
  <2> QED BY <2>2 DEF CreateEntry
<1> HIDE DEF again
<1>6. /\ marks' \in [Markers -> ConnRow \cup {None}]
      /\ \A n \in Markers : marks'[n] # None =>
           conn # None /\ marks'[n].cal \in live \cup dead
  <2>1. CASE ReadMark("dispatcher")
    BY <2>1, MarkIsOfTheRow DEF Markers
  <2>2. CASE UNCHANGED marks
    BY <1>1, <2>2 DEF ConnTypeOK, RowsStand
  <2> QED BY <2>1, <2>2 DEF CreateFails
<1>7. ConnTypeOK' /\ WorkersTypeOK' /\ RowsStand'
  <2>1. failed' \subseteq Appts /\ pending' \subseteq CreateEntry
    BY <1>1, <1>4, <1>5 DEF ConnTypeOK
  <2>2. ConnTypeOK'
    BY <1>1, <1>4, <1>6, <2>1 DEF ConnTypeOK
  <2> QED BY <1>1, <1>4, <1>6, <2>2 DEF WorkersTypeOK, RowsStand
<1>8. Projected'
  <2>1. ASSUME NEW a \in Claimed' PROVE a \in Claimed /\ (Queued(a) => Queued(a)')
    <3>1. a \in Claimed
      BY <1>4, <2>1 DEF Claimed
    <3>2. CASE Spent(e)
      BY <1>4, <2>1, <3>2 DEF Queued, Claimed
    <3>3. CASE ~Spent(e)
      <4>1. again \in pending' /\ again.appt = e.appt
        BY <1>4, <1>5, <3>3
      <4>2. ASSUME NEW f \in pending, f.appt = a PROVE Queued(a)'
        <5>1. f = e \/ f \in pending'
          BY <1>4, <3>3
        <5> QED BY <4>1, <4>2, <5>1 DEF Queued
      <4> QED BY <3>1, <4>2 DEF Queued
    <3> QED BY <3>1, <3>2, <3>3
  <2>2. \A q \in Consents : Stale(q)' <=> Stale(q)
    BY <1>4 DEF Stale, CalOf
  <2> QED BY <1>1, <1>4, <2>1, <2>2 DEF Projected
<1> QED BY <1>4, <1>7, <1>8, WorkerMoves

(* The technician deletes a calendar.                                      *)
LEMMA DeleteMoves ==
  ASSUME ConnIInv, NEW cal \in Cals, DeleteCalendar(cal)
  PROVE  ConnIInv'
<1>1. /\ UNCHANGED <<conn, synced, valid, asked, consents, booked, failed, missed, raced, call, poll, marks, pending>>
      /\ cal \in live
      /\ live' = live \ {cal} /\ dead' = dead \cup {cal}
      /\ events' = {e \in events : e[1] # cal}
  BY DEF DeleteCalendar, workers
<1>2. live' \cup dead' = live \cup dead /\ dead \subseteq dead' /\ live' \subseteq live
  BY <1>1
<1>3. ConnTypeOK'
  <2>1. events' \subseteq live' \X Appts
    BY <1>1 DEF ConnIInv, ConnTypeOK
  <2> QED BY <1>1, <2>1 DEF ConnIInv, ConnTypeOK
<1>4. WorkersTypeOK'
  BY <1>1 DEF ConnIInv, WorkersTypeOK
<1>5. RowsStand'
  <2>1. live' \cap dead' = {}
    BY <1>1 DEF ConnIInv, RowsStand
  <2> QED BY <1>1, <1>2, <2>1 DEF ConnIInv, RowsStand
<1>6. \A q \in Consents : Provisions(q)' /\ Steady(q)'
  BY <1>1, <1>2 DEF ConnIInv, Provisions, Steady, CalOf
<1>7. Owned'
  BY <1>1, <1>2 DEF ConnIInv, Owned, CalOf
<1>8. Projected'
  <2>1. ASSUME NEW a \in Appts, conn # None, conn.cal \in live', <<conn.cal, a>> \in events
        PROVE  <<conn.cal, a>> \in events'
    BY <1>1, <2>1
  <2>2. \A q \in Consents : Stale(q)' <=> Stale(q)
    BY <1>1 DEF Stale, CalOf
  <2>3. Claimed' = Claimed /\ Claimed \subseteq Appts
    BY <1>1 DEF Claimed, ConnIInv, ConnTypeOK
  <2>4. \A a \in Appts : Queued(a)' <=> Queued(a)
    BY <1>1 DEF Queued
  <2>5. conn # None /\ conn.cal \in live' => conn.cal \in live
    BY <1>2
  <2> QED BY <1>1, <2>1, <2>2, <2>3, <2>4, <2>5 DEF ConnIInv, Projected
<1> QED BY <1>3, <1>4, <1>5, <1>6, <1>7, <1>8 DEF ConnIInv

(* A copy is saved.                                                        *)
LEMMA SaveMoves ==
  ASSUME ConnIInv, NEW m \in Markers, SaveMark(m)
  PROVE  ConnIInv'
<1>1. /\ conn \in ConnRow \cup {None} /\ marks \in [Markers -> ConnRow \cup {None}]
      /\ raced \in BOOLEAN
      /\ live \subseteq Cals /\ dead \subseteq Cals
      /\ \A n \in Markers : marks[n] # None => conn # None /\ marks[n].cal \in live \cup dead
  BY DEF ConnIInv, ConnTypeOK, RowsStand
<1>2. /\ UNCHANGED <<synced, asked, consents, booked, failed, live, dead, valid, events, call, poll, pending>>
      /\ marks[m] # None /\ Holder = {}
      /\ conn' = Saved(marks[m], conn)
      /\ raced' = (raced \/ conn'.cal # conn.cal)
      /\ missed' = IF conn'.cal # conn.cal THEN missed \cup booked ELSE missed
      /\ marks' = [marks EXCEPT ![m] = None]
  BY DEF SaveMark, google
<1>3. PICK copy \in ConnRow : copy = marks[m]
  BY <1>1, <1>2
<1>4. /\ conn # None /\ conn \in ConnRow
      /\ conn' \in ConnRow /\ conn'.cal = copy.cal /\ conn'.cal \in live \cup dead
  <2>1. conn # None /\ conn \in ConnRow /\ copy.cal \in live \cup dead
    BY <1>1, <1>2, <1>3
  <2>2. Saved(copy, conn) \in ConnRow /\ Saved(copy, conn).cal = copy.cal
    BY <2>1 DEF Saved, ConnRow
  <2> QED BY <1>2, <1>3, <2>1, <2>2
<1>5. /\ conn' # None /\ CalOf(conn) = conn.cal /\ CalOf(conn)' = conn'.cal
      /\ \A q \in Consents : consents[q].phase # "written"
  BY <1>2, <1>4, NotNone DEF CalOf, Holder
<1>6. ConnTypeOK'
  BY <1>1, <1>2, <1>4 DEF ConnIInv, ConnTypeOK
<1>7. WorkersTypeOK'
  BY <1>2, <1>5 DEF ConnIInv, WorkersTypeOK
<1>8. RowsStand'
  BY <1>1, <1>2, <1>4, <1>5 DEF ConnIInv, RowsStand
<1>9. ASSUME NEW q \in Consents PROVE Provisions(q)' /\ Steady(q)'
  <2>1. Provisions(q) /\ Steady(q)
    BY DEF ConnIInv
  <2>2. Provisions(q)'
    BY <1>2, <1>5, <2>1 DEF Provisions
  <2>3. Steady(q)'
    <3>1. ~raced' => ~raced /\ conn'.cal = conn.cal
      BY <1>2
    <3>2. consents'[q] = consents[q] /\ CalOf(consents[q].row)' = CalOf(consents[q].row)
      BY <1>2 DEF CalOf
    <3> QED BY <1>5, <2>1, <3>1, <3>2 DEF Steady
  <2> QED BY <2>2, <2>3
<1>10. Owned'
  <2>1. ~raced' => ~raced /\ conn'.cal = conn.cal
    BY <1>2
  <2> QED BY <1>2, <1>5, <2>1 DEF ConnIInv, Owned
<1>11. Projected'
  <2>1. CASE conn'.cal # conn.cal
    <3>1. Claimed' = {}
      BY <1>2, <2>1 DEF Claimed
    <3> QED BY <3>1 DEF Projected
  <2>2. CASE conn'.cal = conn.cal
    <3>1. Claimed' = Claimed
      BY <1>2, <2>2 DEF Claimed
    <3>2. \A a \in Claimed : Queued(a)' <=> Queued(a)
      BY <1>2 DEF Queued
    <3> QED BY <1>2, <1>4, <1>5, <2>2, <3>1, <3>2 DEF ConnIInv, Projected
  <2> QED BY <2>1, <2>2
<1> QED BY <1>6, <1>7, <1>8, <1>9, <1>10, <1>11 DEF ConnIInv

----------------------------------------------------------------------------
(* The invariant.                                                          *)

LEMMA ConnInitially == ConnInit => ConnIInv
<1> SUFFICES ASSUME ConnInit PROVE ConnIInv
  OBVIOUS
<1>1. /\ conn = None /\ live = {} /\ dead = {} /\ events = {} /\ call = None /\ poll = NoPoll
      /\ booked = {} /\ pending = {} /\ failed = {} /\ missed = {} /\ raced = FALSE
      /\ valid = {} /\ synced = None /\ asked = None
      /\ consents = [q \in Consents |-> Fresh] /\ marks = [m \in Markers |-> None]
  BY DEF ConnInit
<1>2. \A q \in Consents : consents[q] = Fresh
  BY <1>1
<1>3. Fresh.phase = "new"
  BY DEF Fresh
<1>4. ConnTypeOK
  BY <1>1, FreshIsState DEF ConnTypeOK
<1>5. WorkersTypeOK
  BY <1>1 DEF WorkersTypeOK, NoPoll, Polls
<1>6. RowsStand
  BY <1>1 DEF RowsStand
<1>7. \A q \in Consents : Provisions(q) /\ Steady(q)
  BY <1>2, <1>3, FreshIsState DEF Provisions, Steady
<1>8. Owned /\ Projected
  BY <1>1 DEF Owned, Projected, Claimed
<1> QED BY <1>4, <1>5, <1>6, <1>7, <1>8 DEF ConnIInv

LEMMA ConnInductive == ConnIInv /\ [ConnNext]_connVars => ConnIInv'
<1> SUFFICES ASSUME ConnIInv, [ConnNext]_connVars PROVE ConnIInv'
  OBVIOUS
<1>1. CASE UNCHANGED connVars
  <2>1. UNCHANGED <<conn, synced, asked, consents, booked, failed, missed, raced, live, dead, valid, events, call, poll, marks, pending>>
    BY <1>1 DEF connVars, google, workers
  <2>2. ConnTypeOK' /\ WorkersTypeOK' /\ RowsStand'
    BY <2>1 DEF ConnIInv, ConnTypeOK, WorkersTypeOK, RowsStand
  <2> QED BY <2>1, <2>2, BystanderMoves
<1>2. ASSUME NEW q \in Consents, Callback(q) PROVE ConnIInv'
  BY <1>2, CallbackBegins, CallbackWrites, CallbackCommits DEF Callback
<1>3. ASSUME NEW cal \in Cals, DeleteCalendar(cal) PROVE ConnIInv'
  BY <1>3, DeleteMoves
<1>4. ASSUME NEW m \in Markers, SaveMark(m) PROVE ConnIInv'
  BY <1>4, SaveMoves
<1>5. ASSUME NEW a \in Appts, Book(a) \/ Lapse(a) PROVE ConnIInv'
  BY <1>5, BookingMoves
<1>6. CASE Revoke \/ Disconnect \/ (\E e \in CreateEntry : Resolve(e)) \/ PollOnce
  BY <1>6, Bystanders
<1>7. CASE Create \/ CreateFails
  BY <1>7, CreateMoves, CreateFailsMoves
<1> QED BY <1>1, <1>2, <1>3, <1>4, <1>5, <1>6, <1>7 DEF ConnNext

(* The inductive invariant holds of every behaviour of the connection, for *)
(* any consents, calendars, appointments and number of attempts.           *)
THEOREM ConnInvariance == ConnSpec => []ConnIInv
<1> QED BY ConnInitially, ConnInductive, PTL DEF ConnSpec

(* The connection row, the callbacks, the copies and the outbox have their *)
(* types.                                                                  *)
THEOREM ConnTypeCorrect == ConnSpec => []ConnTypeOK
<1>1. ConnIInv => ConnTypeOK
  BY DEF ConnIInv
<1> QED BY <1>1, ConnInvariance, PTL

(* connect(), reprovision() and the re-projection after them: a connected  *)
(* calendar shows every upcoming appointment once the outbox has drained,  *)
(* but for the entries given up and those projected behind a stale row.    *)
THEOREM CalendarsAreRebuilt == ConnSpec => []RebuiltAfterReplacement
<1>1. ConnIInv => RebuiltAfterReplacement
  <2> SUFFICES ASSUME ConnIInv, Quiet, conn # None, CalendarExists(conn.cal),
                      NEW a \in booked \ (failed \cup missed)
               PROVE  <<conn.cal, a>> \in events
    BY DEF RebuiltAfterReplacement
  <2>1. ~Queued(a)
    BY DEF Quiet, Queued
  <2>2. Queued(a) \/ <<conn.cal, a>> \in events
    BY DEF ConnIInv, Projected, Claimed, CalendarExists
  <2> QED BY <2>1, <2>2
<1> QED BY <1>1, ConnInvariance, PTL

(* The connect callback provisions inside its transaction: when nothing is *)
(* under way, a calendar other than the row's exists only if callbacks     *)
(* overlapped, overlapped a disconnect, or died between Google and commit. *)
THEOREM OrphansAreOfRaces == ConnSpec => []OrphansComeFromRaces
<1>1. ConnIInv => OrphansComeFromRaces
  <2> SUFFICES ASSUME ConnIInv, Quiet, ~raced, NEW cal \in live
               PROVE  cal = CalOf(conn)
    BY DEF OrphansComeFromRaces
  <2>1. cal # None
    BY NotNone DEF ConnIInv, ConnTypeOK
  <2>2. \A q \in Consents : consents[q].fresh = None
    BY DEF ConnIInv, Provisions, Quiet
  <2> QED BY <2>1, <2>2 DEF ConnIInv, Owned
<1> QED BY <1>1, ConnInvariance, PTL

=============================================================================
