----------------------------- MODULE Connection -----------------------------
(***************************************************************************)
(* One technician's Google connection: the row that names the dedicated    *)
(* calendar and the credential, and everybody who reads and writes it.     *)
(* The connect callback talks to Google inside its transaction; the        *)
(* dispatcher and the poller read the row, talk to Google with what they   *)
(* read, and on an authorization error mark the row DISCONNECTED through a *)
(* copy.  The technician revokes the consent or deletes the calendar at    *)
(* Google whenever they like.  A write of the row is one step with the     *)
(* re-read before it: the two statements are adjacent, and the outcomes of *)
(* an update between them are outcomes of another order of the steps.      *)
(***************************************************************************)
EXTENDS Integers, FiniteSets

CONSTANTS
  Consents,    (* consents given to Google; each names its refresh token   *)
  Cals,        (* calendar ids                                             *)
  Appts,       (* the technician's appointments                            *)
  MaxAttempts, (* MAX_ATTEMPTS of an outbox entry                          *)
  None

(* calendar_connection.                                                    *)
ConnRow == [cal : Cals, grant : Consents, connected : BOOLEAN]

(* Those who disconnect through a copy of the row.                         *)
Markers == {"dispatcher", "poller", "technician"}

(* A CREATE of the outbox; by is the consent that re-projected it.         *)
CreateEntry == [appt : Appts, by : Consents \cup {None}, attempts : 0..MaxAttempts - 1]

Calls == [entry : CreateEntry, row : ConnRow \cup {None}]

ASSUME ConnAssumption ==
  /\ MaxAttempts \in Nat \ {0}
  /\ None \notin Consents \cup Cals \cup ConnRow \cup Calls

VARIABLES
  conn,        (* the committed row, or None                               *)
  synced,      (* the calendar whose listing gave sync_token, or None      *)
  live,        (* calendars that exist at Google                           *)
  dead,        (* calendars the technician deleted                         *)
  valid,       (* consents that stand                                      *)
  asked,       (* the consent whose state the browser's session holds      *)
  consents,    (* consent -> the progress of its callback                  *)
  marks,       (* who disconnects -> the copy to be saved, or None         *)
  booked,      (* active appointments in the future                        *)
  pending,     (* CREATE entries not settled                               *)
  call,        (* the entry the dispatcher works on, with the row it read  *)
  poll,        (* the poller: the calendar listed and the credential read  *)
  events,      (* <<calendar, appointment>> pairs at Google                *)
  failed,      (* appointments whose CREATE spent its attempts since they  *)
               (* were listed last (history)                               *)
  missed,      (* appointments whose CREATE went elsewhere than to the     *)
               (* row's calendar, or that were booked when the row took    *)
               (* another calendar behind a reader's back (history)        *)
  raced        (* a callback overlapped another one or a disconnect, or    *)
               (* died between Google and its commit (history)             *)

google == <<live, dead, valid, events>>
workers == <<call, poll, marks, pending>>
connVars == <<conn, synced, asked, consents, booked, failed, missed, raced, google, workers>>

CallbackState ==
  [phase : {"new", "asked", "back", "read", "wants", "written", "done"},
   previous : Cals \cup {None}, row : ConnRow \cup {None}, fresh : Cals \cup {None},
   listed : SUBSET Appts]

Fresh == [phase |-> "new", previous |-> None, row |-> None, fresh |-> None, listed |-> {}]

NoPoll == [phase |-> "idle", cal |-> None, grant |-> None]

ConnInit ==
  /\ conn = None /\ synced = None
  /\ live = {} /\ dead = {} /\ valid = {} /\ events = {}
  /\ asked = None
  /\ consents = [q \in Consents |-> Fresh]
  /\ marks = [m \in Markers |-> None]
  /\ booked = {} /\ pending = {}
  /\ call = None
  /\ poll = NoPoll
  /\ failed = {} /\ missed = {} /\ raced = FALSE

----------------------------------------------------------------------------
(* Google.                                                                 *)

IsAuthError(grant) == grant \notin valid

CalendarExists(cal) == cal \in live

(* The technician withdraws every consent given so far.                    *)
Revoke ==
  /\ valid # {}
  /\ valid' = {}
  /\ UNCHANGED <<conn, synced, asked, consents, booked, failed, missed, raced, live, dead, events, workers>>

DeleteCalendar(cal) ==
  /\ cal \in live
  /\ live' = live \ {cal}
  /\ dead' = dead \cup {cal}
  /\ events' = {e \in events : e[1] # cal}
  /\ UNCHANGED <<conn, synced, valid, asked, consents, booked, failed, missed, raced, workers>>

----------------------------------------------------------------------------
(* The OAuth flow and the connect callback.                                *)

(* A login mints the state the callback will be matched with; a login in   *)
(* another tab replaces it.                                                *)
Login(q) ==
  /\ consents[q].phase = "new"
  /\ consents' = [consents EXCEPT ![q].phase = "asked"]
  /\ asked' = q
  /\ UNCHANGED <<conn, synced, booked, failed, missed, raced, google, workers>>

(* The state matches and the code is exchanged for a refresh token.        *)
Exchange(q) ==
  /\ consents[q].phase = "asked"
  /\ asked = q
  /\ valid' = valid \cup {q}
  /\ consents' = [consents EXCEPT ![q].phase = "back"]
  /\ UNCHANGED <<conn, synced, asked, booked, failed, missed, raced, live, dead, events, workers>>

(* The consent is declined, or Google refuses the credential: nothing is   *)
(* stored and the session forgets the flow.                                *)
Reject(q) ==
  /\ \/ consents[q].phase = "asked" /\ asked = q
     \/ consents[q].phase = "read" /\ IsAuthError(q)
  /\ consents' = [consents EXCEPT ![q] = [Fresh EXCEPT !.phase = "done"]]
  /\ asked' = None
  /\ UNCHANGED <<conn, synced, booked, failed, missed, raced, google, workers>>

(* The state does not match.                                               *)
Mismatch(q) ==
  /\ consents[q].phase = "asked"
  /\ asked # q
  /\ consents' = [consents EXCEPT ![q] = [Fresh EXCEPT !.phase = "done"]]
  /\ UNCHANGED <<conn, synced, asked, booked, failed, missed, raced, google, workers>>

CalOf(row) == IF row = None THEN None ELSE row.cal

(* The calendar id before the service runs.                                *)
ReadPrevious(q) ==
  /\ consents[q].phase = "back"
  /\ consents' = [consents EXCEPT ![q].phase = "read", ![q].previous = CalOf(conn)]
  /\ UNCHANGED <<conn, synced, asked, booked, failed, missed, raced, google, workers>>

(* Mutant: a repeat consent provisions a calendar of its own.              *)
AlwaysProvisions(row) == TRUE

NeedsCalendar(row) == row # None => ~CalendarExists(row.cal)

(* connect(): the row, and with a credential Google takes, a new calendar  *)
(* where there is none or the stored one is gone.                          *)
Provision(q, cal) ==
  /\ consents[q].phase = "read"
  /\ ~IsAuthError(q)
  /\ NeedsCalendar(conn)
  /\ cal \notin live \cup dead
  /\ live' = live \cup {cal}
  /\ consents' = [consents EXCEPT ![q].phase = "wants", ![q].row = conn, ![q].fresh = cal]
  /\ UNCHANGED <<conn, synced, dead, valid, events, asked, booked, failed, missed, raced, workers>>

Reuse(q) ==
  /\ consents[q].phase = "read"
  /\ ~IsAuthError(q)
  /\ ~NeedsCalendar(conn)
  /\ consents' = [consents EXCEPT ![q].phase = "wants", ![q].row = conn]
  /\ UNCHANGED <<conn, synced, asked, booked, failed, missed, raced, google, workers>>

Holder == {q \in Consents : consents[q].phase = "written"}

(* Mutant: a replaced calendar is left empty.                              *)
NotReprojected(q, previous, cal) == {}

(* The appointments to rebuild: the calendar id is not the one before.     *)
Reprojected(q, previous, cal) ==
  IF previous # None /\ cal # previous THEN booked ELSE {}

(* The calendar id connect() returns.                                      *)
Returned(q) == IF consents[q].fresh = None THEN CalOf(consents[q].row) ELSE consents[q].fresh

(* add(), reprovision() or reconnect() flushes, which holds the row until  *)
(* the commit, and the appointments to rebuild are listed.  A second first *)
(* connect is refused by the primary key.                                  *)
Write(q) ==
  LET r == consents[q] IN
  /\ r.phase = "wants"
  /\ Holder = {}
  /\ r.row = None => conn = None
  /\ consents' = [consents EXCEPT ![q].phase = "written",
                                  ![q].listed = Reprojected(q, r.previous, Returned(q))]
  /\ UNCHANGED <<conn, synced, asked, booked, failed, missed, raced, google, workers>>

Added(q) == [cal |-> consents[q].fresh, grant |-> q, connected |-> TRUE]

Reconnected(row, q) == [row EXCEPT !.grant = q, !.connected = TRUE]

Reprovisioned(row, q) == [Reconnected(row, q) EXCEPT !.cal = consents[q].fresh]

Racing(q) ==
  \/ \E u \in Consents \ {q} : consents[u].phase \in {"read", "wants", "written"}
  \/ \E m \in Markers : marks[m] # None

(* The calendar it replaces is not the one it looked for before or after   *)
(* it asked Google.                                                        *)
Stale(q) ==
  /\ consents[q].fresh # None
  /\ {consents[q].previous, CalOf(consents[q].row)} # {CalOf(conn)}

Requeued(q) == {[appt |-> a, by |-> q, attempts |-> 0] : a \in consents[q].listed}

Commit(q) ==
  LET r == consents[q] IN
  /\ r.phase = "written"
  /\ conn' = IF r.row = None THEN Added(q)
             ELSE IF r.fresh # None THEN Reprovisioned(conn, q) ELSE Reconnected(conn, q)
  /\ synced' = IF r.fresh # None THEN None ELSE synced
  /\ pending' = pending \cup Requeued(q)
  /\ missed' = IF Stale(q) THEN missed \cup booked ELSE missed \ r.listed
  /\ failed' = failed \ r.listed
  /\ raced' = (raced \/ Racing(q))
  /\ asked' = None
  /\ consents' = [consents EXCEPT ![q] = [Fresh EXCEPT !.phase = "done"]]
  /\ UNCHANGED <<booked, google, call, poll, marks>>

(* The primary key refuses the row, a statement raises or the process      *)
(* dies: what Google did stays.                                            *)
Fail(q) ==
  /\ consents[q].phase \in {"back", "read", "wants", "written"}
  /\ consents' = [consents EXCEPT ![q] = [Fresh EXCEPT !.phase = "done"]]
  /\ raced' = (raced \/ consents[q].fresh # None)
  /\ UNCHANGED <<conn, synced, asked, booked, failed, missed, google, workers>>

Callback(q) ==
  \/ Login(q) \/ Exchange(q) \/ Reject(q) \/ Mismatch(q) \/ ReadPrevious(q)
  \/ \E cal \in Cals : Provision(q, cal)
  \/ Reuse(q) \/ Write(q) \/ Commit(q) \/ Fail(q)

----------------------------------------------------------------------------
(* Disconnecting: get(), disconnect(), save().                             *)

ReadMark(m) == marks' = [marks EXCEPT ![m] = IF conn = None THEN None
                                             ELSE [conn EXCEPT !.connected = FALSE]]

(* save() re-reads the row and writes the copy's calendar id and status.   *)
Saved(copy, row) == [row EXCEPT !.cal = copy.cal, !.connected = copy.connected]

SaveMark(m) ==
  /\ marks[m] # None
  /\ Holder = {}
  /\ conn' = Saved(marks[m], conn)
  /\ raced' = (raced \/ conn'.cal # conn.cal)
  /\ missed' = IF conn'.cal # conn.cal THEN missed \cup booked ELSE missed
  /\ marks' = [marks EXCEPT ![m] = None]
  /\ UNCHANGED <<synced, asked, consents, booked, failed, google, call, poll, pending>>

(* POST /calendar/disconnect.                                              *)
Disconnect ==
  /\ conn # None
  /\ marks["technician"] = None
  /\ ReadMark("technician")
  /\ UNCHANGED <<conn, synced, asked, consents, booked, failed, missed, raced, google, call, poll, pending>>

----------------------------------------------------------------------------
(* Appointments and the dispatcher.  Entries are taken in any order, which *)
(* is more than the queue's.                                               *)

Book(a) ==
  /\ a \notin booked
  /\ \A e \in pending : e.appt # a
  /\ booked' = booked \cup {a}
  /\ pending' = pending \cup {[appt |-> a, by |-> None, attempts |-> 0]}
  /\ failed' = failed \ {a}
  /\ missed' = missed \ {a}
  /\ UNCHANGED <<conn, synced, asked, consents, raced, google, call, poll, marks>>

(* The appointment is in the past.                                         *)
Lapse(a) ==
  /\ a \in booked
  /\ \A e \in pending : e.appt # a
  /\ booked' = booked \ {a}
  /\ UNCHANGED <<conn, synced, asked, consents, failed, missed, raced, google, workers>>

(* An entry is claimed and the technician's calendar resolved, from the    *)
(* row whatever its status.                                                *)
Resolve(e) ==
  /\ call = None
  /\ marks["dispatcher"] = None
  /\ e \in pending
  /\ call' = [entry |-> e, row |-> conn]
  /\ UNCHANGED <<conn, synced, asked, consents, booked, failed, missed, raced, google, poll, marks, pending>>

(* Mutant: the last attempt is counted like any other.                     *)
NeverSpent(e) == FALSE

Spent(e) == e.attempts + 1 = MaxAttempts

(* create_event of the port resolved; a failed entry stays until its       *)
(* attempts are spent.                                                     *)
Create ==
  LET e == call.entry  row == call.row IN
  /\ call # None
  /\ row # None => ~IsAuthError(row.grant) /\ CalendarExists(row.cal)
  /\ events' = IF row = None THEN events ELSE events \cup {<<row.cal, e.appt>>}
  /\ missed' = IF row = None \/ CalOf(row) # CalOf(conn)
               THEN missed \cup {e.appt} ELSE missed \ {e.appt}
  /\ pending' = pending \ {e}
  /\ call' = None
  /\ UNCHANGED <<conn, synced, asked, consents, booked, failed, raced, live, dead, valid, poll, marks>>

CreateFails ==
  LET e == call.entry  row == call.row IN
  /\ call # None
  /\ row # None
  /\ IsAuthError(row.grant) \/ ~CalendarExists(row.cal)
  /\ pending' = IF Spent(e) THEN pending \ {e}
                ELSE (pending \ {e}) \cup {[e EXCEPT !.attempts = @ + 1]}
  /\ failed' = IF Spent(e) THEN failed \cup {e.appt} ELSE failed
  /\ IF IsAuthError(row.grant) THEN ReadMark("dispatcher") ELSE UNCHANGED marks
  /\ call' = None
  /\ UNCHANGED <<conn, synced, asked, consents, booked, missed, raced, google, poll>>

----------------------------------------------------------------------------
(* The poller.                                                             *)

ListConnected ==
  /\ poll = NoPoll
  /\ marks["poller"] = None
  /\ conn # None
  /\ conn.connected
  /\ poll' = [phase |-> "listed", cal |-> conn.cal, grant |-> None]
  /\ UNCHANGED <<conn, synced, asked, consents, booked, failed, missed, raced, google, call, marks, pending>>

ReadCredential ==
  /\ poll.phase = "listed"
  /\ poll' = [poll EXCEPT !.phase = "read", !.grant = conn.grant]
  /\ UNCHANGED <<conn, synced, asked, consents, booked, failed, missed, raced, google, call, marks, pending>>

(* Mutant: the sync skips a refused credential like any other error.       *)
Skipped == UNCHANGED marks

Disconnecting == ReadMark("poller")

Fetch ==
  /\ poll.phase = "read"
  /\ IF ~IsAuthError(poll.grant) /\ CalendarExists(poll.cal)
     THEN poll' = [poll EXCEPT !.phase = "fetched"] ELSE poll' = NoPoll
  /\ IF IsAuthError(poll.grant) THEN Disconnecting ELSE UNCHANGED marks
  /\ UNCHANGED <<conn, synced, asked, consents, booked, failed, missed, raced, google, call, pending>>

(* The changes are reconciled and the token of this calendar's listing is  *)
(* stored, whatever calendar the row names by now.                         *)
SetSyncToken ==
  /\ poll.phase = "fetched"
  /\ Holder = {}
  /\ synced' = poll.cal
  /\ poll' = NoPoll
  /\ UNCHANGED <<conn, asked, consents, booked, failed, missed, raced, google, call, marks, pending>>

PollOnce == ListConnected \/ ReadCredential \/ Fetch \/ SetSyncToken

ConnNext ==
  \/ Revoke
  \/ \E cal \in Cals : DeleteCalendar(cal)
  \/ \E q \in Consents : Callback(q)
  \/ \E m \in Markers : SaveMark(m)
  \/ Disconnect
  \/ \E a \in Appts : Book(a) \/ Lapse(a)
  \/ \E e \in CreateEntry : Resolve(e)
  \/ Create \/ CreateFails
  \/ PollOnce

ConnSpec == ConnInit /\ [][ConnNext]_connVars

(* The poller's loop goes on, a callback's write is followed by its commit *)
(* or its end, and a disconnect that was read is saved.                    *)
ConnFairSpec ==
  /\ ConnSpec
  /\ WF_connVars(PollOnce)
  /\ WF_connVars(SaveMark("poller"))
  /\ \A q \in Consents : WF_connVars(Commit(q) \/ Fail(q))

----------------------------------------------------------------------------
(* Properties.                                                             *)

ConnTypeOK ==
  /\ conn \in ConnRow \cup {None}
  /\ synced \in Cals \cup {None}
  /\ live \subseteq Cals /\ dead \subseteq Cals
  /\ valid \subseteq Consents
  /\ asked \in Consents \cup {None}
  /\ consents \in [Consents -> CallbackState]
  /\ marks \in [Markers -> ConnRow \cup {None}]
  /\ booked \subseteq Appts /\ failed \subseteq Appts /\ missed \subseteq Appts
  /\ pending \subseteq CreateEntry
  /\ events \subseteq live \X Appts
  /\ raced \in BOOLEAN

Quiet ==
  /\ pending = {}
  /\ \A q \in Consents : consents[q].phase \in {"new", "asked", "done"}
  /\ \A m \in Markers : marks[m] = None

(* A connection whose calendar exists shows every upcoming appointment on  *)
(* it once the outbox has drained, however often the calendar was deleted  *)
(* and replaced and whoever wrote the row meanwhile; except those whose    *)
(* entry spent its attempts or went by a row that was not the current one, *)
(* and those booked when a stale callback or a stale copy replaced the     *)
(* calendar.                                                               *)
RebuiltAfterReplacement ==
  Quiet /\ conn # None /\ conn.connected /\ CalendarExists(conn.cal) =>
    \A a \in booked \ (failed \cup missed) : <<conn.cal, a>> \in events

(* The technician's account holds one calendar of this system, unless a    *)
(* callback raced another or a disconnect, or died after Google's answer.  *)
OrphansComeFromRaces ==
  Quiet /\ ~raced => live \subseteq {CalOf(conn)}

(* A connection whose credential was revoked does not stay CONNECTED.      *)
RevokedIsNoticed ==
  (conn # None /\ conn.connected /\ conn.grant \notin valid)
    ~> ~(conn # None /\ conn.connected /\ conn.grant \notin valid)

----------------------------------------------------------------------------
(* What the repository says and the code does not keep.                    *)

(* dispatcher_runner.py: projection resumes automatically after the        *)
(* technician reconnects.  What was booked while the credential was        *)
(* refused is on the calendar once the outbox has drained.                 *)
ProjectionResumes ==
  Quiet /\ conn # None /\ conn.connected /\ CalendarExists(conn.cal) /\ conn.grant \in valid =>
    \A a \in booked \ missed : <<conn.cal, a>> \in events

(* repositories.py: reprovision drops the sync token so that the next      *)
(* inbound sync runs a full listing against the fresh calendar.            *)
FreshCalendarIsListedInFull == synced \in {None, CalOf(conn)}

=============================================================================
