# A TLA+ model of the field service management system

This directory holds TLA+ modules of the program in `src/`, TLC configurations that model-check
them on small instances, and theorems about them checked by TLAPS. Paths below are relative to
`src/backend/src/fsm/` unless they begin with `src/`.

## 1. The system

A modular monolith in Python (FastAPI, SQLAlchemy, PostgreSQL at READ COMMITTED). One code base
runs as four processes: `customer`, `technician` and `backoffice` serve HTTP, possibly as several
replicas each, and `worker` runs two background threads, the calendar dispatcher and the inbound
calendar poller. All processes share the database. Google Calendar is a projection of the
database, edited by people too.

| Component | State | Operations | Interacts with |
|---|---|---|---|
| Appointment lifecycle: `scheduling/application/appointment_service.py`, `scheduling/domain/appointment.py`, `scheduling/adapters/{repositories,unit_of_work,orm}.py` | tables `service_call`, `appointment`, `appointment_audit` | open a call, book, reschedule, cancel, add details | HTTP routes call it; it enqueues in the outbox and notifies inside its transaction |
| Calendar outbox: `scheduling/adapters/outbox_repository.py` | table `calendar_outbox` | enqueue, claim_next, mark_processed, mark_failed | written by requests and the poller, drained by the dispatcher |
| Projection dispatcher: `scheduling/application/calendar_projection_dispatcher.py`, `platform/dispatcher_runner.py`, `platform/calendar_bridge/google_calendar.py` | an open transaction with a locked entry, a copy of the appointment | run_once, run_forever | outbox, appointments, Google |
| Inbound sync: `platform/sync_runner.py`, `platform/calendar_bridge/inbound_sync.py`, `scheduling/application/reconciliation_service.py`, `core/lease.py` | sync token per connection, advisory-lock lease | poll_once, reconcile | Google, appointments, outbox, notifications |
| Google connection: `google_calendar/` , `platform/api/calendar_routes.py` | table `calendar_connection` | connect, disconnect, reprovision, set_sync_token | dispatcher and poller disconnect it on an auth error |
| Availability: `scheduling/domain/{availability,working_hours,booking_rate_limit}.py` and their repositories | working hours, time off, holidays | generate_slots, is_available, blocked_until, replace a schedule | booking routes, reconciliation, triage |
| Triage assistant: `assist/application/triage.py`, `assist/domain/conversation.py` | conversations and messages | start, reply, end | language model, photos, opens service calls through `platform/service_call_bridge.py` |
| Photos: `assist/application/photos.py` | photo rows, objects in a store | attach, detach, bind | triage, object store |
| Knowledge base: `assist/application/knowledge_base.py` | document rows, object store, vector index | upload, delete, reindex | triage searches it |
| Identity: `identity/` | users, roles and their status | sign in, approve, reject, update profile | every route authorises against it |
| Notifications: `notifications/` | in-app feed, outgoing mail | deliver, list, mark read | called by appointment operations inside their transaction |
| Live events: `core/events.py`, `platform/api/events_routes.py` | Redis channel, SSE queues | publish, subscribe | published after commit |
| Web client `src/frontend`, nginx, scripts, prompts, composition and settings | none that matters here | | |

What is hard in this code, and what makes each component correct:

* **Appointments.** Requests interleave inside the database at READ COMMITTED without row locks or
  version columns. A repository `get` returns a detached domain object; `save` reads the row again
  and assigns every field, and the UPDATE SQLAlchemy emits names only the columns that differ from
  that second read. So a save can lose an update, or merge columns of two versions. Correct means:
  no double booking, bookings atomic with their service call, an audit row and an outbox entry with
  every change.
* **Outbox and dispatcher.** One entry per transaction; the Google call happens between the claim
  and the commit. Workers die, answers get lost, requests change the appointment during the call,
  several dispatchers may run. Correct means: at-least-once delivery, each entry settled once and
  for good, every entry settled eventually, and a drained outbox leaves the calendar equal to the
  table.
* **Inbound sync.** Last-writer-wins against the row's `updated_at`; changes and sync token commit
  in different transactions; a lease that lives on one connection. Correct means: a replayed batch
  changes nothing more, the token never skips a change, the database wins a conflict.
* **Connection.** The connect callback talks to Google inside its transaction; the dispatcher, the
  poller and the technician disconnect through copies of the row; calendars are deleted and consents
  withdrawn at Google. Correct means: a replaced calendar is rebuilt, no calendar is orphaned, a
  revoked credential does not stay connected.
* **Availability.** A two-pointer sweep over busy times, arithmetic at the edges of days and windows
  and across a change of the clocks; hours, days off and holidays that are replaced while a lookup
  reads them statement by statement; a limit on cancellations that locks nothing. Correct means: the
  slots are exactly the free ones, carving and policy agree on what may be offered, no lookup sees half
  a schedule, and nobody books under a limit reached before.
* **Triage and photos.** A reply streams a model's answer for seconds between load and save; starts,
  replies, expiry and endings of one conversation overlap; the bytes of a photo are in a store no
  transaction covers. Correct means: one open conversation per customer, whole turns, one service
  call per escalation, no attachment without its bytes.
* **Knowledge base.** Rows in one transaction, vectors batch by batch on another connection, a
  process that restarts with another embedding model. Correct means: the index holds what the store
  holds, and vectors of another model in it are noticed.
* **Identity.** Whole-row saves again: two first sign-ins race, a profile update may undo a decision.
  Correct means: one account per person, no approval without an administrator.
* **Notifications, live events, client hooks.** Notices in the transaction, mail before the commit,
  cues after it, a stream that opens before the server has subscribed, responses that overtake each
  other. Correct means: a notice for every committed change, and a connected page that catches up.

The `hazards` of `PROJECT.json` list these at the line where they bite.

## 2. Modules

| Module | What it is |
|---|---|
| `BookingBoard` | The abstract specification: appointments claim, exchange and release stretches of a technician's time, and no two claims of a technician meet. A step of `Spec` changes one claim, a step of `BatchSpec` any set of them at once (`Exchange`). |
| `Appointments` | Requests over the tables and the outbox (`CoreSpec`), and the refinement to `BookingBoard`. |
| `Projection` | EXTENDS `Appointments`: dispatchers, Google, crashes (`Spec`, `FairSpec`). |
| `Inbound` | EXTENDS `Projection`: people who edit events, the lease, the pollers, their batches and the sync token (`SyncSpec`). |
| `Connection` | The row of one technician's Google connection and everybody who writes it (`ConnSpec`, `ConnFairSpec`). |
| `Slots` | The carving of working windows into slots, and the policy for moved times. |
| `BookingLimit` | The limit on cancellations. |
| `Schedules` | Working hours, days off, holidays, their writers, and the lookups that put them together. |
| `Triage` | Conversations, turns, photos and escalations of one customer. |
| `KnowledgeBase` | Documents against the vector index. |
| `Accounts` | Users, roles, decisions, profiles. |
| `LiveViews` | Notices, mails, cues, streams and the pages that follow them. |
| `Absence` | The constant `None`. |
| `MCAppointments`, `MCProjection`, `MCInbound`, `MCAccounts` | Ranges and symmetry for TLC. |
| `MCAssistant` | Puts `Triage` and `KnowledgeBase` side by side. |
| `MCOffers` | Puts `LiveViews`, `Slots`, `BookingLimit` and `Schedules` side by side. |
| `AppointmentsProofs`, `ProjectionProofs`, `InboundProofs` | Theorems about these modules, each on top of the one before. |
| `ConnectionProofs`, `AccountsProofs`, `LiveViewsProofs` | Theorems about these modules. |
| `AssistantProofs` | Theorems about `Triage`, `KnowledgeBase` and both together. |
| `OffersProofs` | Theorems about `BookingLimit`, `Schedules`, `Slots`, and all the parts of `MCOffers` together. |

`MCAssistant` and `MCOffers` compose parts that share no state in the code either (the knowledge base
hands text to the prompts, a lookup hands its hours to the carving as a value). A constant of the
behaviour says which part runs while the others rest in an initial state, so each part is explored in
full and their product, which shows nothing, is not.

### Appointments

| TLA+ | Code |
|---|---|
| `rows`, `audits`, `outbox`, `calls` | committed rows of `appointment`, `appointment_audit`, `calendar_outbox`, `service_call` |
| `txns[t]` | one unit of work: its phase, the request, the domain object (`copy`), the row `save` read (`basis`), and `began`, the start of its transaction, which PostgreSQL's `now()` returns as the outbox `created_at` |
| `BookLoad`, `BookCheck`, `BookCommit` | `book_appointment`: status of the call, overlap guard, and inserts, `service_calls.save`, enqueue, commit |
| `RescheduleLoad`, `RescheduleCheck` | the read of the appointment, then the overlap guard and `Appointment.reschedule` |
| `CancelLoad`, `AddDetailsLoad` | read, guard and mutation; no other read lies between them |
| `SaveReread`, `SaveCommit` | the SELECT inside `save`; the UPDATE, the audit rows, the enqueue and the commit |
| `Rollback` | any guard, constraint, contact check or rate limit that raises, and the death of the process |
| `Column`, `Merged` | SQLAlchemy's UPDATE: a column is written when the assigned value differs from the value read |
| `Readable` | loading a row builds its `TimeRange`, which raises when start is not before end; the overlap guard and the later reads of such a row raise with it |
| `ConstraintAllows` | the exclusion constraint `appointment_no_overlap` over `tstzrange(start_at, end_at)` of non-cancelled rows: it refuses an inverted range (the range constructor raises) and lets an empty one through, which overlaps nothing |

The steps between which other transactions can commit are separate actions; statements that only
take effect at the commit are one. An UPDATE waits for the row lock of an uncommitted UPDATE and
then acts on the row the other transaction left; this is why `Merged` is applied to the row current
at the commit and not to `basis`. The read-then-write window is between `SaveReread` and
`SaveCommit`.

Abstractions: `clock` ticks at every transaction start and mutation, so two mutations never carry
the same `updated_at`; the identity map of SQLAlchemy's session is weak and holds nothing after
`get` returned a detached object, so `save` really reads again; a unit of work carries one
operation, as every route builds it; times are small integers; a details text is a model value; the
customer, the problem and the phone do not change and are left out. The churn limit and the contact
check only refuse bookings: they are part of `Rollback`.

### Projection

| TLA+ | Code |
|---|---|
| `events[a]` | the Google event with the appointment's iCalUID, and whether it was deleted |
| `disp[d]` | one dispatcher: the phase of `_process_one`, its locked entry, the loaded appointment and what `save` re-read |
| `StartRun`, `EndRun` | `run_forever` and the end of `run_once` |
| `Claim` | `claim_next`: oldest PENDING by `created_at`, `FOR UPDATE SKIP LOCKED` |
| `Load`, `SkipUpdate` | the appointment's read; an UPDATE without an event id fails without a call |
| `CallReturns`, `CallRaises`, `Effect` | the calendar port call, which may raise before or after it took effect |
| `SettleEntry`, `FailEntry` | mark_processed or mark_failed and commit |
| `LinkReread`, `LinkCommit` | `assign_external_event`, `save`, mark_processed and commit; when the exclusion constraint refuses the row, `mark_failed` raises on the failed session and the run aborts |
| `Crash` | the worker dies: transaction rolled back, lock released |

Google is external and modelled from its use: an insert with a known iCalUID answers 409 and the
existing live event is found again, an update or delete of a deleted event raises. The effect of a
call is atomic. `run_once` has a limit of 50 entries per run, which is above anything the instances
hold. The calendar id is resolved inside the call, so that a failure to resolve it is one of the
reasons `CallRaises`. Every booked technician has a connection row, since only connected technicians
are offered: the resolver's `NullCalendarPort` for the others is not modelled. A row that cannot be
loaded makes `Load` raise, and its entries fail.

Composition: `Next` of `Projection` is a request step that leaves the dispatchers' state alone, or a
dispatcher step, which may change `rows` and `outbox`.

### Inbound

| TLA+ | Code |
|---|---|
| `stamps[a]` | `updated` of the Google event, taken from the same clock as the rows' `updated_at` |
| `unread` | what Google would list for the stored sync token; the token itself is not needed |
| `lease`, `AcquireLease`, `LoseLease`, `Die` | the advisory lock; its session's connection breaks while the loop goes on; the worker process dies |
| `poll[p].batch`, `left` | the fetched changes and those not yet reconciled |
| `poll[p].copies`, `bases`, `entries` | the batch's unit of work: domain objects, re-read rows and outbox entries, all unseen by others until the commit |
| `poll[p].since` | what changed after the fetch, that is, what the token about to be stored still lists |
| `MoveEvent`, `RemoveEvent`, `DeclineEvent` | a person moves or deletes the event, the guest declines |
| `Fetch` | the reads of connection and token, and `list_changes`, after an expired token (410) of the whole calendar |
| `Ignore`, `CancelInbound`, `RescheduleInbound`, `RejectInbound` | the branches of `reconcile`: an older or empty change, a deletion or a decline, an accepted move, a refused move that is projected back |
| `InboundReread` | the SELECT inside `save` |
| `CommitBatch`, `AbortBatch` | the one commit of all changes of a connection, or the exception that rolls all of them back |
| `StoreToken` | `set_sync_token` in a transaction of its own |

Every step of `Projection` is also a step of `SyncNext`; `Noticed` adds what Google does with a
changed event: it stamps it and lists it after every older token. The three history variables
`seen`, `raced` and `rewritten` are read by properties only.

Abstractions: an empty batch commits nothing and stores an equivalent token, so `Fetch` wants a
change to fetch. The policy part of `_accepts` (`is_available`) is the constant set `OpenRanges`; the
overlap part is modelled, in one step with the read of the row before it (`reconciliation_service.py:78`
and `:151`): what commits between the two meets the constraint when the batch is saved. A poller's outbox entries take their ids from `Txns`, as if a request that
never runs had written them. A row saved by a batch is merged when the batch commits, whereas its
row lock is taken when `save` flushes: the model lets a request slip in between, which it may not.
The token is read just before the listing; `Fetch` takes both at once, and a token another poller
stored in between only makes the listing longer, which a replayed batch and the expired token cover.
The poller deletes and reads no event of a technician's calendar that the dispatcher did not make.
A sweep visits the connections one by one and each visit is independent of the others, so a poller
picks any technician. The connection itself never changes.

### Connection

| TLA+ | Code |
|---|---|
| `conn`, `synced` | the row of `calendar_connection`; `synced` is the calendar whose listing gave the stored sync token |
| `live`, `dead`, `valid`, `events` | Google: the calendars, the consents that stand, and which appointments each calendar shows |
| `asked`, `Login`, `Exchange`, `Reject`, `Mismatch` | the OAuth state in the browser's session and the ways a callback ends before the service runs |
| `ReadPrevious`, `Provision`, `Reuse`, `Write`, `Commit`, `Fail` | the callback's transaction: the calendar id it starts from, the service's read of the row and its calls to Google, the flush (which holds the row), the list of appointments to rebuild, the commit or its failure |
| `marks`, `ReadMark`, `SaveMark`, `Disconnect` | `get`, `disconnect`, `save`, by the technician, the dispatcher's and the poller's error handlers |
| `Resolve`, `Create`, `CreateFails` | the dispatcher: it reads the row whatever its status, calls Google with what it read and counts attempts |
| `ListConnected`, `ReadCredential`, `Fetch`, `SetSyncToken` | the poller: three reads in three transactions, and the token stored into whatever row there is by then |

Only CREATE entries are kept, since only these rebuild a calendar; they are taken in any order, which
is more than the queue's. A write of the row is one step with the re-read before it: the statements
are adjacent, and what an update between them leaves is what another order of the steps leaves. The
calls of a callback to Google (`calendar_exists`, `create_calendar`) are one step with the read of
the row before them; what changes the row meanwhile is seen at `Write`.

### Slots, BookingLimit, Schedules

`Slots` takes one step per slot carved (`Carve`: `Advanced` moves `left_ptr` past the busy times that
end before the slot, `Free` scans from there) or per day (`NextDay`). Time is counted in ticks of
which a day has `DayLength` and a minute `Minute`. The
working-hours request admits times with seconds (`platform/api/schemas.py:158-159`):
`generate_slots` drops them (`ToTheMinute`, `NaiveStart`, `NaiveEnd`), `is_available` compares them
(`InWindow`), so a window that opens at 09:00:30 offers a slot at 09:00 that the policy refuses for a
moved appointment (`BeforeOpening`). The clocks change at most once, ahead or back, on any day: `Localized`
and `AsTimezone` are `replace(tzinfo=...)` with `fold=0` and `astimezone`. `IsAvailable` is the policy
for a time moved in the calendar. `BusyTimes` includes times that cross midnight and that contain one
another; they are handed over in any order that `sorted()` may leave them in, that is, those of one
start in any order. `WindowsAvoidChange` is what `availability.py:9-13` assumes of the system's windows,
said of every wall-clock time of a window, its end included: when the clocks jump ahead exactly at the
end of a window, the end of its last slot is localized to the far side of the jump, and `is_available`
refuses a slot that `generate_slots` offers.

`BookingLimit` keeps the time each cancellation took when its request began (`Cancel`) apart from the
commit that makes it count (`CancelCommits`), as it keeps a booking's `clock()` (`Book`) apart from its
count (`Guard`). `seen` and `unseen` are history. Cancellations count whoever made them, as the query
reads the audit without the actor's role.

`Schedules` splits a PUT of working hours into the snapshot of its DELETE (`PutBegin`), the DELETE,
which waits for others that remove the same rows, the INSERT and the commit, and each lookup into its
three reads; READ COMMITTED lets each statement see what others committed before it. `PutInsert` waits
for a PUT that has inserted the same weekday, and the primary key refuses it when such a row has been
committed that the DELETE did not see. `UpsertFails`: a list that names a date twice makes
`INSERT ... ON CONFLICT DO UPDATE` touch a row twice, which PostgreSQL refuses, and the refresh stores
nothing. A failed read of a lookup is logged and excludes nothing.

### Triage and KnowledgeBase

| TLA+ | Code |
|---|---|
| `convs`, `turns`, `photos`, `calls`, `objects` | the rows of conversations, messages and photos, the attachments of service calls opened by triage, the object store |
| `StartLook`, `StartExpired`, `ReplyLoad`, `EndLoad` | the reads a request begins with; `ReplyLoad` also takes the unsent photos the request names |
| `Answer` | the model's answer with its ending (`Markers`), and what the service does to its copy |
| `SaveReread`, `TurnCommit`, `ClosingCommit`, `EscalateCommit`, `EndCommit`, `StartCommit`, `RetireCommit` | the SELECT inside `save`; the columns merged (`Merged`), the messages appended past the number of stored ones, the photos bound or deleted, the service call inserted |
| `RemoveDiscarded` | the objects removed after the commit |
| `AttachPut`, `AttachCommit`, `DetachLoad`, `DetachRemove`, `DetachCommit` | the two halves of attaching and detaching a photo |
| `Fail` | a refusal, the model's error, a lost response, the death of the process |

A request's id names its turn and its service call; a turn is the pair of messages that are saved
together. `Row.idle` says that a conversation is past its time to live, which replies and closings
reset. `overlapped` and `botched` are history.

In `KnowledgeBase` a request names the document it uploads. The vector table is written by a
connection of its own that commits every batch (`AddBatch`, `RemoveDocument`, `Reset`), while the row
of a document appears with the request's commit; `Restart` ends every request under way and may change
the configured model; all processes are started with one configuration, so there is one `model`.
`IndexSearch` is what the assistant compares a query with (`TriageService.reply` searches the index it
was handed), `Search` what the back office does, which asks `needs_reindex()` first.

### Accounts and LiveViews

`Accounts` follows a request through load, mutation of the copy, re-read and merge of columns
(`AccMerged`), and the announcement after the commit, on the three hosts (`ApplyHost`). A sign-in of a known user
saves only when what it syncs has changed (`Synced`). A new user's
row is inserted by `SignInAdd`, where the unique index refuses the second of two first sign-ins, and
the read that should recover then raises on the failed session. The caller's role was resolved in a
session of its own before the request, so administrators are given.

`LiveViews` keeps one appointment's changes from the notices and the mail (`Deliver`) to the commit
and the cue (`Cue`, `DropCue`), and per page its list, its fetches under way, its stream, the server's
pump behind it and the cues queued. `Opens` and `Subscribe` are apart: the response starts, and with it
`onopen`, before the subscription stands.

## 3. Properties and runs

No run checks deadlock: requests are bounded by their ids, each of which may run once, so every
behaviour without a worker ends.

| Run | Instance | What it shows |
|---|---|---|
| `Requests` | 4 requests, 2 appointments, 1 call, 3 ranges | `NoDoubleBooking`, `ScheduledIffBooked`, `CancelledIsProjected`, `EveryChangeIsEnqueued`, `EveryChangeIsAudited` and `ImplementsBoard`, over 403,497 states |
| `OneWorker` | 3 requests, 1 appointment, 1 dispatcher, 2 attempts, 1 crash | `MirroredWhenDrained`: an appointment nobody cancelled, whose entries all went through, is on Google with the row's time and details. `OrphansComeFromBlindDeletes`: an event outlives a cancellation only if the DELETE was enqueued without an event id. 1.2 million states |
| `TwoWorkers` | the same with 2 dispatchers | `ProcessedMeansDelivered`: PROCESSED is never recorded ahead of the effect. `SettledForGood`: a settled entry is never written again |
| `Settling` | 3 requests, 2 appointments, 1 range, fair dispatcher | `EveryEntrySettles`, also when write-backs are refused |
| `InboundBoard` | 2 ids for requests and poller entries, 2 appointments, 1 call, 1 dispatcher, 1 poller, 1 edit, two ranges to book or move to and one that overlaps both | `ImplementsBatchBoard`: the board whose claims a batch exchanges at once, with the poller's batches and the dispatcher's write-back among the requests; the constraint refuses some batches and `AbortBatch` fires. With one edit a batch changes one row; batches of several rows are the theorem's. `AgreedUnlessRaced`: when outbox and token are drained, table and calendar agree on whether and when the appointment takes place, unless the event changed while an older version was being reconciled, or a write-back rewrote the row. Rows with an entry that failed, a blind delete or a lost cancellation are `MirroredWhenDrained`'s and `CancelledIsTerminal`'s business and left out |
| `TwoPollers` | 1 id, 1 appointment, 2 pollers, 2 edits, 1 death or lost lease | `TokenNeverAhead`: a version the stored token no longer lists has been reconciled by a batch that committed, with two pollers at work as well. `AgreedUnlessRaced` is not claimed here, and does not hold: a holder that lost the lease commits the reschedule it read after its successor has committed the removal that followed, both store their tokens, and the row stays active with its event gone. While the lease lasts it does hold for any number of pollers, which the theorems say |
| `Connections` | 2 consents, 2 calendars, 1 appointment, 2 attempts | `RebuiltAfterReplacement`: a connected, existing calendar shows every upcoming appointment once the outbox has drained, but those whose entry spent its attempts or was projected by a row that was not the current one any more, and those booked when a callback that had read an older row, or a save of an older copy, replaced the calendar. `OrphansComeFromRaces`: one calendar per account unless callbacks raced. `RevokedIsNoticed`: a revoked credential does not stay connected |
| `Assistant` | part *triage*: 4 requests, 2 conversations, 1 photo, cap of 2 turns; part *knowledge base*: 4 requests, 2 contents, 2 models, 2 batches | one open conversation (in `AssistantTypeOK`); `TurnsAreWhole`: no turn is stored twice, and one that was answered is missing only where requests of the conversation overlapped; `PhotosOutliveTheirUse`, `CappedUnlessOverlapped`, `EscalationIsAtomic`; one document for equal bytes (in `AssistantTypeOK`), `IndexMatchesStore`; `ForeignVectorsAreNoticed`: a search of the back office meets vectors of its model only, one of the assistant meets others only while a re-index is due. 338,000 states |
| `Accounts` | 4 requests, 1 person, 1 administrator | one account per person (in `AccTypeOK`), `ApprovedByAnAdmin`, `PendingIsAnnounced`; `OnlyStaleSavesRevert`: a save keeps decision and acceptance when its request had loaded the row as the save read it again, or as it is at the commit, with the exceptions it names. 399,000 states |
| `Offers` | *views*: 2 changes, 1 page of any viewer, 2 fetches at once, 1 break; *slots*: 2 days of 10 ticks, minutes of 2 ticks, 2 windows, one that opens and one that closes within a minute, slots of 1 or 2 minutes, up to 2 of 8 busy times, clocks that jump ahead, back or not at all; *limit*: 3 appointments, 1 booking, limit, window and cool-off of 2, 5 ticks; *hours*: 2 PUTs over 2 weekdays and 1 lookup; *dates*: 3 dates, 1 refresh, 1 lookup | notices follow commits (in `OffersTypeOK`), `PagesCatchUp`, `OffersTheFreeSlots`; `OffersAreAcceptable`: the policy accepts of what is offered all but the first slot of a window that does not open on a whole minute, and that it refuses; `AdmittedOnlyUnderTheLimit`, `RetryIsLateEnough`, `HoursComeFromOnePut`, `LastingDatesAreExcluded`. 787,000 states |

The bounds. Three requests on one appointment are the smallest number in which a booking and two
interfering changes meet; four with two appointments let two pairs of saves merge columns and clash
with each other. The ranges contain a pair that overlaps, a pair that only touches, and a start and an
end whose combination is empty. Two attempts distinguish a retry from the last attempt; one crash at
any step replays a delivery. Two edits are the fewest in which the second can be lost behind the
first; `MaxClock` is never reached. With one id in `TwoPollers` a refused move cannot commit its
entry; `InboundBoard` covers it. One technician: rows of different technicians meet in nothing but the
constraint's `technician_id`, which the proofs cover for any number. Two consents are a connect and a
reconnect, and two callbacks at once; a second calendar is the replacement. Four requests of one
customer are a start, two turns that overlap and an ending, or an attachment; two conversations an
expired one and its successor. Four knowledge-base requests are two uploads, a deletion and a
re-index, and with two batches any of them can stop half way. Four account requests are a sign-in, a
claim, a decision and a save that began before it. Two busy times are enough for the pointer of the
sweep to pass one and keep another that began earlier; a third changes nothing, since a slot that is
refused needs one (the theorems are about any number). Three appointments exceed the limit by one. Sets of ids are symmetric where no
liveness is checked. The parts of these runs were also simulated at larger sizes (more requests,
photos, batches, consents, appointments, dates, dispatchers), with no further case but one: three
consents and three calendars showed that a callback which replaces a calendar it did not read loses
what was booked meanwhile, which `RebuiltAfterReplacement` now names (`Stale`). `Slots` was not; its
theorems are about any size.

Fairness. `FairSpec` adds `WF_vars(Dispatch(d))`: `run_forever` loops until it is stopped, catches
every exception of a run and waits a fixed interval, so an enabled dispatcher step is eventually
taken. Requests are not fair, nor are crashes; `Settling` has no crash, for a crash only repeats a
delivery, which `OneWorker` covers. That an entry settles does not assume that Google ever answers:
refusals count attempts. The one way around the attempt counter is a refused write-back, and that
refusal does not repeat with the next load. `ConnFairSpec` assumes the poller's loop and the
save that follows in its error handler, and that a callback that holds the row commits or fails, which
the database's timeouts see to; nothing is assumed of the technician, the dispatcher or Google.

### Where the code departs from what it says

Two runs check a statement of the repository and find it violated.

| Run | Statement | What happens |
|---|---|---|
| `CancelledIsTerminal` | `appointment.py`: CANCELLED is terminal | a reschedule that read the row before the cancellation saves RESCHEDULED over it |
| `EchoesAreNoOps` | `reconciliation_service.py`: an echo of our own update is a no-op | the dispatcher writes a row it loaded before a reschedule; the event is stamped after the reschedule, and the poll moves the appointment back to the older time |

More of them are stated in the modules and can be seen by naming the definition in the configuration
of the module:

| Definition | Statement | What happens |
|---|---|---|
| `Appointments!OnlyOpenCallsAreBooked` | `appointment_service.py:154`: only OPEN calls may be booked | two bookings both read OPEN |
| `Projection!MirroredWhenDrained` with two dispatchers | `calendar_projection_dispatcher.py:49-50`: concurrent instances are safe | two entries of one appointment are delivered out of order. `src/docs/data.md` says that the worker is a single process, which is what `OneWorker` relies on |
| `Inbound!StayAligned` | `src/docs/data.md`: the workers keep Google Calendar aligned with the database | the poll fetches a move, a second move follows, and the first is saved with the time of its reconciliation: the second is older than the row when it is fetched and is dropped, neither applied nor projected back |
| `Triage!AnsweredTurnsAreKept` | `assist/adapters/orm.py:86`: two turns racing for a position fail loudly | the later save counts the messages stored by then and skips as many of its own: a turn that was answered is not stored, and nobody is told |
| `Connection!ProjectionResumes` | `dispatcher_runner.py`: projection resumes after the technician reconnects | entries spend their attempts while the credential is refused, and a reconnect to the same calendar requeues none |
| `Connection!FreshCalendarIsListedInFull` | `google_calendar/adapters/repositories.py`: reprovision drops the token, so that the next sync lists the fresh calendar in full | a poll under way stores the token of the old calendar afterwards |
| `Accounts!RejectedIsNotRequeued` | `identity_service.py`: rejected is not re-queued | a sign-in as a customer in between, or a stale save, makes the next sign-in as a technician a new request |
| `Accounts!AcceptanceStands` | `auth_routes.py`: a second tab cannot restate when the user agreed | two acceptances both load the row without one |
| `Slots!SlotsLieInWindows` | `availability.py:37-38`: each working day is carved from the window start | a window that opens within a minute is carved from the minute before, and the policy refuses the slot |
| `KnowledgeBase!SearchIsPaused` | `src/frontend/src/features/backoffice/KnowledgeBasePanel.tsx:186`: the embedding model changed, search is paused until documents are re-indexed | the assistant's search does not ask: after a restart with another model it compares a customer's turn with vectors of the old one |
| `LiveViews!MissedChangesArePickedUp` | `useUpcomingAppointments.ts:14-22`: the mount fetch covers the first connect | a change between the answer to that fetch and the server's subscription reaches neither |

And in words: the limit may reopen before the time a refusal names, when the cancellations it counted
leave the window first (`platform/config.py:58-60`,
`scheduling/domain/errors.py:41`); `RetryIsLateEnough` states the side that
holds.

## 4. Proofs

Nothing is assumed of a constant but the ASSUMEs named below, nothing is finite unless it says so. The
invariants were run through TLC before they were proved.

* `AppointmentsProofs` (from `RangesAssumption`: requests carry ranges whose start precedes their end,
  as `TimeRange.__post_init__` enforces; `NoneAssumption`: `None` is none of the values it stands
  beside) has three parts. `IInv == TypeOK /\ Grounded /\ Apart` is inductive. `Grounded` says what a
  phase implies about a transaction's copy, basis and row, without which a commit could write through
  an unset record; `Apart` says that two active rows of a technician do not meet, which is what
  `ConstraintAllows` restores at each write. `Apart` implies `NoDoubleBooking`. Theorems
  `TypeCorrect`, `NeverDoubleBooked`. `LInv` adds four facts to `IInv`: `Fresh` (the id of a booking in
  progress has no row and no other user), `NotYetEnqueued` (a running transaction has no entry),
  `OnlyCancelCancels` (only a cancellation holds an inactive copy it is about to write) and `Stamped`
  (the `updated_at` of a mutated copy differs from that of every row, of every other mutated copy and
  of the re-read row, so that a save always changes the row). Lemma `StepWrites` reduces every
  step to one of three shapes: a commit of one row with its audit row and entry, or a step that
  writes none of them. Theorems `ChangesAreAudited`, `ChangesAreEnqueued`, `CallsFollowBookings`,
  `CancellationsAreProjected`. For the refinement, lemma `WriteIsBoardStep` says that a write of one
  row that the constraint allows maps to `Take`, `Move`, `Release` or a stutter of `BookingBoard`:
  theorem `AppointmentsImplementBoard`.
* `ProjectionProofs` (also from `ProjectionAssumption`) has three invariants, each with the one before.
  * `PInv` is `LInv` with four parts: `Sound` (what the phase of a dispatcher says about its entry and
    its copies; a dispatcher past the call has delivered its entry; its copy is stamped apart from
    every copy of a request, since a write-back may leave its old `updated_at` in the row),
    `Exclusive` (an entry is locked by one dispatcher), `Honest` (entries name rows that exist,
    PROCESSED ones are `Delivered`). `Delivered` is stable because an event never vanishes and a
    deleted one never revives (`Grows`). Lemmas `RequestsOnlyAdd` and `DispatcherWrites` say what
    either side writes. Theorems `ProjectionTypeCorrect`, `ProcessedIsDelivered`,
    `SettledEntriesStay`, `NoDoubleBookingUnderDispatchers`, `ProjectionImplementsBoard`.
  * `OInv` follows event ids: a row, a copy and an entry name no event but their own appointment's
    (`NamesOwn`, `OfItsEntry`), and an appointment has one CREATE (`CreatedOnce`). Theorems
    `OrphansAreOfBlindDeletes`, `CancellationsAreProjectedUnderDispatchers`.
  * `MInv` says how far the projection of an appointment nobody cancelled has come. While its CREATE is
    open the row carries no event id, every other entry is open or has failed, and what a dispatcher
    holds is the row (`Unlinked`); afterwards (`Linked`) an entry is `Ahead`, that is, will load the row
    as it then is, or the dispatcher is about to send the row (`Sends`), or the calendar shows it.
    Theorem `OneDispatcherMirrors`, with the hypothesis that there is one dispatcher: with two,
    `MirroredWhenDrained` fails (section 3). It is about requests and the dispatcher; people who edit
    the events are `Inbound`'s.
* `InboundProofs` (also from `InboundAssumption`). `SyncInv` is `PInv` with what holds of the pollers:
  what a batch has prepared but not committed (`Batched`), that events have rows, that nothing is
  reconciled before it is stamped (`InTime`), and, what the token's safety rests on, that a poller
  misses of the calendar it fetched only what changed since (`UpToDate`): whatever `StoreToken` takes
  off the list has been `seen` in its latest version. The proofs of `PInv` are used for the steps of
  requests and dispatchers; `Noticed` only adds stamps. Theorems `SyncTypeCorrect`,
  `TokenStaysBehind`, `NoDoubleBookingUnderPollers`, `ProcessedIsDeliveredUnderPollers`,
  `SettledEntriesStayUnderPollers`, and `SyncImplementsBatchBoard`: the rows a batch merges are an
  `Exchange` of any set of claims.

  `AInv` is about the agreement of table and calendar. It adds to `SyncInv` that batches name no event
  but their appointments' own and that every row was announced by a CREATE (`NInv`), and says of every
  appointment that is neither raced nor rewritten why the calendar will come to say what the row says,
  or the row what the calendar says (`Covered`). For an active row there is no event yet; or the event
  is there at the row's time (`Meant`); or an UPDATE waits for the row to be loaded (`Coming`), or was
  loaded with a copy that will fail, bring this time, or change the event so that a poller takes notice
  (`Sending`); or a version newer than the row is `Listed`, that is, unread, and every sweep under way
  will decide on it or leave it unread (`WillRead`); or a DELETE was enqueued. For a cancelled row the
  event is gone or a DELETE was enqueued. What a batch has decided but not committed is covered by the
  same ways (`Drafted`), with one more: the event changed after the decision and stays listed
  (`Stirred`). A dispatcher's step carries every way on or turns it into the next one (`Carries`): a
  returned call has changed the event, which makes it `Listed`, or found it at that time already.
  `OneSweep`, that no two sweeps are under way at once, is needed where a batch is committed and where
  a token is stored, and nowhere else. Theorems `AgreementUnderOneSweep`; `LeaseKeepsOneSweep`, that
  the lease provides it while sessions last; hence `AgreementUnderTheLease`; and
  `AgreementWithOneWorker`, without a condition on the lease. `AInv` was checked with TLC first, at
  the bounds of `InboundBoard`, and with two pollers in the states `OneSweep` allows to a depth of 27
  steps.

  `CInv` says what stands of cancellations however pollers overlap: a cancelled row, and a cancelled
  copy a dispatcher holds, has CANCELLED in its log, and a DELETE in the outbox or an event that is
  gone (`Heard`, for good: `HeardForGood`); a batch that cancels found the event gone or owes a DELETE
  (`Cancels`). Theorem `CancellationsAreHeardOf`, the counterpart of `CancelledIsProjected` where
  people cancel in the calendar too (TLC agreed at the bounds of `InboundBoard` and `TwoPollers`).
  `CallsFollowBookingsUnderPollers` and `OnlyWriteBacksAreUnaudited` carry `ScheduledIffBooked` and
  what remains of `EveryChangeIsAudited` over to dispatchers and pollers.
* `ConnectionProofs` (`ConnAssumption`). `ConnIInv` says what the connect callback may rely on while it
  talks to Google: the calendar it provisions is its own and follows one that was deleted
  (`Provisions`), unless it races the row has not moved since it was read (`Steady`), so what exists at
  Google is the row's or about to be (`Owned`), and an appointment nobody lost is on the calendar, in
  the outbox, or among those the callback will queue with its row (`Projected`). Theorems
  `ConnTypeCorrect`, `CalendarsAreRebuilt`, `OrphansAreOfRaces`. The attempt to prove the second showed
  which appointments `RebuiltAfterReplacement` has to leave out (`missed`): those that were booked when a
  callback replaces a calendar it had not read, or a save of an older copy puts an old one back.
* `AccountsProofs` (`AccountsAssumption`). `AccIInv`: types, what each phase implies of a request
  (`Grounded`, with copies that are `Derived` from the row that was loaded) and rows that are `Sound`
  for their history. Theorems `AccountsTypeCorrect`, `ApprovalIsAnAdmins`, `WaitingIsKnown`, and
  `FreshSavesKeepDecisions`: what `Derived` says a copy shares with the row it was loaded from, the
  merge leaves alone, whether that row is the one read again or the one at the commit. Two acceptances
  that both load the row without one are not excluded (`AcceptanceStands`, section 3).
* `AssistantProofs` (`TriageAssumption`, `KbAssumption`) has three parts.
  * `TriageIInv`: types, the partial unique index (`IndexAllows`), `StoredOnce`, what each phase implies
    of a request, that an answered turn is stored, and what an open conversation guarantees, where no
    requests overlapped: the copy a reply holds has the transcript that is stored.
    Theorems `OneOpenConversationAlways`, `TurnsStayWhole`, `TranscriptsAreCapped`,
    `CallsAreNamedAtOnce`.
  * `PhotoIInv` follows a photo from its upload, when nobody else names it (`Fresh`), over the reads of
    a request, which hold unless another one overlapped (`Views`), to the removal, which concerns only
    what no open conversation and no service call wants (`Discards`). Theorem `BytesOutliveTheirUse`.
  * `KbIInv` says of every chunk what the vector table holds for it: while nobody re-indexes, what the
    store and the uploads and deletions under way account for (`Kept`); during a re-index that runs
    alone, what it has written so far (`Rebuilt`). Theorems `EqualBytesAreOneDocument`,
    `IndexIsOfTheStore`, `MixedIndexIsNoticed`; and `AssistantTypeCorrect` for both parts together.
* `LiveViewsProofs` (`LiveAssumption`: the changes are finitely many). `LiveIInv` says, of every page
  that no cue was lost to, what will still bring it up to date (`Covered`): a cue to come or in its
  queue, the fetch that a reconnect makes, a fetch under way that will bring the list of now, or
  nothing, because it shows the list already. Theorems `LiveTypeCorrect`, `ConnectedPagesCatchUp`.
* `OffersProofs` has four parts.
  * The limit (`BookingLimitAssumption`, which includes that a customer's appointments are finite). The
    count of a request is compared with what is known later; that the latest of a finite set of times
    exists comes from a well-founded order. Theorems `LimitTypeCorrect`, `LimitHolds`,
    `RefusalNamesTheEnd`.
  * The schedules (`SchedulesAssumption`). Two invariants, one for the hours (what a DELETE saw is what
    is there, or the replacements overlapped) and one for the dates (what lasted since the first read
    was in every read). Theorems `SchedulesTypeCorrect`, `HoursAreOfOnePut`, `MarkedDatesAreExcluded`.
  * The slots (`SlotsAssumption`: a window begins before it ends on the same day, as `DailyHours`
    enforces, a slot has at least a minute, and the clocks change within a day). `SlotsIInv`: the slots found are
    the vacant ones of the positions the carving has `Reached` (`Found`), in order (`Ordered`), and the
    busy times the pointer left behind end before every window time to come (`Passed`). That this is
    kept rests on `LocalizedRises`, that the instants of the windows' wall-clock times rise with them
    where `WindowsAvoidChange`, and on `AdvancedIs` and `FreeIsVacant`, what the two loops of the sweep
    compute. The proof showed that `WindowsAvoidChange` must speak of the end of a window too
    (section 2). Theorems `SlotsTypeCorrect`, `SlotsAreTheFreeOnes`, and, by `LocalOfWindow`
    and what `MinuteFacts` says of dropping seconds, `SlotsAreAcceptable`: only the first slot of a
    window can begin before it, since a slot has at least a minute.
  * `OffersTypeCorrect` for all parts together, `Slots` and the views included.

Every invariant the runs check is stated by a theorem. Only model-checked: liveness
(`EveryEntrySettles`, `RevokedIsNoticed`), which TLAPS cannot prove here. Two invariants are proved
under the condition they hold for: `MirroredWhenDrained` for one dispatcher, `AgreedUnlessRaced` for
sweeps that do not overlap.

## 5. Plan

What is left.

1. `Inbound`'s liveness under a fair poller and dispatcher and finitely many edits, and that a page
   of `LiveViews` eventually catches up under fair streams, for TLC.

## 6. Not modelled

* Presentation, text and wiring: prompts and the model adapter, the web client but for the two hooks
  that keep lists current, nginx, scripts and compose files, composition, settings, logging.
* Verification of Google's tokens and the session cookie; the pool of technicians (a union of single
  lookups), the download of photos and the other read-only queries.
* The removal of a service call: the repository has the method, no route calls it.
* The contact check of a booking is a refusal that may happen or not; the columns `equipment` and
  `triage_declined` of a conversation guard nothing and are left out; the progress of uploads and the
  notice of a rejected move change nothing that another part reads.
* Some hazards of `PROJECT.json` carry a note instead of a property, which says why.
