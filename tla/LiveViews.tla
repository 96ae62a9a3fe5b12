----------------------------- MODULE LiveViews -----------------------------
(***************************************************************************)
(* What the parties to an appointment learn of its changes: notices in     *)
(* their feeds, written in the transaction of the change, a mail sent      *)
(* before it commits, and a cue published after, on which open pages fetch *)
(* their list again.  A page fetches when it is mounted and opens one      *)
(* event stream; the response starts before the server has subscribed to   *)
(* the bus, so the page may see the stream open first.  Streams break and  *)
(* reconnect by themselves, cues and fetches get lost, fetches overtake    *)
(* each other.                                                             *)
(***************************************************************************)
EXTENDS Naturals, Sequences, SequencesExt, FiniteSets, TLC

CONSTANTS
  Changes,     (* changes of one appointment                               *)
  Pages,       (* pages that show lists of appointments                    *)
  MaxFetches,  (* bound: fetches of a page under way                       *)
  MaxBreaks    (* bound: times the stream of a page breaks                 *)

ASSUME LiveAssumption ==
  MaxFetches \in Nat \ {0} /\ MaxBreaks \in Nat /\ IsFiniteSet(Changes)

(* The parties to the appointment, the back office, and someone else.      *)
Viewers == {"CUSTOMER", "TECHNICIAN", "ADMIN", "OTHER"}

Participants == {"CUSTOMER", "TECHNICIAN"}

VARIABLES
  change,      (* change -> how far its request came                       *)
  feed,        (* notices: [of, user, read]                                *)
  mailed,      (* changes the technician was mailed about                  *)
  page,        (* page -> its state in the browser and its stream          *)
  missed,      (* pages whose stream did not carry a cue when it was       *)
               (* published, and that have not read since (history)        *)
  spoiled      (* pages a cue was dropped for, or a fetch of which failed  *)
               (* or came late, and that have not read since (history)     *)

liveVars == <<change, feed, mailed, page, missed, spoiled>>

Fetch == [read : BOOLEAN, got : SUBSET Changes]

PageState == [viewer : Viewers, mounted : BOOLEAN, shown : SUBSET Changes,
              fetches : BoundedSeq(Fetch, MaxFetches), stream : BOOLEAN,
              opened : BOOLEAN, pump : {"none", "runs", "dead"}, first : BOOLEAN,
              queue : 0..Cardinality(Changes), breaks : 0..MaxBreaks]

Committed == {c \in Changes : change[c] \in {"committed", "cued"}}

(* list_upcoming_appointments(), scoped by the role of the session.        *)
Upcoming(viewer) == IF viewer = "OTHER" THEN {} ELSE Committed

----------------------------------------------------------------------------
(* Channels and notices.                                                   *)

(* The channels of the cue: both participants and the back office.         *)
AppointmentChanged == {"CUSTOMER", "TECHNICIAN", "ADMIN"}

(* The caller's own channel, and the back office's for an administrator.   *)
SubscribableChannels(viewer) == {viewer}

(* add_event(): one event, a recipient per party.                          *)
AddEvent(c) == {[of |-> c, user |-> u, read |-> FALSE] : u \in Participants}

LiveInit ==
  /\ change = [c \in Changes |-> "new"]
  /\ feed = {} /\ mailed = {} /\ missed = {} /\ spoiled = {}
  /\ \E who \in [Pages -> Viewers] :
       page = [p \in Pages |->
         [viewer |-> who[p], mounted |-> FALSE, shown |-> {}, fetches |-> << >>,
          stream |-> FALSE, opened |-> FALSE, pump |-> "none", first |-> TRUE,
          queue |-> 0, breaks |-> 0]]

(* _deliver(): the notices wait for the commit, the mail does not; no      *)
(* address or a failing server are let pass.                               *)
Deliver(c) ==
  /\ change[c] = "new"
  /\ \E sent \in SUBSET {c} : mailed' = mailed \cup sent
  /\ change' = [change EXCEPT ![c] = "written"]
  /\ UNCHANGED <<feed, page, missed, spoiled>>

CommitChange(c) ==
  /\ change[c] = "written"
  /\ change' = [change EXCEPT ![c] = "committed"]
  /\ feed' = feed \cup AddEvent(c)
  /\ UNCHANGED <<mailed, page, missed, spoiled>>

RefuseChange(c) ==
  /\ change[c] = "written"
  /\ change' = [change EXCEPT ![c] = "refused"]
  /\ UNCHANGED <<feed, mailed, page, missed, spoiled>>

MarkRead(n) ==
  /\ n \in feed /\ ~n.read
  /\ feed' = (feed \ {n}) \cup {[n EXCEPT !.read = TRUE]}
  /\ UNCHANGED <<change, mailed, page, missed, spoiled>>

----------------------------------------------------------------------------
(* The bus.                                                                *)

(* The cues the stream of p carries for one change, one per channel.       *)
Carries(p) ==
  IF page[p].pump # "runs" THEN 0
  ELSE Cardinality(SubscribableChannels(page[p].viewer) \cap AppointmentChanged)

(* The stream of p will not make up for a cue it does not carry now: it is *)
(* opening for the first time, or the page saw it open already.            *)
Uncovered(p) == page[p].stream /\ page[p].pump # "runs" /\ (page[p].first \/ page[p].opened)

Cue(c) ==
  /\ change[c] = "committed"
  /\ change' = [change EXCEPT ![c] = "cued"]
  /\ page' = [p \in Pages |-> [page[p] EXCEPT !.queue = @ + Carries(p)]]
  /\ missed' = missed \cup {p \in Pages : Uncovered(p)}
  /\ UNCHANGED <<feed, mailed, spoiled>>

(* The loop is not there, publishing fails, the process ends.              *)
DropCue(c) ==
  /\ change[c] = "committed"
  /\ change' = [change EXCEPT ![c] = "cued"]
  /\ spoiled' = spoiled \cup {p \in Pages : page[p].mounted}
  /\ UNCHANGED <<feed, mailed, page, missed>>

----------------------------------------------------------------------------
(* The page.                                                               *)

Step(p, r) ==
  /\ page' = [page EXCEPT ![p] = r]
  /\ UNCHANGED <<change, feed, mailed>>

Refetched(r) == [r EXCEPT !.fetches = Append(@, [read |-> FALSE, got |-> {}])]

CanFetch(p) == Len(page[p].fetches) < MaxFetches

(* The effects of the first render: the fetch, then the stream.            *)
Mount(p) ==
  /\ ~page[p].mounted
  /\ Step(p, Refetched([page[p] EXCEPT !.mounted = TRUE, !.stream = TRUE]))
  /\ UNCHANGED <<missed, spoiled>>

ReadList(p, i) ==
  /\ i \in DOMAIN page[p].fetches /\ ~page[p].fetches[i].read
  /\ Step(p, [page[p] EXCEPT !.fetches[i] = [read |-> TRUE, got |-> Upcoming(page[p].viewer)]])
  /\ missed' = missed \ {p} /\ spoiled' = spoiled \ {p}

(* setItems(), in the order in which the responses arrive.                 *)
SetItems(p, i) ==
  LET f == page[p].fetches[i] IN
  /\ i \in DOMAIN page[p].fetches /\ page[p].fetches[i].read
  /\ Step(p, [page[p] EXCEPT !.shown = f.got, !.fetches = RemoveAt(@, i)])
  /\ spoiled' = IF page[p].shown \subseteq f.got THEN spoiled ELSE spoiled \cup {p}
  /\ UNCHANGED missed

SetError(p, i) ==
  /\ i \in DOMAIN page[p].fetches
  /\ Step(p, [page[p] EXCEPT !.fetches = RemoveAt(@, i)])
  /\ spoiled' = spoiled \cup {p}
  /\ UNCHANGED missed

(* Mutant: no opening of the stream fetches.                               *)
NeverRefetches(r) == [r EXCEPT !.opened = TRUE, !.first = FALSE]

(* onOpen of the page: the first opening leaves it to the mount.           *)
OnOpen(r) ==
  IF r.first THEN [r EXCEPT !.opened = TRUE, !.first = FALSE]
  ELSE Refetched([r EXCEPT !.opened = TRUE])

Opens(p) ==
  /\ page[p].stream /\ ~page[p].opened /\ CanFetch(p)
  /\ Step(p, OnOpen(page[p]))
  /\ UNCHANGED <<missed, spoiled>>

(* subscribe() of the bus, once the body of the response is iterated.      *)
Subscribe(p) ==
  /\ page[p].stream /\ page[p].pump = "none"
  /\ Step(p, [page[p] EXCEPT !.pump = "runs"])
  /\ UNCHANGED <<missed, spoiled>>

(* refetch() of the page on each cue of its stream.                        *)
OnCue(r) == Refetched(r)

Receive(p) ==
  /\ page[p].opened /\ page[p].queue > 0 /\ CanFetch(p)
  /\ Step(p, OnCue([page[p] EXCEPT !.queue = @ - 1]))
  /\ UNCHANGED <<missed, spoiled>>

(* The connection is lost with what it carries; the browser connects again.*)
Break(p) ==
  /\ page[p].stream /\ page[p].breaks < MaxBreaks
  /\ Step(p, [page[p] EXCEPT !.opened = FALSE, !.pump = "none", !.queue = 0,
                             !.breaks = @ + 1])
  /\ missed' = IF page[p].first /\ page[p].queue > 0 THEN missed \cup {p} ELSE missed
  /\ UNCHANGED spoiled

(* The broker's connection fails: the pump ends, the stream stays open.    *)
PumpEnds(p) ==
  /\ page[p].pump = "runs" /\ page[p].breaks < MaxBreaks
  /\ Step(p, [page[p] EXCEPT !.pump = "dead", !.breaks = @ + 1])
  /\ UNCHANGED <<missed, spoiled>>

Browser(p) ==
  \/ Mount(p) \/ Opens(p) \/ Subscribe(p) \/ Receive(p) \/ Break(p) \/ PumpEnds(p)
  \/ \E i \in 1..MaxFetches : ReadList(p, i) \/ SetItems(p, i) \/ SetError(p, i)

LiveNext ==
  \/ \E c \in Changes : Deliver(c) \/ CommitChange(c) \/ RefuseChange(c) \/ Cue(c) \/ DropCue(c)
  \/ \E n \in feed : MarkRead(n)
  \/ \E p \in Pages : Browser(p)

LiveSpec == LiveInit /\ [][LiveNext]_liveVars

----------------------------------------------------------------------------
(* Each committed change, and no other, left one notice for the customer   *)
(* and one for the technician, read or not (_deliver(), mark_read()).      *)
NoticesFollowCommits ==
  /\ {n.of : n \in feed} = Committed
  /\ \A c \in Committed, u \in Participants : Cardinality({n \in feed : n.of = c /\ n.user = u}) = 1

(* Every variable keeps its type, and the feed follows the changes.        *)
LiveTypeOK ==
  /\ change \in [Changes -> {"new", "written", "committed", "cued", "refused"}]
  /\ feed \subseteq [of : Changes, user : Participants, read : BOOLEAN]
  /\ mailed \subseteq Changes /\ missed \subseteq Pages /\ spoiled \subseteq Pages
  /\ \A p \in Pages : page[p] \in PageState
  /\ NoticesFollowCommits

(* The page is connected and nothing it was told of is still under way.    *)
Settled(p) ==
  /\ page[p].mounted /\ page[p].opened /\ page[p].pump # "none"
  /\ page[p].fetches = << >> /\ page[p].queue = 0
  /\ \A c \in Changes : change[c] # "committed"

(* A connected page that waits for nothing shows every change: also those  *)
(* made while its stream was down, unless a cue was dropped, a fetch       *)
(* failed, an older response came last, or a change fell between the read  *)
(* of the page and the subscription of its stream, or after the end of its *)
(* pump (useUpcomingAppointments(), events(), RedisEventBus.subscribe()).  *)
PagesCatchUp ==
  \A p \in Pages : Settled(p) /\ p \notin missed \cup spoiled
                  => page[p].shown = Upcoming(page[p].viewer)

(* The mount fetch covers what the first stream of a page did not carry:   *)
(* "the initial connect already ran the mount fetch; only reconnects need  *)
(* a catch-up refetch" (useUpcomingAppointments.ts).  The server subscribes*)
(* after the fetch may have been answered.                                 *)
MissedChangesArePickedUp ==
  \A p \in Pages : Settled(p) /\ page[p].breaks = 0 /\ p \notin spoiled
                  => page[p].shown = Upcoming(page[p].viewer)
=============================================================================
