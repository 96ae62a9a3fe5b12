------------------------------- MODULE Triage -------------------------------
(***************************************************************************)
(* The triage assistant: the conversations of one customer, the turns of   *)
(* their transcripts, the photos sent with them and the service calls they *)
(* escalate to.  Every request is one transaction at READ COMMITTED, but a *)
(* reply loads the conversation, streams the model's answer for seconds    *)
(* and only then re-reads the row and writes the columns in which its copy *)
(* and the re-read row differ.  The bytes of a photo are in an object      *)
(* store that no transaction covers.  The columns equipment and            *)
(* triage_declined are saved like the others and guard nothing; they are   *)
(* left out.                                                               *)
(***************************************************************************)
EXTENDS Integers, Sequences, FiniteSets, Absence

CONSTANTS
  Reqs,        (* HTTP requests; a request's id also names its turn and    *)
               (* the service call it opens                                *)
  Convs,       (* conversation ids                                         *)
  Photos,      (* photo ids, which are attachment ids too                  *)
  MaxTurns,    (* MAX_CUSTOMER_TURNS                                       *)
  MaxPhotos    (* MAX_PHOTOS_PER_CONVERSATION                              *)

Statuses == {"ACTIVE", "SOLVED", "ESCALATED", "ABANDONED"}

(* What the model's answer ends with.                                      *)
Markers == {"NONE", "SOLVED", "ESCALATE", "CLOSED"}

(* assist_conversation; idle says that updated_at is older than the TTL.   *)
Row == [status : Statuses, call : Reqs \cup {None}, idle : BOOLEAN]

(* assist_photo; turn is the message it is bound to.                       *)
PhotoRow == [conv : Convs, turn : Reqs \cup {None}]

ASSUME TriageAssumption ==
  /\ MaxTurns \in Nat \ {0}
  /\ MaxPhotos \in Nat
  /\ None \notin Reqs \cup Convs \cup Row \cup PhotoRow \cup {"REPLY"}
  /\ \A P \in SUBSET Photos : P # None

VARIABLES
  convs,       (* conversation -> its committed row                        *)
  turns,       (* conversation -> its turns; each is a customer message    *)
               (* and the answer to it                                     *)
  photos,      (* photo -> its committed row                               *)
  calls,       (* request -> attachments of the service call it opened     *)
  objects,     (* photos whose bytes are in the object store               *)
  reqs,        (* request -> its phase and its local state                 *)
  overlapped,  (* conversations of which two requests overlapped (history) *)
  botched      (* photos whose detach died half way (history)              *)

tables == <<convs, turns, photos, calls>>
triageVars == <<convs, turns, photos, calls, objects, reqs, overlapped, botched>>

Req == [phase : {"idle", "looked", "loaded", "mutated", "reread", "checked", "put",
                 "committed", "done", "failed"},
        op : {"START", "REPLY", "END", "ATTACH", "DETACH", None},
        conv : Convs \cup {None}, copy : Row \cup {None}, basis : Row \cup {None},
        seen : Seq(Reqs), sent : SUBSET Photos, with : SUBSET Photos,
        marker : Markers, staged : SUBSET Photos]

Blank == [phase |-> "idle", op |-> None, conv |-> None, copy |-> None, basis |-> None,
          seen |-> <<>>, sent |-> {}, with |-> {}, marker |-> "NONE", staged |-> {}]

----------------------------------------------------------------------------
(* The conversation and its store.                                         *)

IsOpen(row) == row.status = "ACTIVE"

IsExpired(row) == IsOpen(row) /\ row.idle

NewConversation == [status |-> "ACTIVE", call |-> None, idle |-> FALSE]

Appended(row) == [row EXCEPT !.idle = FALSE]

Closed(row, status) == [row EXCEPT !.status = status, !.idle = FALSE]

MarkEscalated(row, call) == [Closed(row, "ESCALATED") EXCEPT !.call = call]

Column(new, read, current) == IF new # read THEN new ELSE current

(* save(): the columns that differ from the re-read row.  updated_at is    *)
(* never equal, so the row is always written, and locked until the commit. *)
Merged(copy, basis, row) ==
  [status |-> Column(copy.status, basis.status, row.status),
   call   |-> Column(copy.call, basis.call, row.call),
   idle   |-> FALSE]

(* Mutant: the partial unique index is missing.                            *)
IndexMissing(table) == TRUE

(* uq_assist_conversation_one_active_per_customer.                         *)
IndexAllows(table) ==
  \A c, d \in Convs : /\ table[c] # None /\ IsOpen(table[c])
                      /\ table[d] # None /\ IsOpen(table[d])
                      => c = d

FindActive == {c \in Convs : convs[c] # None /\ IsOpen(convs[c])}

(* Mutant: the whole transcript is written again.                          *)
AppendAll(stored, seen, q) == stored \o Append(seen, q)

(* The messages past the number stored are inserted.  The turn is the last *)
(* of the loaded transcript's, so it is past that number only when nothing *)
(* was stored meanwhile; otherwise nothing is inserted and nothing raises. *)
AppendMessages(stored, seen, q) ==
  IF Len(stored) = Len(seen) THEN Append(stored, q) ELSE stored

----------------------------------------------------------------------------
(* The photo rows and the object store.                                    *)

PhotosOf(c) == {p \in Photos : photos[p] # None /\ photos[p].conv = c}

ListUnbound(c) == {p \in PhotosOf(c) : photos[p].turn = None}

(* The photos of the messages of a loaded transcript.                      *)
SentPhotos(c) == PhotosOf(c) \ ListUnbound(c)

(* The foreign key to assist_message: a photo row that is still there can  *)
(* be bound only to a turn that was stored.                                *)
BindAllowed(P, stored, q) ==
  (\E i \in DOMAIN stored : stored[i] = q) \/ \A p \in P : photos[p] = None

Bind(P, q) ==
  [p \in Photos |-> IF p \in P /\ photos[p] # None
                    THEN [photos[p] EXCEPT !.turn = q] ELSE photos[p]]

DeleteUnbound(table, c) ==
  [p \in Photos |-> IF table[p] # None /\ table[p].conv = c /\ table[p].turn = None
                    THEN None ELSE table[p]]

(* A new uuid.                                                             *)
FreshPhoto(p) ==
  /\ photos[p] = None
  /\ p \notin objects
  /\ \A q \in Reqs : /\ p \notin reqs[q].sent \cup reqs[q].with \cup reqs[q].staged
                     /\ calls[q] # None => p \notin calls[q]

(* The primary key of service_call_attachment.                             *)
AttachmentsAllowed(P) == \A q \in Reqs : calls[q] # None => calls[q] \cap P = {}

----------------------------------------------------------------------------
(* Requests.                                                               *)

(* The customer may have a conversation open already.                      *)
ConvInit ==
  /\ \E C \in {{}} \cup {{c} : c \in Convs} :
       convs = [c \in Convs |-> IF c \in C THEN NewConversation ELSE None]
  /\ turns = [c \in Convs |-> <<>>]

PhotoInit ==
  /\ photos = [p \in Photos |-> None]
  /\ calls = [q \in Reqs |-> None]
  /\ objects = {}

TriageInit ==
  /\ ConvInit
  /\ PhotoInit
  /\ reqs = [q \in Reqs |-> Blank]
  /\ overlapped = {}
  /\ botched = {}

Underway(q) == reqs[q].phase \notin {"idle", "committed", "done", "failed"}

(* q commits while another request of the conversation is under way.       *)
Overlap(q, c) ==
  overlapped' = IF \E u \in Reqs \ {q} : Underway(u) /\ reqs[u].conv = c
                THEN overlapped \cup {c} ELSE overlapped

Load(q, phase, op, c, copy) ==
  /\ reqs[q].phase = "idle"
  /\ reqs' = [reqs EXCEPT ![q] =
       [Blank EXCEPT !.phase = phase, !.op = op, !.conv = c, !.copy = copy,
                     !.seen = turns[c], !.sent = SentPhotos(c)]]
  /\ UNCHANGED <<tables, objects, overlapped, botched>>

(* A day passes without a message.                                         *)
Idle(c) ==
  /\ convs[c] # None
  /\ IsOpen(convs[c])
  /\ ~convs[c].idle
  /\ convs' = [convs EXCEPT ![c].idle = TRUE]
  /\ UNCHANGED <<turns, photos, calls, objects, reqs, overlapped, botched>>

(* start(): no conversation is open, or the open one has expired.  One     *)
(* that is neither is returned as it is.                                   *)
StartLook(q) ==
  /\ reqs[q].phase = "idle"
  /\ FindActive = {}
  /\ reqs' = [reqs EXCEPT ![q] = [Blank EXCEPT !.phase = "looked", !.op = "START"]]
  /\ UNCHANGED <<tables, objects, overlapped, botched>>

StartExpired(q, c) ==
  /\ c \in FindActive
  /\ IsExpired(convs[c])
  /\ Load(q, "mutated", "START", c, Closed(convs[c], "ABANDONED"))

(* reply(): the conversation is open and the photos named are unsent.      *)
ReplyLoad(q, c, P) ==
  /\ c \in FindActive
  /\ P \subseteq ListUnbound(c)
  /\ reqs[q].phase = "idle"
  /\ reqs' = [reqs EXCEPT ![q] =
       [Blank EXCEPT !.phase = "loaded", !.op = "REPLY", !.conv = c, !.copy = convs[c],
                     !.seen = turns[c], !.sent = SentPhotos(c), !.with = P]]
  /\ UNCHANGED <<tables, objects, overlapped, botched>>

EndLoad(q, c) ==
  /\ c \in FindActive
  /\ Load(q, "mutated", "END", c, Closed(convs[c], "ABANDONED"))

(* Mutant: the turn that reaches the cap is answered like any other.       *)
AtCapOffByOne(q) == Len(reqs[q].seen) >= MaxTurns

AtCap(q) == Len(reqs[q].seen) + 1 >= MaxTurns

(* Mutant: the conversation does not keep the service call's id.           *)
RecordedUnnamed(row, marker, q) ==
  CASE marker = "SOLVED"   -> Closed(row, "SOLVED")
    [] marker = "CLOSED"   -> Closed(row, "ABANDONED")
    [] marker = "ESCALATE" -> Closed(row, "ESCALATED")
    [] OTHER               -> Appended(row)

(* _record_answer on the copy: the turn, then its ending.                  *)
Recorded(row, marker, q) ==
  CASE marker = "SOLVED"   -> Closed(row, "SOLVED")
    [] marker = "CLOSED"   -> Closed(row, "ABANDONED")
    [] marker = "ESCALATE" -> MarkEscalated(row, q)
    [] OTHER               -> Appended(row)

(* The answer is streamed to its end.  The model is sent the preview of    *)
(* every photo of the exchange; a missing object raises.  At the cap it is *)
(* not asked and the turn escalates.                                       *)
Answer(q, marker) ==
  /\ reqs[q].phase = "loaded"
  /\ IF AtCap(q) THEN marker = "ESCALATE"
                 ELSE reqs[q].sent \cup reqs[q].with \subseteq objects
  /\ reqs' = [reqs EXCEPT ![q] =
       [reqs[q] EXCEPT !.phase = "mutated", !.marker = marker,
                       !.copy = Recorded(reqs[q].copy, marker, q)]]
  /\ UNCHANGED <<tables, objects, overlapped, botched>>

SaveReread(q) ==
  /\ reqs[q].phase = "mutated"
  /\ reqs' = [reqs EXCEPT ![q] =
       [reqs[q] EXCEPT !.phase = "reread", !.basis = convs[reqs[q].conv]]]
  /\ UNCHANGED <<tables, objects, overlapped, botched>>

(* What is left of a request once it is over: of a turn, its conversation. *)
Settled(q, phase) ==
  IF reqs[q].op = "REPLY" /\ phase # "failed"
  THEN [Blank EXCEPT !.phase = phase, !.op = "REPLY", !.conv = reqs[q].conv]
  ELSE [Blank EXCEPT !.phase = phase]

Saved(q) ==
  LET r == reqs[q] IN
  [convs EXCEPT ![r.conv] = Merged(r.copy, r.basis, convs[r.conv])]

(* _discard_photos: an ending without a technician keeps no photo.         *)
DiscardPhotos(q) == reqs[q].sent \cup reqs[q].with \cup ListUnbound(reqs[q].conv)

(* _discard_unbound: what was never sent does not follow an escalation.    *)
DiscardUnbound(q) == ListUnbound(reqs[q].conv) \ reqs[q].with

(* The transaction commits; the objects it discarded are still there.      *)
Committed(q, staged) ==
  /\ reqs' = [reqs EXCEPT ![q] =
       IF staged = {} THEN Settled(q, "done")
       ELSE [Settled(q, "committed") EXCEPT !.staged = staged]]
  /\ Overlap(q, reqs[q].conv)
  /\ UNCHANGED <<objects, botched>>

(* A turn whose answer leaves the conversation open.                       *)
TurnCommit(q) ==
  LET r == reqs[q]
      stored == AppendMessages(turns[r.conv], r.seen, q)
  IN
  /\ r.phase = "reread"
  /\ r.op = "REPLY"
  /\ r.marker = "NONE"
  /\ IndexAllows(Saved(q))
  /\ BindAllowed(r.with, stored, q)
  /\ convs' = Saved(q)
  /\ turns' = [turns EXCEPT ![r.conv] = stored]
  /\ photos' = Bind(r.with, q)
  /\ Committed(q, {})
  /\ UNCHANGED calls

(* A turn that ends in SOLVED or CLOSED discards every photo.              *)
ClosingCommit(q) ==
  LET r == reqs[q]
      stored == AppendMessages(turns[r.conv], r.seen, q)
  IN
  /\ r.phase = "reread"
  /\ r.op = "REPLY"
  /\ r.marker \in {"SOLVED", "CLOSED"}
  /\ IndexAllows(Saved(q))
  /\ BindAllowed(r.with, stored, q)
  /\ convs' = Saved(q)
  /\ turns' = [turns EXCEPT ![r.conv] = stored]
  /\ photos' = DeleteUnbound(Bind(r.with, q), r.conv)
  /\ Committed(q, DiscardPhotos(q))
  /\ UNCHANGED calls

(* A turn that escalates opens a service call with the photos sent, and    *)
(* discards those that were not.                                           *)
EscalateCommit(q) ==
  LET r == reqs[q]
      stored == AppendMessages(turns[r.conv], r.seen, q)
  IN
  /\ r.phase = "reread"
  /\ r.op = "REPLY"
  /\ r.marker = "ESCALATE"
  /\ IndexAllows(Saved(q))
  /\ BindAllowed(r.with, stored, q)
  /\ AttachmentsAllowed(r.sent \cup r.with)
  /\ convs' = Saved(q)
  /\ turns' = [turns EXCEPT ![r.conv] = stored]
  /\ photos' = DeleteUnbound(Bind(r.with, q), r.conv)
  /\ calls' = [calls EXCEPT ![q] = r.sent \cup r.with]
  /\ Committed(q, DiscardUnbound(q))

EndCommit(q) ==
  LET c == reqs[q].conv IN
  /\ reqs[q].phase = "reread"
  /\ reqs[q].op = "END"
  /\ convs' = Saved(q)
  /\ photos' = DeleteUnbound(photos, c)
  /\ Committed(q, DiscardPhotos(q))
  /\ UNCHANGED <<turns, calls>>

(* The insert, in a savepoint.  The index refuses it when another start    *)
(* won, and the loser joins that conversation.                             *)
Opened(table, n) ==
  IF IndexAllows([table EXCEPT ![n] = NewConversation])
  THEN [table EXCEPT ![n] = NewConversation] ELSE table

StartCommit(q, n) ==
  /\ reqs[q].phase = "looked"
  /\ convs[n] = None
  /\ convs' = Opened(convs, n)
  /\ reqs' = [reqs EXCEPT ![q] = Settled(q, "done")]
  /\ UNCHANGED <<turns, photos, calls, objects, overlapped, botched>>

(* The expired conversation is retired and a new one opened.               *)
RetireCommit(q, n) ==
  LET c == reqs[q].conv IN
  /\ reqs[q].phase = "reread"
  /\ reqs[q].op = "START"
  /\ convs[n] = None
  /\ convs' = Opened(Saved(q), n)
  /\ photos' = DeleteUnbound(photos, c)
  /\ Committed(q, DiscardPhotos(q))
  /\ UNCHANGED <<turns, calls>>

(* remove_discarded_objects.                                               *)
RemoveDiscarded(q) ==
  /\ reqs[q].phase = "committed"
  /\ objects' = objects \ reqs[q].staged
  /\ reqs' = [reqs EXCEPT ![q] = Settled(q, "done")]
  /\ UNCHANGED <<tables, overlapped, botched>>

(* attach(): the guards and the two objects, then the row with its commit. *)
AttachPut(q, c, p) ==
  /\ reqs[q].phase = "idle"
  /\ c \in FindActive
  /\ Cardinality(PhotosOf(c)) < MaxPhotos
  /\ FreshPhoto(p)
  /\ objects' = objects \cup {p}
  /\ reqs' = [reqs EXCEPT ![q] = [Blank EXCEPT !.phase = "put", !.op = "ATTACH",
                                               !.conv = c, !.with = {p}]]
  /\ UNCHANGED <<tables, overlapped, botched>>

AttachCommit(q) ==
  LET r == reqs[q] IN
  /\ r.phase = "put"
  /\ r.op = "ATTACH"
  /\ photos' = [p \in Photos |-> IF p \in r.with THEN [conv |-> r.conv, turn |-> None]
                                 ELSE photos[p]]
  /\ reqs' = [reqs EXCEPT ![q] = Settled(q, "done")]
  /\ Overlap(q, r.conv)
  /\ UNCHANGED <<convs, turns, calls, objects, botched>>

(* detach(): the objects go first, then the row with its commit.           *)
DetachLoad(q, c, p) ==
  /\ reqs[q].phase = "idle"
  /\ c \in FindActive
  /\ p \in ListUnbound(c)
  /\ reqs' = [reqs EXCEPT ![q] = [Blank EXCEPT !.phase = "checked", !.op = "DETACH",
                                               !.conv = c, !.with = {p}]]
  /\ UNCHANGED <<tables, objects, overlapped, botched>>

DetachRemove(q) ==
  /\ reqs[q].phase = "checked"
  /\ reqs[q].op = "DETACH"
  /\ objects' = objects \ reqs[q].with
  /\ reqs' = [reqs EXCEPT ![q].phase = "put"]
  /\ UNCHANGED <<tables, overlapped, botched>>

DetachCommit(q) ==
  LET r == reqs[q] IN
  /\ r.phase = "put"
  /\ r.op = "DETACH"
  /\ photos' = [p \in Photos |-> IF p \in r.with THEN None ELSE photos[p]]
  /\ reqs' = [reqs EXCEPT ![q] = Settled(q, "done")]
  /\ Overlap(q, r.conv)
  /\ UNCHANGED <<convs, turns, calls, objects, botched>>

(* The customer walks away from the stream, a statement raises or the      *)
(* process dies: what was not committed is rolled back, objects are not.   *)
Fail(q) ==
  /\ Underway(q) \/ reqs[q].phase = "committed"
  /\ reqs' = [reqs EXCEPT ![q] = Settled(q, IF Underway(q) THEN "failed" ELSE "done")]
  /\ botched' = IF reqs[q].phase = "put" /\ reqs[q].op = "DETACH"
                THEN botched \cup reqs[q].with ELSE botched
  /\ UNCHANGED <<tables, objects, overlapped>>

Handle(q) ==
  \/ StartLook(q)
  \/ \E c \in Convs : StartExpired(q, c) \/ EndLoad(q, c)
  \/ \E c \in Convs : \E P \in SUBSET Photos : ReplyLoad(q, c, P)
  \/ \E marker \in Markers : Answer(q, marker)
  \/ SaveReread(q)
  \/ TurnCommit(q) \/ ClosingCommit(q) \/ EscalateCommit(q) \/ EndCommit(q)
  \/ \E n \in Convs : StartCommit(q, n) \/ RetireCommit(q, n)
  \/ RemoveDiscarded(q)
  \/ \E c \in Convs, p \in Photos : AttachPut(q, c, p) \/ DetachLoad(q, c, p)
  \/ AttachCommit(q) \/ DetachRemove(q) \/ DetachCommit(q)
  \/ Fail(q)

TriageNext ==
  \/ \E c \in Convs : Idle(c)
  \/ \E q \in Reqs : Handle(q)

TriageSpec == TriageInit /\ [][TriageNext]_triageVars

----------------------------------------------------------------------------
(* Properties.                                                             *)

(* Every variable keeps its type.                                          *)
TriageTypeOK ==
  /\ convs   \in [Convs -> Row \cup {None}]
  /\ turns   \in [Convs -> Seq(Reqs)]
  /\ photos  \in [Photos -> PhotoRow \cup {None}]
  /\ calls   \in [Reqs -> (SUBSET Photos) \cup {None}]
  /\ objects \subseteq Photos
  /\ reqs    \in [Reqs -> Req]
  /\ overlapped \subseteq Convs
  /\ botched \subseteq Photos

(* A customer has one open conversation at most: starts race, an expired   *)
(* one is retired beside a reply to it, and a late save reopens a closed   *)
(* conversation by writing back the status it loaded.                      *)
OneOpenConversation == Cardinality(FindActive) <= 1

StoredOnce ==
  \A c, d \in Convs : \A i \in DOMAIN turns[c], j \in DOMAIN turns[d] :
    turns[c][i] = turns[d][j] => c = d /\ i = j

Answered(q) == reqs[q].op = "REPLY" /\ reqs[q].phase \in {"committed", "done"}

StoredTurn(q) == \E i \in DOMAIN turns[reqs[q].conv] : turns[reqs[q].conv][i] = q

(* A turn that was answered and committed is in the transcript once: twice *)
(* never, though turns of one conversation are answered at once and each   *)
(* appends at the position it counts, and not at all only when requests of *)
(* its conversation overlapped (_record_answer(), save()).                 *)
TurnsAreWhole ==
  /\ StoredOnce
  /\ \A q \in Reqs : Answered(q) => StoredTurn(q) \/ reqs[q].conv \in overlapped

(* A service call of triage and the conversation that names it are         *)
(* committed by one step: whoever saves the conversation meanwhile, a call *)
(* that is not there yet is named exactly by the step that opens it.       *)
EscalationIsAtomic ==
  [][\A q \in Reqs : calls[q] = None =>
       (calls'[q] # None <=> \E c \in Convs : convs'[c] # None /\ convs'[c].call = q)]_triageVars

InUse(p, c) == photos[p] # None /\ photos[p].conv = c /\ photos[p].turn # None

(* The bytes outlive their use: a sent photo of an open conversation and   *)
(* every attachment of a service call are in the object store, wherever a  *)
(* request fails, unless two requests of the conversation overlapped or    *)
(* the photo's detach died between the store and the row.                  *)
PhotosOutliveTheirUse ==
  /\ \A c \in Convs \ overlapped, p \in Photos \ botched :
       convs[c] # None /\ IsOpen(convs[c]) /\ InUse(p, c) => p \in objects
  /\ \A q \in Reqs : calls[q] # None /\ reqs[q].conv \notin overlapped =>
       calls[q] \subseteq objects \cup botched

(* The cap bounds every transcript whose requests did not overlap.         *)
CappedUnlessOverlapped ==
  \A c \in Convs \ overlapped : convs[c] # None /\ IsOpen(convs[c]) =>
    Len(turns[c]) < MaxTurns

----------------------------------------------------------------------------
(* What the repository says and the code does not keep.                    *)

(* orm.py: two turns racing to claim the same position fail loudly.  A     *)
(* turn that was answered and committed is in the transcript.              *)
AnsweredTurnsAreKept == \A q \in Reqs : Answered(q) => StoredTurn(q)

=============================================================================
