---------------------------- MODULE KnowledgeBase ----------------------------
(***************************************************************************)
(* The documents the assistant searches: rows in the database, written in  *)
(* the transaction of a request, and their chunks in a vector table that   *)
(* another connection writes batch by batch, outside that transaction.     *)
(* Uploads, deletions and re-indexing of the back office interleave, fail  *)
(* and die with their process, which may come back with another embedding  *)
(* model.  A document is named by the request that uploads it.  Extraction *)
(* succeeds, every document splits into Batches batches, and the models    *)
(* have one vector width (otherwise adding fails, which KbFail covers).    *)
(***************************************************************************)
EXTENDS Naturals, FiniteSets, TLC, Absence

CONSTANTS
  KbReqs,      (* HTTP requests of administrators                          *)
  Contents,    (* the bytes of files                                       *)
  Models,      (* embedding models the configuration may name              *)
  Batches      (* batches of chunks a document's text is embedded in       *)

VARIABLES
  documents,   (* id -> the committed row, or None                         *)
  chunk,       (* <<id, batch>> -> the model of the vectors, or None       *)
  table,       (* the vector table exists                                  *)
  model,       (* the model this start of the process is configured with   *)
  kbReqs,      (* request -> its phase and local state                     *)
  damaged      (* a write failed after it touched the index, or one ran    *)
               (* during a re-index, and no re-index ran alone since       *)

kbVars == <<documents, chunk, table, model, kbReqs, damaged>>

(* kb_document.                                                            *)
DocumentRow == [content : Contents, count : 0..Batches, model : Models]

ASSUME KbAssumption ==
  /\ Batches \in Nat \ {0}
  /\ None \notin DocumentRow \cup Models \cup {"UPLOAD", "DELETE", "REINDEX"}

Chunks == KbReqs \X (1..Batches)

KbReq == [phase : {"idle", "found", "added", "loaded", "removed", "reset", "listed",
                   "indexing", "committed", "failed"},
          op : {"UPLOAD", "DELETE", "REINDEX", None}, doc : KbReqs \cup {None},
          row : DocumentRow \cup {None}, written : 0..Batches,
          todo : SUBSET KbReqs, updated : SUBSET KbReqs, alone : BOOLEAN]

KbBlank == [phase |-> "idle", op |-> None, doc |-> None, row |-> None, written |-> 0,
            todo |-> {}, updated |-> {}, alone |-> FALSE]

Stored == {d \in KbReqs : documents[d] # None}

(* A request that has reached the index and not committed.                 *)
Touching(q) ==
  \/ kbReqs[q].op = "UPLOAD"  /\ kbReqs[q].phase \in {"added", "indexing"}
  \/ kbReqs[q].op = "DELETE"  /\ kbReqs[q].phase = "removed"
  \/ kbReqs[q].op = "REINDEX" /\ kbReqs[q].phase \in {"reset", "listed", "indexing"}

Reindexing(q) == kbReqs[q].op = "REINDEX" /\ Touching(q)

(* q becomes one that touches the index: nobody re-indexes alone any more. *)
Disturbed(q, r) ==
  [p \in KbReqs |-> IF p = q THEN r
                    ELSE IF Reindexing(p) THEN [kbReqs[p] EXCEPT !.alone = FALSE]
                    ELSE kbReqs[p]]

----------------------------------------------------------------------------
(* The store and the index.                                                *)

FindByContent(c) == {d \in Stored : documents[d].content = c}

(* uq_kb_document_content_sha256, for the rows that are committed.         *)
ContentIsFree(c) == FindByContent(c) = {}

(* An insert of equal content waits until the other insert ends.           *)
Inserting(q, c) ==
  /\ kbReqs[q].op = "UPLOAD" /\ kbReqs[q].phase \in {"added", "indexing"}
  /\ kbReqs[q].row.content = c

(* Mutant: the number of chunks stays zero.                                *)
NotCounted(row) == [row EXCEPT !.model = model]

(* update_index_state().                                                   *)
IndexState(row) == [row EXCEPT !.count = Batches, !.model = model]

(* A re-index holds the rows it updated until it commits.                  *)
RowIsFree(q, d) == \A p \in KbReqs \ {q} : Reindexing(p) => d \notin kbReqs[p].updated

(* Mutant: a re-index is due when no document is up to date.               *)
AllStale == Stored # {} /\ \A d \in Stored : documents[d].model # model

NeedsReindex == \E d \in Stored : documents[d].model # model

(* The chunks a query is compared with: the assistant asks the index as it *)
(* stands (TriageService.reply()),                                         *)
IndexSearch == IF table THEN {c \in Chunks : chunk[c] # None} ELSE {}

(* and the back office only when no re-index is due.                       *)
Search == IF NeedsReindex THEN {} ELSE IndexSearch

----------------------------------------------------------------------------
KbInit ==
  /\ documents = [d \in KbReqs |-> None]
  /\ chunk = [c \in Chunks |-> None]
  /\ table = FALSE /\ model \in Models
  /\ kbReqs = [q \in KbReqs |-> KbBlank]
  /\ damaged = FALSE

(* upload() up to the insert: equal content is refused.                    *)
UploadFind(q, c) ==
  /\ kbReqs[q].phase = "idle"
  /\ FindByContent(c) = {}
  /\ kbReqs' = [kbReqs EXCEPT ![q] =
       [KbBlank EXCEPT !.phase = "found", !.op = "UPLOAD", !.doc = q,
                       !.row = [content |-> c, count |-> 0, model |-> model]]]
  /\ UNCHANGED <<documents, chunk, table, model, damaged>>

(* The flush of add(), once no other insert of the content is pending.     *)
UploadAdd(q) ==
  /\ kbReqs[q].phase = "found"
  /\ \A p \in KbReqs \ {q} : ~Inserting(p, kbReqs[q].row.content)
  /\ ContentIsFree(kbReqs[q].row.content)
  /\ kbReqs' = Disturbed(q, [kbReqs[q] EXCEPT !.phase = "added"])
  /\ damaged' = (damaged \/ \E p \in KbReqs : Reindexing(p))
  /\ UNCHANGED <<documents, chunk, table, model>>

(* _get_store(): creates the table where it is missing.                    *)
OpenStore(q) ==
  /\ kbReqs[q].op = "UPLOAD" /\ kbReqs[q].phase = "added"
  /\ table' = TRUE
  /\ kbReqs' = [kbReqs EXCEPT ![q].phase = "indexing"]
  /\ UNCHANGED <<documents, chunk, model, damaged>>

(* One batch of index_document(), committed by itself.                     *)
AddBatch(q) ==
  LET r == kbReqs[q] IN
  /\ r.phase = "indexing" /\ r.doc # None /\ r.written < Batches
  /\ table
  /\ chunk' = [chunk EXCEPT ![<<r.doc, r.written + 1>>] = model]
  /\ kbReqs' = [kbReqs EXCEPT ![q].written = @ + 1]
  /\ UNCHANGED <<documents, table, model, damaged>>

UploadCommit(q) ==
  LET r == kbReqs[q] IN
  /\ r.op = "UPLOAD" /\ r.phase = "indexing" /\ r.written = Batches
  /\ documents' = [documents EXCEPT ![q] = IndexState(r.row)]
  /\ kbReqs' = [kbReqs EXCEPT ![q] = [KbBlank EXCEPT !.phase = "committed"]]
  /\ UNCHANGED <<chunk, table, model, damaged>>

----------------------------------------------------------------------------
(* delete().                                                               *)

DeleteLoad(q, d) ==
  /\ kbReqs[q].phase = "idle" /\ d \in Stored
  /\ kbReqs' = [kbReqs EXCEPT ![q] =
       [KbBlank EXCEPT !.phase = "loaded", !.op = "DELETE", !.doc = d,
                       !.row = documents[d]]]
  /\ UNCHANGED <<documents, chunk, table, model, damaged>>

(* remove_document(): the chunks the loaded row counts, and their table    *)
(* where it is missing.                                                    *)
RemoveDocument(q) ==
  LET r == kbReqs[q] IN
  /\ r.op = "DELETE" /\ r.phase = "loaded"
  /\ chunk' = [c \in Chunks |-> IF c[1] = r.doc /\ c[2] <= r.row.count THEN None ELSE chunk[c]]
  /\ table' = (table \/ r.row.count > 0)
  /\ kbReqs' = Disturbed(q, [r EXCEPT !.phase = "removed"])
  /\ damaged' = (damaged \/ \E p \in KbReqs : Reindexing(p))
  /\ UNCHANGED <<documents, model>>

(* The row is read again and removed.                                      *)
DeleteCommit(q) ==
  LET r == kbReqs[q] IN
  /\ r.op = "DELETE" /\ r.phase = "removed"
  /\ r.doc \in Stored /\ RowIsFree(q, r.doc)
  /\ documents' = [documents EXCEPT ![r.doc] = None]
  /\ kbReqs' = [kbReqs EXCEPT ![q] = [KbBlank EXCEPT !.phase = "committed"]]
  /\ UNCHANGED <<chunk, table, model, damaged>>

----------------------------------------------------------------------------
(* reindex().                                                              *)

(* reset(): drops the table.                                               *)
Reset(q) ==
  LET alone == ~\E p \in KbReqs : Touching(p) IN
  /\ kbReqs[q].phase = "idle"
  /\ chunk' = [c \in Chunks |-> None] /\ table' = FALSE
  /\ kbReqs' = Disturbed(q, [KbBlank EXCEPT !.phase = "reset", !.op = "REINDEX",
                                            !.alone = alone])
  /\ damaged' = (damaged \/ ~alone)
  /\ UNCHANGED <<documents, model>>

ListAll(q) ==
  /\ kbReqs[q].phase = "reset"
  /\ kbReqs' = [kbReqs EXCEPT ![q].phase = "listed", ![q].todo = Stored]
  /\ UNCHANGED <<documents, chunk, table, model, damaged>>

(* The next document of the list: its bytes are read, the store is opened. *)
GetContent(q, d) ==
  /\ kbReqs[q].phase = "listed" /\ d \in kbReqs[q].todo \cap Stored
  /\ table' = TRUE
  /\ kbReqs' = [kbReqs EXCEPT ![q].phase = "indexing", ![q].doc = d, ![q].written = 0]
  /\ UNCHANGED <<documents, chunk, model, damaged>>

(* Its row is read again and updated; the row stays locked.                *)
UpdateIndexState(q) ==
  LET r == kbReqs[q] IN
  /\ r.op = "REINDEX" /\ r.phase = "indexing" /\ r.written = Batches
  /\ r.doc \in Stored /\ RowIsFree(q, r.doc)
  /\ kbReqs' = [kbReqs EXCEPT ![q] =
       [r EXCEPT !.phase = "listed", !.todo = @ \ {r.doc}, !.updated = @ \cup {r.doc},
                 !.doc = None]]
  /\ UNCHANGED <<documents, chunk, table, model, damaged>>

ReindexCommit(q) ==
  LET r == kbReqs[q] IN
  /\ r.phase = "listed" /\ r.todo = {}
  /\ documents' = [d \in KbReqs |-> IF d \in r.updated THEN IndexState(documents[d])
                                    ELSE documents[d]]
  /\ kbReqs' = [kbReqs EXCEPT ![q] = [KbBlank EXCEPT !.phase = "committed"]]
  /\ damaged' = (damaged /\ ~r.alone)
  /\ UNCHANGED <<chunk, table, model>>

----------------------------------------------------------------------------
(* A request that rolls its rows back after it changed the index.          *)
LeavesDamage(q) ==
  /\ Touching(q)
  /\ kbReqs[q].op = "UPLOAD" => kbReqs[q].written > 0

(* A refusal, an error of the embedding model, of either connection.       *)
KbFail(q) ==
  /\ kbReqs[q].phase \notin {"idle", "committed", "failed"}
  /\ kbReqs' = [kbReqs EXCEPT ![q] = [KbBlank EXCEPT !.phase = "failed"]]
  /\ damaged' = (damaged \/ LeavesDamage(q))
  /\ UNCHANGED <<documents, chunk, table, model>>

(* The process ends and starts with the model m.                           *)
Restart(m) ==
  /\ kbReqs' = [q \in KbReqs |-> IF kbReqs[q].phase \in {"idle", "committed", "failed"}
                                 THEN kbReqs[q] ELSE [KbBlank EXCEPT !.phase = "failed"]]
  /\ damaged' = (damaged \/ \E q \in KbReqs : LeavesDamage(q))
  /\ model' = m
  /\ UNCHANGED <<documents, chunk, table>>

KbRoute(q) ==
  \/ \E c \in Contents : UploadFind(q, c)
  \/ UploadAdd(q) \/ OpenStore(q) \/ AddBatch(q) \/ UploadCommit(q)
  \/ \E d \in KbReqs : DeleteLoad(q, d)
  \/ RemoveDocument(q) \/ DeleteCommit(q)
  \/ Reset(q) \/ ListAll(q) \/ UpdateIndexState(q) \/ ReindexCommit(q)
  \/ \E d \in KbReqs : GetContent(q, d)
  \/ KbFail(q)

KbNext == (\E q \in KbReqs : KbRoute(q)) \/ (\E m \in Models : Restart(m))

KbSpec == KbInit /\ [][KbNext]_kbVars

----------------------------------------------------------------------------
(* Every variable keeps its type; a row counts the chunks written for it.  *)
KbTypeOK ==
  /\ documents \in [KbReqs -> DocumentRow \cup {None}]
  /\ chunk \in [Chunks -> Models \cup {None}]
  /\ table \in BOOLEAN /\ model \in Models /\ damaged \in BOOLEAN
  /\ \A q \in KbReqs : kbReqs[q] \in KbReq

(* Two uploads of the same bytes, both past the check for them, store one  *)
(* document (KnowledgeBaseService.upload(), content_sha256).               *)
OneDocumentPerContent ==
  \A d, e \in Stored : documents[d].content = documents[e].content => d = e

(* When nothing touches the index, it holds the chunks of the stored       *)
(* documents and no others, unless a write failed half way or ran during a *)
(* re-index; a re-index that ran alone restores this                       *)
(* (KnowledgeBaseService, upload(), delete(), reindex()).                  *)
IndexMatchesStore ==
  ~damaged /\ (\A q \in KbReqs : ~Touching(q))
    => \A c \in Chunks : chunk[c] # None <=> c[1] \in Stored

(* A search of the back office compares the query only with vectors of the *)
(* model it was embedded with, and one of the assistant, which does not    *)
(* ask, meets others only while needs_reindex() says so: through changes   *)
(* of the configuration and re-indexes that were interrupted.  A failed    *)
(* re-index that is followed by a change back to the old model is not      *)
(* noticed.                                                                *)
ForeignVectorsAreNoticed ==
  ~damaged => /\ \A c \in Search : chunk[c] = model
              /\ \A c \in IndexSearch : chunk[c] # model => NeedsReindex

----------------------------------------------------------------------------
(* What the repository says and the code does not keep.                    *)

(* KnowledgeBasePanel.tsx:186: "The embedding model changed - search is    *)
(* paused until documents are re-indexed".  The assistant's is not:        *)
(* TriageService searches the index without asking needs_reindex().        *)
SearchIsPaused == ~damaged => \A c \in IndexSearch : chunk[c] = model
=============================================================================
