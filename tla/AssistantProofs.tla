-------------------------- MODULE AssistantProofs ---------------------------
(***************************************************************************)
(* Proofs about the parts of MCAssistant, for any number of requests,      *)
(* conversations, photos, turns and documents: their type invariants, that *)
(* a customer has one open conversation, that no transcript holds a turn   *)
(* twice or, unless requests overlapped, lacks one that was answered, that *)
(* a service call and the conversation that names it are committed         *)
(* together, that the cap bounds the transcripts whose requests did not    *)
(* overlap, that photos outlive their use, that equal bytes are one        *)
(* document, that the search index is of the stored documents and that     *)
(* vectors of another model in it are noticed.                             *)
(***************************************************************************)
EXTENDS MCAssistant, FiniteSetTheorems, TLAPS

----------------------------------------------------------------------------
(* The triage assistant.                                                   *)

(* The inductive invariant.                                                *)

HasConv(r) == r.phase \in {"loaded", "mutated", "reread", "checked", "put"}

Copying(r) == r.phase \in {"loaded", "mutated", "reread"}

(* What the ending of the turn says about the copy that will be saved.     *)
Ends(q) ==
  LET r == reqs[q] IN
  \/ /\ r.op = "REPLY" /\ r.phase = "loaded"
     /\ IsOpen(r.copy) /\ r.marker = "NONE"
  \/ /\ r.op = "REPLY" /\ r.phase # "loaded"
     /\ IsOpen(r.copy) <=> r.marker = "NONE"
     /\ r.marker = "ESCALATE" => r.copy.call = q
     /\ r.marker = "NONE" => Len(r.seen) + 1 < MaxTurns
  \/ /\ r.op \in {"START", "END"} /\ r.phase # "loaded"
     /\ r.copy.status = "ABANDONED" /\ r.marker = "NONE"

(* A request works on a stored conversation, which is still open unless    *)
(* another one overlapped, and so is its transcript as it was loaded; it   *)
(* names no service call but its own, and has left nothing in the tables   *)
(* before its commit; its turn is stored once it is answered.              *)
Local(q) ==
  LET r == reqs[q] IN
  /\ HasConv(r) => r.conv \in Convs /\ convs[r.conv] # None
  /\ Copying(r) =>
       /\ r.copy \in Row
       /\ r.conv \notin overlapped => IsOpen(convs[r.conv]) /\ turns[r.conv] = r.seen
       /\ \A p \in Reqs : r.copy.call = p /\ calls[p] = None => p = q /\ r.marker = "ESCALATE"
       /\ Ends(q)
  /\ r.phase = "reread" =>
       /\ r.basis \in Row
       /\ r.conv \notin overlapped => IsOpen(r.basis)
       /\ \A p \in Reqs : calls[p] = None => r.basis.call # p
  /\ calls[q] # None => r.phase \in {"committed", "done"}
  /\ \A c \in Convs : \A i \in DOMAIN turns[c] :
       turns[c][i] = q => r.phase \in {"committed", "done"}
  /\ r.phase = "looked" => r.op = "START"
  /\ Answered(q) => r.conv \in Convs /\ (StoredTurn(q) \/ r.conv \in overlapped)

(* The rows and transcripts themselves.                                    *)
Table(c) ==
  /\ convs[c] = None => turns[c] = <<>>
  /\ convs[c] # None => \A p \in Reqs : calls[p] = None => convs[c].call # p
  /\ c \notin overlapped /\ convs[c] # None /\ IsOpen(convs[c]) => Len(turns[c]) < MaxTurns

TriageIInv ==
  /\ TriageTypeOK
  /\ IndexAllows(convs)
  /\ StoredOnce
  /\ \A q \in Reqs : Local(q)
  /\ \A c \in Convs : Table(c)

----------------------------------------------------------------------------
(* Lemmas about the operators.                                             *)

(* A save leaves a row.                                                    *)
LEMMA MergedIsRow ==
  ASSUME NEW copy \in Row, NEW basis \in Row, NEW row \in Row
  PROVE  Merged(copy, basis, row) \in Row
<1>1. /\ Column(copy.status, basis.status, row.status) \in Statuses
      /\ Column(copy.call, basis.call, row.call) \in Reqs \cup {None}
  BY DEF Column, Row
<1> QED BY <1>1 DEF Merged, Row

(* A save never opens a conversation that its copy closes.                 *)
LEMMA MergedStaysClosed ==
  ASSUME NEW copy \in Row, NEW basis \in Row, NEW row \in Row,
         ~IsOpen(copy), IsOpen(Merged(copy, basis, row))
  PROVE  IsOpen(row) /\ ~IsOpen(basis)
BY DEF Merged, Column, IsOpen

(* The unique index is what keeps a customer's open conversations to one.  *)
LEMMA OneOpen ==
  ASSUME IndexAllows(convs)
  PROVE  OneOpenConversation
<1>1. CASE FindActive = {}
  BY <1>1, FS_EmptySet DEF OneOpenConversation
<1>2. CASE FindActive # {}
  <2>1. PICK c \in Convs : FindActive = {c}
    BY <1>2 DEF FindActive, IndexAllows
  <2> QED BY <2>1, FS_Singleton DEF OneOpenConversation
<1> QED BY <1>1, <1>2

----------------------------------------------------------------------------
(* Steps.                                                                  *)

(* A step that leaves the conversations alone and changes one request.     *)
LEMMA SideStep ==
  ASSUME TriageIInv, NEW q \in Reqs,
         UNCHANGED <<convs, turns, calls>>,
         overlapped \subseteq overlapped',
         \A u \in Reqs \ {q} : reqs'[u] = reqs[u],
         TriageTypeOK',
         Local(q)'
  PROVE  TriageIInv'
<1>1. ASSUME NEW u \in Reqs PROVE Local(u)'
  <2>1. CASE u = q
    BY <2>1
  <2>2. CASE u # q
    <3>1. reqs'[u] = reqs[u] /\ Local(u)
      BY <2>2 DEF TriageIInv
    <3> QED BY <3>1 DEF Local, HasConv, Copying, Ends, IsOpen, Answered, StoredTurn
  <2> QED BY <2>1, <2>2
<1>2. ASSUME NEW c \in Convs PROVE Table(c)'
  BY DEF TriageIInv, Table, IsOpen
<1>3. IndexAllows(convs)' /\ StoredOnce'
  BY DEF TriageIInv, IndexAllows, StoredOnce, IsOpen
<1> QED BY <1>1, <1>2, <1>3 DEF TriageIInv

(* A save under the lock of its row: the copy of q is merged into the row  *)
(* of its conversation, and the turn of q, if any, is stored with it.      *)
LEMMA CommitStep ==
  ASSUME TriageIInv, NEW q \in Reqs, NEW c \in Convs,
         reqs[q].phase = "reread", reqs[q].conv = c,
         convs'[c] = Merged(reqs[q].copy, reqs[q].basis, convs[c]),
         \A d \in Convs \ {c} : \/ convs'[d] = convs[d]
                                \/ convs[d] = None /\ convs'[d] = NewConversation,
         \/ turns'[c] = turns[c] /\ (reqs[q].op = "REPLY" => turns[c] # reqs[q].seen)
         \/ /\ reqs[q].op = "REPLY"
            /\ turns'[c] = Append(turns[c], q)
            /\ Len(turns[c]) = Len(reqs[q].seen),
         \A d \in Convs \ {c} : turns'[d] = turns[d],
         calls'[q] # None <=> reqs[q].marker = "ESCALATE",
         \A u \in Reqs \ {q} : calls'[u] = calls[u] /\ reqs'[u] = reqs[u],
         reqs'[q].phase \in {"committed", "done"},
         reqs'[q].op = "REPLY" => reqs[q].op = "REPLY" /\ reqs'[q].conv = c,
         Overlap(q, c),
         IndexAllows(convs'),
         TriageTypeOK'
  PROVE  TriageIInv'
<1> DEFINE r == reqs[q]
<1>1. /\ r.copy \in Row /\ r.basis \in Row /\ convs[c] # None
      /\ c \notin overlapped => IsOpen(convs[c]) /\ IsOpen(r.basis) /\ turns[c] = r.seen
      /\ \A p \in Reqs : r.copy.call = p /\ calls[p] = None => p = q /\ r.marker = "ESCALATE"
      /\ \A p \in Reqs : calls[p] = None => r.basis.call # p
      /\ Ends(q)
      /\ calls[q] = None
      /\ \A d \in Convs : \A i \in DOMAIN turns[d] : turns[d][i] # q
  BY DEF TriageIInv, Local, HasConv, Copying
<1>2. /\ turns \in [Convs -> Seq(Reqs)]
      /\ turns' \in [Convs -> Seq(Reqs)]
      /\ convs[c] \in Row /\ convs'[c] \in Row
      /\ None \notin Row /\ None \notin Reqs
      /\ MaxTurns \in Nat \ {0}
  <2>1. convs[c] \in Row
    BY <1>1 DEF TriageIInv, TriageTypeOK
  <2>2. convs'[c] \in Row
    BY <1>1, <2>1, MergedIsRow
  <2> QED BY <2>1, <2>2, TriageAssumption DEF TriageIInv, TriageTypeOK
<1>3. overlapped \subseteq overlapped'
  BY DEF Overlap
<1>4. NewConversation \in Row /\ NewConversation.call = None
  BY DEF NewConversation, Row, Statuses
<1>5. ASSUME NEW d \in Convs, NEW k \in DOMAIN turns'[d]
      PROVE  \/ k \in DOMAIN turns[d] /\ turns'[d][k] = turns[d][k] /\ turns[d][k] # q
             \/ d = c /\ k = Len(turns[c]) + 1 /\ turns'[d][k] = q
  <2>1. CASE turns'[d] = turns[d]
    BY <1>1, <1>5, <2>1
  <2>2. CASE turns'[d] # turns[d]
    <3>1. d = c /\ turns'[c] = Append(turns[c], q)
      BY <2>2
    <3>2. turns[c] \in Seq(Reqs)
      BY <1>2
    <3>3. k \in 1..(Len(turns[c]) + 1)
      BY <1>5, <3>1, <3>2
    <3>4. CASE k = Len(turns[c]) + 1
      BY <3>1, <3>2, <3>4
    <3>5. CASE k # Len(turns[c]) + 1
      <4>1. k \in 1..Len(turns[c])
        BY <3>2, <3>3, <3>5
      <4>2. k \in DOMAIN turns[c] /\ Append(turns[c], q)[k] = turns[c][k]
        BY <3>2, <4>1
      <4> QED BY <1>1, <3>1, <4>2
    <3> QED BY <3>4, <3>5
  <2> QED BY <2>1, <2>2
<1>6. ASSUME NEW p \in Reqs, calls'[p] = None, NEW d \in Convs, convs'[d] # None
      PROVE  convs'[d].call # p
  <2>1. calls[p] = None
    BY <1>1, <1>6
  <2>2. CASE d # c
    BY <1>2, <1>4, <1>6, <2>1, <2>2 DEF TriageIInv, Table
  <2>3. CASE d = c
    <3>1. convs[c].call # p
      BY <1>1, <2>1 DEF TriageIInv, Table
    <3>2. r.copy.call # p
      BY <1>1, <1>6, <2>1
    <3>3. convs'[c].call \in {r.copy.call, convs[c].call}
      BY DEF Merged, Column
    <3> QED BY <2>3, <3>1, <3>2, <3>3
  <2> QED BY <2>2, <2>3
<1>7. ASSUME NEW u \in Reqs PROVE Local(u)'
  <2>1. CASE u = q
    <3>1. ~HasConv(reqs'[q]) /\ ~Copying(reqs'[q]) /\ reqs'[q].phase # "reread"
      BY DEF HasConv, Copying
    <3>2. ASSUME Answered(q)', c \notin overlapped' PROVE StoredTurn(q)'
      <4>1. turns'[c] = Append(turns[c], q) /\ reqs'[q].conv = c
        BY <1>1, <1>3, <3>2 DEF Answered
      <4>2. Len(turns[c]) + 1 \in DOMAIN turns'[c] /\ turns'[c][Len(turns[c]) + 1] = q
        BY <1>2, <4>1
      <4> QED BY <4>1, <4>2 DEF StoredTurn
    <3>3. Answered(q)' => reqs'[q].conv = c
      BY DEF Answered
    <3> QED BY <2>1, <3>1, <3>2, <3>3 DEF Local
  <2>2. CASE u # q
    <3>1. /\ reqs'[u] = reqs[u] /\ calls'[u] = calls[u]
          /\ Local(u)
      BY <2>2 DEF TriageIInv
    <3>2. \A p \in Reqs : calls'[p] = None => calls[p] = None
      BY <1>1
    <3>3. HasConv(reqs[u]) => /\ convs'[reqs[u].conv] # None
                              /\ reqs[u].conv \in Convs
                              /\ reqs[u].conv \notin overlapped' =>
                                   /\ convs'[reqs[u].conv] = convs[reqs[u].conv]
                                   /\ turns'[reqs[u].conv] = turns[reqs[u].conv]
      <4> SUFFICES ASSUME HasConv(reqs[u])
                   PROVE  /\ convs'[reqs[u].conv] # None
                          /\ reqs[u].conv \in Convs
                          /\ reqs[u].conv \notin overlapped' =>
                               /\ convs'[reqs[u].conv] = convs[reqs[u].conv]
                               /\ turns'[reqs[u].conv] = turns[reqs[u].conv]
        OBVIOUS
      <4>1. reqs[u].conv \in Convs /\ convs[reqs[u].conv] # None
        BY <3>1 DEF Local
      <4>2. CASE reqs[u].conv = c
        <5>1. Underway(u)
          BY DEF HasConv, Underway
        <5>2. c \in overlapped'
          BY <2>2, <4>2, <5>1 DEF Overlap
        <5> QED BY <1>2, <4>1, <4>2, <5>2
      <4>3. CASE reqs[u].conv # c
        BY <4>1, <4>3
      <4> QED BY <4>2, <4>3
    <3>4. Ends(u)' <=> Ends(u)
      BY <3>1 DEF Ends, IsOpen
    <3>5. \A d \in Convs : \A i \in DOMAIN turns'[d] : turns'[d][i] = u =>
            i \in DOMAIN turns[d] /\ turns[d][i] = u
      BY <1>5, <2>2
    <3>6. Copying(reqs[u]) => HasConv(reqs[u])
      BY DEF Copying, HasConv
    <3>7. reqs[u].phase = "reread" => Copying(reqs[u])
      BY DEF Copying
    <3>8. ASSUME Answered(u), StoredTurn(u), reqs[u].conv \in Convs PROVE StoredTurn(u)'
      <4>1. PICK i \in DOMAIN turns[reqs[u].conv] : turns[reqs[u].conv][i] = u
        BY <3>8 DEF StoredTurn
      <4>2. i \in DOMAIN turns'[reqs[u].conv] /\ turns'[reqs[u].conv][i] = u
        <5>1. CASE turns'[reqs[u].conv] = turns[reqs[u].conv]
          BY <4>1, <5>1
        <5>2. CASE turns'[reqs[u].conv] = Append(turns[reqs[u].conv], q)
          BY <1>2, <3>8, <4>1, <5>2
        <5> QED BY <3>8, <5>1, <5>2
      <4> QED BY <3>1, <4>2 DEF StoredTurn
    <3>9. Answered(u)' => /\ reqs'[u].conv \in Convs
                          /\ StoredTurn(u)' \/ reqs'[u].conv \in overlapped'
      BY <1>3, <3>1, <3>8 DEF Local, Answered
    <3>10. Copying(reqs'[u]) =>
             /\ reqs'[u].copy \in Row
             /\ reqs'[u].conv \notin overlapped' =>
                  IsOpen(convs'[reqs'[u].conv]) /\ turns'[reqs'[u].conv] = reqs'[u].seen
             /\ \A p \in Reqs :
                  reqs'[u].copy.call = p /\ calls'[p] = None => p = u /\ reqs'[u].marker = "ESCALATE"
             /\ Ends(u)'
      BY <1>3, <3>1, <3>2, <3>3, <3>4, <3>6 DEF Local, IsOpen
    <3>11. reqs'[u].phase = "reread" =>
             /\ reqs'[u].basis \in Row
             /\ reqs'[u].conv \notin overlapped' => IsOpen(reqs'[u].basis)
             /\ \A p \in Reqs : calls'[p] = None => reqs'[u].basis.call # p
      BY <1>3, <3>1, <3>2 DEF Local
    <3> QED BY <3>1, <3>3, <3>5, <3>9, <3>10, <3>11 DEF Local, IsOpen
  <2> QED BY <2>1, <2>2
<1>8. ASSUME NEW d \in Convs, d \notin overlapped', convs'[d] # None, IsOpen(convs'[d])
      PROVE  Len(turns'[d]) < MaxTurns
  <2>1. d \notin overlapped
    BY <1>3, <1>8
  <2>2. CASE d # c
    <3>1. CASE convs[d] = None
      <4>1. turns[d] = <<>>
        BY <3>1 DEF TriageIInv, Table
      <4> QED BY <1>2, <2>2, <4>1
    <3>2. CASE convs[d] # None
      BY <1>8, <2>1, <2>2, <3>2 DEF TriageIInv, Table
    <3> QED BY <3>1, <3>2
  <2>3. CASE d = c
    <3>1. IsOpen(convs[c]) /\ IsOpen(r.basis)
      BY <1>1, <2>1, <2>3
    <3>2. IsOpen(r.copy)
      BY <1>1, <1>2, <1>8, <2>3, <3>1, MergedStaysClosed
    <3>3. Len(turns[c]) < MaxTurns
      BY <1>1, <2>1, <2>3, <3>1 DEF TriageIInv, Table
    <3>4. reqs[q].op = "REPLY" => Len(r.seen) + 1 < MaxTurns
      BY <1>1, <3>2 DEF Ends
    <3> QED BY <1>2, <2>3, <3>3, <3>4
  <2> QED BY <2>2, <2>3
<1>9. ASSUME NEW d \in Convs, convs'[d] = None PROVE turns'[d] = <<>>
  <2>1. d # c
    BY <1>2, <1>9
  <2>2. convs[d] = None
    BY <1>2, <1>4, <1>9, <2>1
  <2> QED BY <2>1, <2>2 DEF TriageIInv, Table
<1>10. StoredOnce'
  <2> SUFFICES ASSUME NEW d \in Convs, NEW e \in Convs,
                      NEW i \in DOMAIN turns'[d], NEW j \in DOMAIN turns'[e],
                      turns'[d][i] = turns'[e][j]
               PROVE  d = e /\ i = j
    BY DEF StoredOnce
  <2>1. \A f \in Convs : \A k \in DOMAIN turns'[f] :
          \/ k \in DOMAIN turns[f] /\ turns'[f][k] = turns[f][k] /\ turns[f][k] # q
          \/ f = c /\ k = Len(turns[c]) + 1 /\ turns'[f][k] = q
    BY <1>5
  <2>2. CASE turns'[d][i] = q
    BY <2>1, <2>2
  <2>3. CASE turns'[d][i] # q
    <3>1. /\ i \in DOMAIN turns[d] /\ j \in DOMAIN turns[e]
          /\ turns[d][i] = turns[e][j]
      BY <2>1, <2>3
    <3> QED BY <3>1 DEF TriageIInv, StoredOnce
  <2> QED BY <2>2, <2>3
<1>11. ASSUME NEW d \in Convs PROVE Table(d)'
  BY <1>6, <1>8, <1>9 DEF Table
<1> QED BY <1>7, <1>10, <1>11 DEF TriageIInv

(* An idle request holds nothing.                                          *)
LEMMA BlankIsRequest ==
  /\ Blank \in Req
  /\ Blank.marker = "NONE"
  /\ Blank.op = None
BY DEF Blank, Req, Markers

(* What is left of a request is its phase and, of a turn, its conversation.*)
LEMMA SettledIsRequest ==
  ASSUME NEW q \in Reqs, reqs[q] \in Req, NEW phase \in {"committed", "done", "failed"}
  PROVE  /\ Settled(q, phase) \in Req /\ Settled(q, phase).phase = phase
         /\ Settled(q, phase).op = "REPLY" =>
              /\ reqs[q].op = "REPLY" /\ phase # "failed"
              /\ Settled(q, phase).conv = reqs[q].conv
<1> DEFINE turn == [Blank EXCEPT !.phase = phase, !.op = "REPLY", !.conv = reqs[q].conv]
           rest == [Blank EXCEPT !.phase = phase]
<1>1. turn \in Req /\ turn.phase = phase /\ turn.conv = reqs[q].conv
  BY BlankIsRequest DEF Req
<1>2. rest \in Req /\ rest.phase = phase /\ rest.op # "REPLY"
  BY BlankIsRequest, TriageAssumption DEF Req
<1>3. \/ Settled(q, phase) = turn /\ reqs[q].op = "REPLY" /\ phase # "failed"
      \/ Settled(q, phase) = rest
  BY DEF Settled
<1> HIDE DEF turn, rest
<1> QED BY <1>1, <1>2, <1>3

(* The photo rows keep their type, and only photos are discarded.          *)
LEMMA PhotoTables ==
  ASSUME NEW q \in Reqs, reqs[q] \in Req, NEW c \in Convs, NEW P \in SUBSET Photos,
         photos \in [Photos -> PhotoRow \cup {None}]
  PROVE  /\ Bind(P, q) \in [Photos -> PhotoRow \cup {None}]
         /\ DeleteUnbound(Bind(P, q), c) \in [Photos -> PhotoRow \cup {None}]
         /\ DeleteUnbound(photos, c) \in [Photos -> PhotoRow \cup {None}]
         /\ DiscardPhotos(q) \subseteq Photos
         /\ DiscardUnbound(q) \subseteq Photos
<1>1. ASSUME NEW row \in PhotoRow PROVE [row EXCEPT !.turn = q] \in PhotoRow
  BY DEF PhotoRow
<1>2. Bind(P, q) \in [Photos -> PhotoRow \cup {None}]
  BY <1>1 DEF Bind
<1>3. ASSUME NEW stored \in [Photos -> PhotoRow \cup {None}]
      PROVE  DeleteUnbound(stored, c) \in [Photos -> PhotoRow \cup {None}]
  BY DEF DeleteUnbound
<1>4. DiscardPhotos(q) \subseteq Photos /\ DiscardUnbound(q) \subseteq Photos
  BY DEF DiscardPhotos, DiscardUnbound, ListUnbound, PhotosOf, Req
<1> QED BY <1>2, <1>3, <1>4

(* A request that has loaded the open conversation.                        *)
LEMMA LoadStep ==
  ASSUME TriageIInv, NEW q \in Reqs, reqs[q].phase = "idle", NEW c \in FindActive,
         NEW r \in Req, r.conv = c,
         \/ /\ r.phase = "loaded" /\ r.op = "REPLY" /\ r.seen = turns[c]
            /\ r.copy = convs[c] /\ r.marker = "NONE"
         \/ /\ r.phase = "mutated" /\ r.op \in {"START", "END"} /\ r.seen = turns[c]
            /\ r.copy = Closed(convs[c], "ABANDONED") /\ r.marker = "NONE"
         \/ r.phase \in {"checked", "put"},
         reqs' = [reqs EXCEPT ![q] = r],
         UNCHANGED <<tables, overlapped, botched>>,
         objects' \subseteq Photos
  PROVE  TriageIInv'
<1>1. /\ c \in Convs /\ convs[c] # None /\ IsOpen(convs[c]) /\ convs[c] \in Row
      /\ \A p \in Reqs : calls[p] = None => convs[c].call # p
  BY DEF FindActive, TriageIInv, TriageTypeOK, Table
<1>2. /\ reqs'[q] = r
      /\ reqs' \in [Reqs -> Req]
      /\ \A u \in Reqs \ {q} : reqs'[u] = reqs[u]
  BY DEF TriageIInv, TriageTypeOK
<1>3. /\ Closed(convs[c], "ABANDONED") \in Row
      /\ Closed(convs[c], "ABANDONED").status = "ABANDONED"
      /\ Closed(convs[c], "ABANDONED").call = convs[c].call
  BY <1>1 DEF Closed, Row, Statuses
<1>4. UNCHANGED <<convs, turns, photos, calls, overlapped, botched>>
  BY DEF tables
<1>5. TriageTypeOK'
  BY <1>2, <1>4 DEF TriageIInv, TriageTypeOK
<1>6. calls[q] = None /\ \A d \in Convs : \A i \in DOMAIN turns[d] : turns[d][i] # q
  BY DEF TriageIInv, Local
<1>7. Copying(r) => Ends(q)'
  BY <1>1, <1>2, <1>3 DEF Copying, Ends, IsOpen
<1>8. Copying(r) => /\ r.copy \in Row /\ r.copy.call = convs[c].call
                    /\ r.seen = turns[c]
  BY <1>1, <1>3 DEF Copying
<1>9. r.phase \notin {"reread", "looked"} /\ ~Answered(q)'
  BY <1>2 DEF Answered
<1>10. Local(q)'
  BY <1>1, <1>2, <1>4, <1>6, <1>7, <1>8, <1>9 DEF Local
<1> QED BY <1>2, <1>4, <1>5, <1>10, SideStep

LEMMA StartLookStep ==
  ASSUME TriageIInv, NEW q \in Reqs, StartLook(q)
  PROVE  TriageIInv'
<1> DEFINE r == [Blank EXCEPT !.phase = "looked", !.op = "START"]
<1>0. r \in Req /\ r.phase = "looked" /\ r.op = "START" /\ reqs' = [reqs EXCEPT ![q] = r]
  BY BlankIsRequest DEF StartLook, Req
<1> HIDE DEF r
<1>1. /\ reqs'[q].phase = "looked" /\ reqs'[q].op = "START"
      /\ reqs' \in [Reqs -> Req]
      /\ \A u \in Reqs \ {q} : reqs'[u] = reqs[u]
  BY <1>0 DEF TriageIInv, TriageTypeOK
<1>2. UNCHANGED <<convs, turns, photos, calls, objects, overlapped, botched>>
  BY DEF StartLook, tables
<1>3. TriageTypeOK'
  BY <1>1, <1>2 DEF TriageIInv, TriageTypeOK
<1>4. calls[q] = None /\ \A d \in Convs : \A i \in DOMAIN turns[d] : turns[d][i] # q
  BY DEF StartLook, TriageIInv, Local
<1>5. Local(q)'
  BY <1>1, <1>2, <1>4 DEF Local, HasConv, Copying, Answered
<1> QED BY <1>1, <1>2, <1>3, <1>5, SideStep

LEMMA LoadsStep ==
  ASSUME TriageIInv, NEW q \in Reqs, NEW c \in Convs,
         StartExpired(q, c) \/ EndLoad(q, c) \/ \E P \in SUBSET Photos : ReplyLoad(q, c, P)
  PROVE  TriageIInv'
<1>1. /\ turns[c] \in Seq(Reqs) /\ SentPhotos(c) \in SUBSET Photos
      /\ objects \subseteq Photos
  BY DEF TriageIInv, TriageTypeOK, SentPhotos, PhotosOf
<1>2. c \in FindActive /\ reqs[q].phase = "idle"
  BY DEF StartExpired, EndLoad, ReplyLoad, Load
<1>3. /\ convs[c] \in Row
      /\ Closed(convs[c], "ABANDONED") \in Row
  BY <1>2 DEF FindActive, TriageIInv, TriageTypeOK, Closed, Row, Statuses
<1>4. ASSUME NEW op \in {"START", "END"}, Load(q, "mutated", op, c, Closed(convs[c], "ABANDONED"))
      PROVE  TriageIInv'
  <2> DEFINE copy == Closed(convs[c], "ABANDONED")
             r == [Blank EXCEPT !.phase = "mutated", !.op = op, !.conv = c, !.copy = copy,
                                !.seen = turns[c], !.sent = SentPhotos(c)]
  <2>1. /\ reqs' = [reqs EXCEPT ![q] = r]
        /\ UNCHANGED <<tables, objects, overlapped, botched>>
    BY <1>4 DEF Load
  <2>2. copy \in Row
    BY <1>3
  <2> HIDE DEF copy
  <2>3. /\ r \in Req /\ r.conv = c /\ r.phase = "mutated" /\ r.op = op
        /\ r.copy = copy /\ r.marker = "NONE" /\ r.seen = turns[c]
    BY <1>1, <2>2, BlankIsRequest DEF Req
  <2> HIDE DEF r
  <2>4. r.copy = Closed(convs[c], "ABANDONED")
    BY <2>3 DEF copy
  <2> QED BY <1>1, <1>2, <2>1, <2>3, <2>4, LoadStep
<1>5. ASSUME NEW P \in SUBSET Photos, ReplyLoad(q, c, P)
      PROVE  TriageIInv'
  <2> DEFINE r == [Blank EXCEPT !.phase = "loaded", !.op = "REPLY", !.conv = c,
                                !.copy = convs[c], !.seen = turns[c],
                                !.sent = SentPhotos(c), !.with = P]
  <2>1. /\ reqs' = [reqs EXCEPT ![q] = r]
        /\ UNCHANGED <<tables, objects, overlapped, botched>>
    BY <1>5 DEF ReplyLoad
  <2>2. /\ r \in Req /\ r.conv = c /\ r.phase = "loaded" /\ r.op = "REPLY"
        /\ r.copy = convs[c] /\ r.marker = "NONE" /\ r.seen = turns[c]
    BY <1>1, <1>3, BlankIsRequest DEF Req
  <2> HIDE DEF r
  <2> QED BY <1>1, <1>2, <2>1, <2>2, LoadStep
<1> QED BY <1>4, <1>5 DEF StartExpired, EndLoad

LEMMA PhotoRequestStep ==
  ASSUME TriageIInv, NEW q \in Reqs, NEW c \in Convs, NEW p \in Photos,
         AttachPut(q, c, p) \/ DetachLoad(q, c, p)
  PROVE  TriageIInv'
<1>1. c \in FindActive /\ reqs[q].phase = "idle" /\ objects \subseteq Photos
  BY DEF AttachPut, DetachLoad, TriageIInv, TriageTypeOK
<1>2. ASSUME NEW phase \in {"checked", "put"}, NEW op \in {"ATTACH", "DETACH"},
             reqs' = [reqs EXCEPT ![q] = [Blank EXCEPT !.phase = phase, !.op = op,
                                                       !.conv = c, !.with = {p}]],
             UNCHANGED <<tables, overlapped, botched>>, objects' \subseteq Photos
      PROVE  TriageIInv'
  <2> DEFINE r == [Blank EXCEPT !.phase = phase, !.op = op, !.conv = c, !.with = {p}]
  <2>1. r \in Req /\ r.conv = c /\ r.phase = phase
    BY BlankIsRequest DEF Req
  <2>2. reqs' = [reqs EXCEPT ![q] = r]
    BY <1>2
  <2> HIDE DEF r
  <2> QED BY <1>1, <1>2, <2>1, <2>2, LoadStep
<1>3. CASE AttachPut(q, c, p)
  BY <1>1, <1>2, <1>3 DEF AttachPut
<1>4. CASE DetachLoad(q, c, p)
  BY <1>1, <1>2, <1>4 DEF DetachLoad
<1> QED BY <1>3, <1>4

LEMMA RecordedIsRow ==
  ASSUME NEW row \in Row, IsOpen(row), NEW marker \in Markers, NEW q \in Reqs
  PROVE  LET copy == Recorded(row, marker, q) IN
         /\ copy \in Row
         /\ IsOpen(copy) <=> marker = "NONE"
         /\ copy.call = IF marker = "ESCALATE" THEN q ELSE row.call
<1>1. CASE marker = "SOLVED"
  <2>1. Recorded(row, marker, q) = Closed(row, "SOLVED")
    BY <1>1 DEF Recorded
  <2> QED BY <1>1, <2>1 DEF Closed, Row, Statuses, IsOpen
<1>2. CASE marker = "CLOSED"
  <2>1. Recorded(row, marker, q) = Closed(row, "ABANDONED")
    BY <1>2 DEF Recorded
  <2> QED BY <1>2, <2>1 DEF Closed, Row, Statuses, IsOpen
<1>3. CASE marker = "ESCALATE"
  <2>1. Recorded(row, marker, q) = MarkEscalated(row, q)
    BY <1>3 DEF Recorded
  <2> QED BY <1>3, <2>1 DEF MarkEscalated, Closed, Row, Statuses, IsOpen
<1>4. CASE marker = "NONE"
  <2>1. Recorded(row, marker, q) = Appended(row)
    BY <1>4 DEF Recorded
  <2> QED BY <1>4, <2>1 DEF Appended, Row, Statuses, IsOpen
<1> QED BY <1>1, <1>2, <1>3, <1>4 DEF Markers

LEMMA AnswerStep ==
  ASSUME TriageIInv, NEW q \in Reqs, NEW marker \in Markers, Answer(q, marker)
  PROVE  TriageIInv'
<1> DEFINE copy == Recorded(reqs[q].copy, marker, q)
           r == [reqs[q] EXCEPT !.phase = "mutated", !.marker = marker, !.copy = copy]
<1>1. /\ reqs[q] \in Req /\ reqs[q].phase = "loaded" /\ reqs[q].op = "REPLY"
      /\ reqs[q].copy \in Row /\ IsOpen(reqs[q].copy) /\ reqs[q].marker = "NONE"
      /\ reqs[q].conv \in Convs /\ convs[reqs[q].conv] # None
      /\ reqs[q].conv \notin overlapped =>
           IsOpen(convs[reqs[q].conv]) /\ turns[reqs[q].conv] = reqs[q].seen
      /\ \A p \in Reqs : calls[p] = None => reqs[q].copy.call # p
      /\ calls[q] = None
      /\ \A d \in Convs : \A i \in DOMAIN turns[d] : turns[d][i] # q
  BY DEF Answer, TriageIInv, TriageTypeOK, Local, HasConv, Copying, Ends
<1>2. reqs' = [reqs EXCEPT ![q] = r] /\ UNCHANGED <<tables, objects, overlapped, botched>>
  BY DEF Answer
<1>3. /\ copy \in Row
      /\ IsOpen(copy) <=> marker = "NONE"
      /\ copy.call = IF marker = "ESCALATE" THEN q ELSE reqs[q].copy.call
  BY <1>1, RecordedIsRow
<1> HIDE DEF copy
<1>4. /\ r \in Req /\ r.phase = "mutated" /\ r.marker = marker /\ r.copy = copy
      /\ r.op = "REPLY" /\ r.conv = reqs[q].conv /\ r.seen = reqs[q].seen
  BY <1>1, <1>3 DEF Req
<1>5. marker = "NONE" => Len(r.seen) + 1 < MaxTurns
  BY <1>4, TriageAssumption DEF Answer, AtCap, Req
<1> HIDE DEF r
<1>6. /\ reqs'[q] = r
      /\ reqs' \in [Reqs -> Req]
      /\ \A u \in Reqs \ {q} : reqs'[u] = reqs[u]
  BY <1>2, <1>4 DEF TriageIInv, TriageTypeOK
<1>7. UNCHANGED <<convs, turns, photos, calls, objects, overlapped, botched>>
  BY <1>2 DEF tables
<1>8. TriageTypeOK'
  BY <1>6, <1>7 DEF TriageIInv, TriageTypeOK
<1>9. Ends(q)'
  BY <1>3, <1>4, <1>5, <1>6 DEF Ends
<1>10. \A p \in Reqs : copy.call = p /\ calls[p] = None => p = q /\ marker = "ESCALATE"
  BY <1>1, <1>3
<1>11. Local(q)'
  BY <1>1, <1>3, <1>4, <1>6, <1>7, <1>9, <1>10 DEF Local, Answered
<1> QED BY <1>6, <1>7, <1>8, <1>11, SideStep

LEMMA SaveRereadStep ==
  ASSUME TriageIInv, NEW q \in Reqs, SaveReread(q)
  PROVE  TriageIInv'
<1> DEFINE c == reqs[q].conv
           r == [reqs[q] EXCEPT !.phase = "reread", !.basis = convs[c]]
<1>1. /\ reqs[q] \in Req /\ reqs[q].phase = "mutated" /\ reqs[q].copy \in Row
      /\ c \in Convs /\ convs[c] # None
      /\ c \notin overlapped => IsOpen(convs[c]) /\ turns[c] = reqs[q].seen
      /\ \A p \in Reqs : reqs[q].copy.call = p /\ calls[p] = None =>
           p = q /\ reqs[q].marker = "ESCALATE"
      /\ Ends(q)
      /\ calls[q] = None
      /\ \A d \in Convs : \A i \in DOMAIN turns[d] : turns[d][i] # q
  BY DEF SaveReread, TriageIInv, TriageTypeOK, Local, HasConv, Copying
<1>2. convs[c] \in Row /\ \A p \in Reqs : calls[p] = None => convs[c].call # p
  BY <1>1 DEF TriageIInv, TriageTypeOK, Table
<1>3. reqs' = [reqs EXCEPT ![q] = r] /\ UNCHANGED <<tables, objects, overlapped, botched>>
  BY DEF SaveReread
<1>4. /\ r \in Req /\ r.phase = "reread" /\ r.basis = convs[c]
      /\ r.copy = reqs[q].copy /\ r.marker = reqs[q].marker
      /\ r.op = reqs[q].op /\ r.conv = c /\ r.seen = reqs[q].seen
  BY <1>1, <1>2 DEF Req
<1> HIDE DEF r
<1>5. /\ reqs'[q] = r
      /\ reqs' \in [Reqs -> Req]
      /\ \A u \in Reqs \ {q} : reqs'[u] = reqs[u]
  BY <1>3, <1>4 DEF TriageIInv, TriageTypeOK
<1>6. UNCHANGED <<convs, turns, photos, calls, objects, overlapped, botched>>
  BY <1>3 DEF tables
<1>7. TriageTypeOK'
  BY <1>5, <1>6 DEF TriageIInv, TriageTypeOK
<1>8. Ends(q)'
  BY <1>1, <1>4, <1>5 DEF Ends
<1>9. Local(q)'
  BY <1>1, <1>2, <1>4, <1>5, <1>6, <1>8 DEF Local, Answered
<1> QED BY <1>5, <1>6, <1>7, <1>9, SideStep

(* A request that is settled without a save.                               *)
LEMMA SettleStep ==
  ASSUME TriageIInv, NEW q \in Reqs, NEW phase \in {"committed", "done", "failed"},
         phase = "failed" => reqs[q].phase \notin {"committed", "done"},
         phase # "failed" => reqs[q].op # "REPLY" \/ reqs[q].phase = "committed",
         reqs' = [reqs EXCEPT ![q] = Settled(q, phase)],
         UNCHANGED <<convs, turns, calls>>,
         photos' \in [Photos -> PhotoRow \cup {None}],
         objects' \subseteq Photos,
         overlapped \subseteq overlapped', overlapped' \subseteq Convs,
         botched' \subseteq Photos
  PROVE  TriageIInv'
<1>1. /\ Settled(q, phase) \in Req /\ Settled(q, phase).phase = phase
      /\ Settled(q, phase).op = "REPLY" =>
           /\ reqs[q].op = "REPLY" /\ phase # "failed"
           /\ Settled(q, phase).conv = reqs[q].conv
  BY SettledIsRequest DEF TriageIInv, TriageTypeOK
<1>2. /\ reqs'[q] = Settled(q, phase)
      /\ reqs' \in [Reqs -> Req]
      /\ \A u \in Reqs \ {q} : reqs'[u] = reqs[u]
  BY <1>1 DEF TriageIInv, TriageTypeOK
<1>3. TriageTypeOK'
  BY <1>2 DEF TriageIInv, TriageTypeOK
<1>4. phase = "failed" => /\ calls[q] = None
                          /\ \A d \in Convs : \A i \in DOMAIN turns[d] : turns[d][i] # q
  BY DEF TriageIInv, Local
<1>5. Answered(q)' => /\ reqs'[q].conv \in Convs
                      /\ StoredTurn(q)' \/ reqs'[q].conv \in overlapped'
  <2> SUFFICES ASSUME Answered(q)'
               PROVE  /\ reqs'[q].conv \in Convs
                      /\ StoredTurn(q)' \/ reqs'[q].conv \in overlapped'
    OBVIOUS
  <2>1. Answered(q) /\ reqs'[q].conv = reqs[q].conv
    BY <1>1, <1>2 DEF Answered
  <2>2. reqs[q].conv \in Convs /\ (StoredTurn(q) \/ reqs[q].conv \in overlapped)
    BY <2>1 DEF TriageIInv, Local
  <2> QED BY <2>1, <2>2 DEF StoredTurn
<1>6. /\ calls'[q] # None => reqs'[q].phase \in {"committed", "done"}
      /\ \A d \in Convs : \A i \in DOMAIN turns'[d] :
           turns'[d][i] = q => reqs'[q].phase \in {"committed", "done"}
  BY <1>1, <1>2, <1>4
<1>7. ~HasConv(reqs'[q]) /\ ~Copying(reqs'[q]) /\ reqs'[q].phase \notin {"reread", "looked"}
  BY <1>1, <1>2 DEF HasConv, Copying
<1>8. Local(q)'
  BY <1>5, <1>6, <1>7 DEF Local
<1> QED BY <1>2, <1>3, <1>8, SideStep

LEMMA SettlingStep ==
  ASSUME TriageIInv, NEW q \in Reqs,
         RemoveDiscarded(q) \/ AttachCommit(q) \/ DetachCommit(q) \/ Fail(q)
  PROVE  TriageIInv'
<1>1. /\ reqs[q] \in Req /\ objects \subseteq Photos /\ overlapped \subseteq Convs
      /\ botched \subseteq Photos /\ photos \in [Photos -> PhotoRow \cup {None}]
  BY DEF TriageIInv, TriageTypeOK
<1>2. CASE RemoveDiscarded(q)
  BY <1>1, <1>2, SettleStep DEF RemoveDiscarded, tables
<1>3. ASSUME reqs[q].phase = "put", Overlap(q, reqs[q].conv)
      PROVE  /\ reqs[q].conv \in Convs
             /\ overlapped \subseteq overlapped' /\ overlapped' \subseteq Convs
  BY <1>1, <1>3 DEF Overlap, TriageIInv, Local, HasConv
<1>4. CASE AttachCommit(q)
  <2>1. [conv |-> reqs[q].conv, turn |-> None] \in PhotoRow
    BY <1>3, <1>4 DEF AttachCommit, PhotoRow
  <2>2. photos' \in [Photos -> PhotoRow \cup {None}]
    BY <1>1, <1>4, <2>1 DEF AttachCommit
  <2> QED BY <1>1, <1>3, <1>4, <2>2, SettleStep DEF AttachCommit
<1>5. CASE DetachCommit(q)
  <2>1. photos' \in [Photos -> PhotoRow \cup {None}]
    BY <1>1, <1>5 DEF DetachCommit
  <2> QED BY <1>1, <1>3, <1>5, <2>1, SettleStep DEF DetachCommit
<1>6. CASE Fail(q)
  <2>1. botched' \subseteq Photos
    BY <1>1, <1>6 DEF Fail, Req
  <2>2. UNCHANGED <<convs, turns, photos, calls, objects, overlapped>>
    BY <1>6 DEF Fail, tables
  <2>3. CASE Underway(q)
    <3>1. reqs' = [reqs EXCEPT ![q] = Settled(q, "failed")]
      BY <1>6, <2>3 DEF Fail
    <3>2. reqs[q].phase \notin {"committed", "done"}
      BY <2>3 DEF Underway
    <3> QED BY <1>1, <2>1, <2>2, <3>1, <3>2, SettleStep
  <2>4. CASE ~Underway(q)
    <3>1. reqs' = [reqs EXCEPT ![q] = Settled(q, "done")] /\ reqs[q].phase = "committed"
      BY <1>6, <2>4 DEF Fail
    <3> QED BY <1>1, <2>1, <2>2, <3>1, SettleStep
  <2> QED BY <2>3, <2>4
<1> QED BY <1>2, <1>4, <1>5, <1>6

LEMMA DetachRemoveStep ==
  ASSUME TriageIInv, NEW q \in Reqs, DetachRemove(q)
  PROVE  TriageIInv'
<1> DEFINE r == [reqs[q] EXCEPT !.phase = "put"]
<1>0. /\ reqs' = [reqs EXCEPT ![q] = r]
      /\ r \in Req /\ r.phase = "put" /\ r.conv = reqs[q].conv
  BY DEF DetachRemove, TriageIInv, TriageTypeOK, Req
<1> HIDE DEF r
<1>1. /\ reqs' \in [Reqs -> Req]
      /\ \A u \in Reqs \ {q} : reqs'[u] = reqs[u]
      /\ reqs'[q].phase = "put" /\ reqs'[q].conv = reqs[q].conv
  BY <1>0 DEF TriageIInv, TriageTypeOK
<1>2. UNCHANGED <<convs, turns, photos, calls, overlapped, botched>>
  BY DEF DetachRemove, tables
<1>3. TriageTypeOK'
  BY <1>1, <1>2 DEF DetachRemove, TriageIInv, TriageTypeOK
<1>4. /\ reqs[q].conv \in Convs /\ convs[reqs[q].conv] # None
      /\ calls[q] = None
      /\ \A d \in Convs : \A i \in DOMAIN turns[d] : turns[d][i] # q
  BY DEF DetachRemove, TriageIInv, Local, HasConv
<1>5. Local(q)'
  BY <1>1, <1>2, <1>4 DEF Local, HasConv, Copying, Answered
<1> QED BY <1>1, <1>2, <1>3, <1>5, SideStep

(* The new row is refused when a conversation is open.                     *)
LEMMA OpenedAllows ==
  ASSUME NEW stored \in [Convs -> Row \cup {None}], NEW n \in Convs, IndexAllows(stored)
  PROVE  /\ Opened(stored, n) \in [Convs -> Row \cup {None}]
         /\ IndexAllows(Opened(stored, n))
         /\ \A d \in Convs \ {n} : Opened(stored, n)[d] = stored[d]
         /\ Opened(stored, n)[n] \in {stored[n], NewConversation}
<1>1. NewConversation \in Row
  BY DEF NewConversation, Row, Statuses
<1> DEFINE after == [stored EXCEPT ![n] = NewConversation]
<1>2. /\ after \in [Convs -> Row \cup {None}]
      /\ \A d \in Convs \ {n} : after[d] = stored[d]
      /\ after[n] = NewConversation
  BY <1>1
<1>3. \/ Opened(stored, n) = after /\ IndexAllows(after)
      \/ Opened(stored, n) = stored
  BY DEF Opened
<1> HIDE DEF after
<1> QED BY <1>2, <1>3

LEMMA StartCommitStep ==
  ASSUME TriageIInv, NEW q \in Reqs, NEW n \in Convs, StartCommit(q, n)
  PROVE  TriageIInv'
<1>1. /\ Settled(q, "done") \in Req /\ Settled(q, "done").phase = "done"
      /\ Settled(q, "done").op # "REPLY"
  BY SettledIsRequest DEF StartCommit, TriageIInv, TriageTypeOK, Local
<1>2. /\ reqs'[q].phase = "done" /\ reqs'[q].op # "REPLY"
      /\ reqs' \in [Reqs -> Req]
      /\ \A u \in Reqs \ {q} : reqs'[u] = reqs[u]
  BY <1>1 DEF StartCommit, TriageIInv, TriageTypeOK
<1>3. /\ convs' \in [Convs -> Row \cup {None}]
      /\ IndexAllows(convs')
      /\ \A d \in Convs \ {n} : convs'[d] = convs[d]
      /\ convs[n] = None
      /\ convs'[n] \in {None, NewConversation}
  BY OpenedAllows DEF StartCommit, TriageIInv, TriageTypeOK
<1>4. UNCHANGED <<turns, photos, calls, objects, overlapped, botched>>
  BY DEF StartCommit
<1>5. NewConversation.call = None /\ None \notin Reqs /\ MaxTurns \in Nat \ {0}
  BY TriageAssumption DEF NewConversation
<1>6. TriageTypeOK'
  BY <1>2, <1>3, <1>4 DEF TriageIInv, TriageTypeOK
<1>7. ASSUME NEW u \in Reqs PROVE Local(u)'
  <2>1. CASE u = q
    BY <1>2, <2>1 DEF Local, HasConv, Copying, Answered
  <2>2. CASE u # q
    <3>1. reqs'[u] = reqs[u] /\ Local(u)
      BY <1>2, <2>2 DEF TriageIInv
    <3>2. HasConv(reqs[u]) => /\ reqs[u].conv \in Convs
                              /\ convs[reqs[u].conv] # None
                              /\ convs'[reqs[u].conv] = convs[reqs[u].conv]
      BY <1>3, <3>1 DEF Local
    <3>3. (Copying(reqs[u]) => HasConv(reqs[u])) /\ (reqs[u].phase = "reread" => Copying(reqs[u]))
      BY DEF Copying, HasConv
    <3>4. Ends(u)' <=> Ends(u)
      BY <3>1 DEF Ends, IsOpen
    <3>5. Answered(u)' => /\ reqs'[u].conv \in Convs
                          /\ StoredTurn(u)' \/ reqs'[u].conv \in overlapped'
      BY <1>4, <3>1 DEF Local, Answered, StoredTurn
    <3> QED BY <1>4, <3>1, <3>2, <3>3, <3>4, <3>5 DEF Local, IsOpen
  <2> QED BY <2>1, <2>2
<1>8. ASSUME NEW c \in Convs PROVE Table(c)'
  <2>1. Table(c)
    BY DEF TriageIInv
  <2>2. CASE convs'[c] = convs[c]
    BY <1>4, <2>1, <2>2 DEF Table, IsOpen
  <2>3. CASE convs'[c] # convs[c]
    <3>1. turns'[c] = <<>> /\ convs'[c].call = None
      BY <1>3, <1>4, <1>5, <2>1, <2>3 DEF Table
    <3>2. Len(turns'[c]) = 0
      BY <3>1
    <3> QED BY <1>5, <3>1, <3>2 DEF Table
  <2> QED BY <2>2, <2>3
<1>9. StoredOnce'
  BY <1>4 DEF TriageIInv, StoredOnce
<1> QED BY <1>3, <1>6, <1>7, <1>8, <1>9 DEF TriageIInv

LEMMA IdleStep ==
  ASSUME TriageIInv, NEW c \in Convs, Idle(c)
  PROVE  TriageIInv'
<1> DEFINE row == [convs[c] EXCEPT !.idle = TRUE]
<1>1. convs[c] \in Row /\ IsOpen(convs[c]) /\ convs[c] # None
  BY DEF Idle, TriageIInv, TriageTypeOK
<1>2. row \in Row /\ row.status = convs[c].status /\ row.call = convs[c].call /\ row # None
  BY <1>1, TriageAssumption DEF Row
<1>3. /\ convs' \in [Convs -> Row \cup {None}]
      /\ \A d \in Convs \ {c} : convs'[d] = convs[d]
      /\ convs'[c] = row
  BY <1>2 DEF Idle, TriageIInv, TriageTypeOK
<1> HIDE DEF row
<1>4. UNCHANGED <<turns, photos, calls, objects, reqs, overlapped, botched>>
  BY DEF Idle
<1>5. ASSUME NEW d \in Convs
      PROVE  /\ convs'[d] = None <=> convs[d] = None
             /\ convs'[d] # None => /\ IsOpen(convs'[d]) <=> IsOpen(convs[d])
                                    /\ convs'[d].call = convs[d].call
  BY <1>1, <1>2, <1>3 DEF IsOpen
<1>6. TriageTypeOK'
  BY <1>3, <1>4 DEF TriageIInv, TriageTypeOK
<1>7. IndexAllows(convs')
  BY <1>5 DEF TriageIInv, IndexAllows
<1>8. StoredOnce'
  BY <1>4 DEF TriageIInv, StoredOnce
<1>9. ASSUME NEW d \in Convs PROVE Table(d)'
  BY <1>4, <1>5 DEF TriageIInv, Table
<1>10. ASSUME NEW u \in Reqs PROVE Local(u)'
  <2>1. Ends(u)' <=> Ends(u)
    BY <1>4 DEF Ends, IsOpen
  <2>2. Local(u)
    BY DEF TriageIInv
  <2>3. (Copying(reqs[u]) => HasConv(reqs[u])) /\ (reqs[u].phase = "reread" => Copying(reqs[u]))
    BY DEF Copying, HasConv
  <2>4. /\ HasConv(reqs[u])' <=> HasConv(reqs[u])
        /\ Copying(reqs[u])' <=> Copying(reqs[u])
        /\ IsOpen(reqs[u].basis)' <=> IsOpen(reqs[u].basis)
    BY <1>4 DEF HasConv, Copying, IsOpen
  <2>5. /\ Answered(u)' <=> Answered(u)
        /\ StoredTurn(u)' <=> StoredTurn(u)
    BY <1>4 DEF Answered, StoredTurn
  <2> QED BY <1>4, <1>5, <2>1, <2>2, <2>3, <2>4, <2>5 DEF Local
<1> QED BY <1>6, <1>7, <1>8, <1>9, <1>10 DEF TriageIInv

(* What a commit leaves of its request.                                    *)
LEMMA CommittedIsRequest ==
  ASSUME TriageIInv, NEW q \in Reqs, NEW staged \in SUBSET Photos, Committed(q, staged),
         reqs[q].conv \in Convs
  PROVE  /\ reqs' \in [Reqs -> Req]
         /\ reqs'[q].phase \in {"committed", "done"}
         /\ reqs'[q].op = "REPLY" => reqs[q].op = "REPLY" /\ reqs'[q].conv = reqs[q].conv
         /\ \A u \in Reqs \ {q} : reqs'[u] = reqs[u]
         /\ Overlap(q, reqs[q].conv)
         /\ overlapped' \subseteq Convs
         /\ UNCHANGED <<objects, botched>>
<1>1. reqs[q] \in Req
  BY DEF TriageIInv, TriageTypeOK
<1>2. /\ Settled(q, "done") \in Req /\ Settled(q, "done").phase = "done"
      /\ Settled(q, "committed") \in Req /\ Settled(q, "committed").phase = "committed"
      /\ \A phase \in {"done", "committed"} : Settled(q, phase).op = "REPLY" =>
           reqs[q].op = "REPLY" /\ Settled(q, phase).conv = reqs[q].conv
  BY <1>1, SettledIsRequest
<1> DEFINE r == [Settled(q, "committed") EXCEPT !.staged = staged]
<1>3. /\ r \in Req /\ r.phase = "committed"
      /\ r.op = Settled(q, "committed").op /\ r.conv = Settled(q, "committed").conv
  BY <1>2 DEF Req
<1>4. \/ reqs' = [reqs EXCEPT ![q] = Settled(q, "done")]
      \/ reqs' = [reqs EXCEPT ![q] = r]
  BY DEF Committed
<1> HIDE DEF r
<1>5. /\ reqs' \in [Reqs -> Req]
      /\ reqs'[q].phase \in {"committed", "done"}
      /\ reqs'[q].op = "REPLY" => reqs[q].op = "REPLY" /\ reqs'[q].conv = reqs[q].conv
      /\ \A u \in Reqs \ {q} : reqs'[u] = reqs[u]
  BY <1>2, <1>3, <1>4 DEF TriageIInv, TriageTypeOK
<1> QED BY <1>5 DEF Committed, Overlap, TriageIInv, TriageTypeOK

(* What a save leaves of the conversations.                                *)
LEMMA SavedRows ==
  ASSUME TriageIInv, NEW q \in Reqs, reqs[q].phase = "reread"
  PROVE  /\ reqs[q] \in Req /\ reqs[q].conv \in Convs /\ convs[reqs[q].conv] # None
         /\ reqs[q].conv \notin overlapped => IsOpen(reqs[q].basis)
         /\ Saved(q) \in [Convs -> Row \cup {None}]
         /\ Saved(q)[reqs[q].conv] = Merged(reqs[q].copy, reqs[q].basis, convs[reqs[q].conv])
         /\ Saved(q)[reqs[q].conv] \in Row
         /\ \A d \in Convs \ {reqs[q].conv} : Saved(q)[d] = convs[d]
         /\ ~IsOpen(reqs[q].copy) => IndexAllows(Saved(q))
<1> DEFINE c == reqs[q].conv
           row == Merged(reqs[q].copy, reqs[q].basis, convs[c])
<1>1. /\ reqs[q] \in Req /\ c \in Convs /\ convs[c] # None
      /\ reqs[q].copy \in Row /\ reqs[q].basis \in Row
      /\ c \notin overlapped => IsOpen(reqs[q].basis)
  BY DEF TriageIInv, TriageTypeOK, Local, HasConv, Copying
<1>2. convs[c] \in Row /\ convs \in [Convs -> Row \cup {None}]
  BY <1>1 DEF TriageIInv, TriageTypeOK
<1>3. row \in Row
  BY <1>1, <1>2, MergedIsRow
<1>4. ~IsOpen(reqs[q].copy) /\ IsOpen(row) => IsOpen(convs[c])
  BY <1>1, <1>2, MergedStaysClosed
<1>5. Saved(q) = [convs EXCEPT ![c] = row]
  BY DEF Saved
<1> HIDE DEF row
<1>6. /\ Saved(q) \in [Convs -> Row \cup {None}]
      /\ Saved(q)[c] = row
      /\ \A d \in Convs \ {c} : Saved(q)[d] = convs[d]
  BY <1>1, <1>2, <1>3, <1>5
<1>7. ~IsOpen(reqs[q].copy) => IndexAllows(Saved(q))
  BY <1>1, <1>4, <1>6 DEF TriageIInv, IndexAllows
<1> QED BY <1>1, <1>3, <1>6, <1>7 DEF row

(* The transaction of a turn, however its answer ends.                     *)
LEMMA TurnStep ==
  ASSUME TriageIInv, NEW q \in Reqs, reqs[q].phase = "reread", reqs[q].op = "REPLY",
         IndexAllows(Saved(q)),
         convs' = Saved(q),
         turns' = [turns EXCEPT ![reqs[q].conv] =
                     AppendMessages(turns[reqs[q].conv], reqs[q].seen, q)],
         photos' \in [Photos -> PhotoRow \cup {None}],
         calls' \in [Reqs -> (SUBSET Photos) \cup {None}],
         calls'[q] # None <=> reqs[q].marker = "ESCALATE",
         \A u \in Reqs \ {q} : calls'[u] = calls[u],
         NEW staged \in SUBSET Photos, Committed(q, staged)
  PROVE  TriageIInv'
<1> DEFINE c == reqs[q].conv
           stored == AppendMessages(turns[c], reqs[q].seen, q)
<1>1. /\ reqs[q] \in Req /\ c \in Convs
      /\ Saved(q) \in [Convs -> Row \cup {None}]
      /\ Saved(q)[c] = Merged(reqs[q].copy, reqs[q].basis, convs[c])
      /\ \A d \in Convs \ {c} : Saved(q)[d] = convs[d]
  BY SavedRows
<1>2. /\ turns \in [Convs -> Seq(Reqs)] /\ turns[c] \in Seq(Reqs)
      /\ reqs[q].seen \in Seq(Reqs) /\ objects \subseteq Photos /\ botched \subseteq Photos
  BY <1>1 DEF TriageIInv, TriageTypeOK, Req
<1>3. \/ stored = turns[c] /\ turns[c] # reqs[q].seen
      \/ stored = Append(turns[c], q) /\ Len(turns[c]) = Len(reqs[q].seen)
  <2>1. CASE Len(turns[c]) = Len(reqs[q].seen)
    BY <2>1 DEF AppendMessages
  <2>2. CASE Len(turns[c]) # Len(reqs[q].seen)
    BY <2>2 DEF AppendMessages
  <2> QED BY <2>1, <2>2
<1> HIDE DEF stored
<1>4. stored \in Seq(Reqs)
  <2>1. Append(turns[c], q) \in Seq(Reqs)
    BY <1>2
  <2> QED BY <1>2, <1>3, <2>1
<1>5. turns' = [turns EXCEPT ![c] = stored]
  BY DEF stored
<1>6. /\ turns' \in [Convs -> Seq(Reqs)]
      /\ turns'[c] = stored
      /\ \A d \in Convs \ {c} : turns'[d] = turns[d]
  BY <1>1, <1>2, <1>4, <1>5
<1>7. /\ reqs' \in [Reqs -> Req]
      /\ reqs'[q].phase \in {"committed", "done"}
      /\ reqs'[q].op = "REPLY" => reqs[q].op = "REPLY" /\ reqs'[q].conv = c
      /\ \A u \in Reqs \ {q} : reqs'[u] = reqs[u]
      /\ Overlap(q, c)
      /\ overlapped' \subseteq Convs
      /\ UNCHANGED <<objects, botched>>
  BY <1>1, CommittedIsRequest
<1>8. TriageTypeOK'
  BY <1>1, <1>2, <1>6, <1>7 DEF TriageTypeOK
<1>9. IndexAllows(convs')
  OBVIOUS
<1> QED BY <1>1, <1>3, <1>6, <1>7, <1>8, <1>9, CommitStep

LEMMA RepliesStep ==
  ASSUME TriageIInv, NEW q \in Reqs, TurnCommit(q) \/ ClosingCommit(q) \/ EscalateCommit(q)
  PROVE  TriageIInv'
<1> DEFINE r == reqs[q]
<1>1. /\ r.phase = "reread" /\ r.op = "REPLY"
      /\ IndexAllows(Saved(q))
      /\ convs' = Saved(q)
      /\ turns' = [turns EXCEPT ![r.conv] = AppendMessages(turns[r.conv], r.seen, q)]
  BY DEF TurnCommit, ClosingCommit, EscalateCommit
<1>2. /\ r \in Req /\ r.conv \in Convs /\ r.with \in SUBSET Photos /\ r.sent \in SUBSET Photos
      /\ photos \in [Photos -> PhotoRow \cup {None}]
      /\ calls \in [Reqs -> (SUBSET Photos) \cup {None}]
      /\ calls[q] = None
  BY <1>1, SavedRows DEF TriageIInv, TriageTypeOK, Local, Req
<1>3. /\ Bind(r.with, q) \in [Photos -> PhotoRow \cup {None}]
      /\ DeleteUnbound(Bind(r.with, q), r.conv) \in [Photos -> PhotoRow \cup {None}]
      /\ DiscardPhotos(q) \in SUBSET Photos
      /\ DiscardUnbound(q) \in SUBSET Photos
  BY <1>2, PhotoTables
<1>4. CASE TurnCommit(q)
  <2>1. r.marker = "NONE" /\ photos' = Bind(r.with, q) /\ calls' = calls /\ Committed(q, {})
    BY <1>4 DEF TurnCommit
  <2> QED BY <1>1, <1>2, <1>3, <2>1, TurnStep
<1>5. CASE ClosingCommit(q)
  <2>1. /\ r.marker \in {"SOLVED", "CLOSED"}
        /\ photos' = DeleteUnbound(Bind(r.with, q), r.conv)
        /\ calls' = calls /\ Committed(q, DiscardPhotos(q))
    BY <1>5 DEF ClosingCommit
  <2> QED BY <1>1, <1>2, <1>3, <2>1, TurnStep
<1>6. CASE EscalateCommit(q)
  <2>1. /\ r.marker = "ESCALATE"
        /\ photos' = DeleteUnbound(Bind(r.with, q), r.conv)
        /\ calls' = [calls EXCEPT ![q] = r.sent \cup r.with]
        /\ Committed(q, DiscardUnbound(q))
    BY <1>6 DEF EscalateCommit
  <2>2. r.sent \cup r.with # None /\ r.sent \cup r.with \in SUBSET Photos
    BY <1>2, TriageAssumption
  <2>3. /\ calls'[q] # None
        /\ calls' \in [Reqs -> (SUBSET Photos) \cup {None}]
        /\ \A u \in Reqs \ {q} : calls'[u] = calls[u]
    BY <1>2, <2>1, <2>2
  <2> QED BY <1>1, <1>3, <2>1, <2>3, TurnStep
<1> QED BY <1>4, <1>5, <1>6

(* The transactions that end a conversation without a turn.                *)
LEMMA EndingsStep ==
  ASSUME TriageIInv, NEW q \in Reqs,
         EndCommit(q) \/ \E n \in Convs : RetireCommit(q, n)
  PROVE  TriageIInv'
<1> DEFINE c == reqs[q].conv
<1>1. /\ reqs[q].phase = "reread" /\ reqs[q].op \in {"START", "END"}
      /\ photos' = DeleteUnbound(photos, c)
      /\ Committed(q, DiscardPhotos(q))
      /\ turns' = turns /\ calls' = calls
  BY DEF EndCommit, RetireCommit
<1>2. /\ reqs[q].copy.status = "ABANDONED" /\ reqs[q].marker = "NONE" /\ calls[q] = None
  BY <1>1 DEF TriageIInv, Local, Copying, Ends
<1>3. /\ reqs[q] \in Req /\ c \in Convs /\ convs[c] # None
      /\ Saved(q) \in [Convs -> Row \cup {None}]
      /\ Saved(q)[c] = Merged(reqs[q].copy, reqs[q].basis, convs[c])
      /\ Saved(q)[c] \in Row
      /\ \A d \in Convs \ {c} : Saved(q)[d] = convs[d]
      /\ IndexAllows(Saved(q))
  BY <1>1, <1>2, SavedRows DEF IsOpen
<1>4. /\ convs' \in [Convs -> Row \cup {None}]
      /\ IndexAllows(convs')
      /\ convs'[c] = Saved(q)[c]
      /\ \A d \in Convs \ {c} : \/ convs'[d] = convs[d]
                                \/ convs[d] = None /\ convs'[d] = NewConversation
  <2>1. CASE EndCommit(q)
    BY <1>3, <2>1 DEF EndCommit
  <2>2. CASE \E n \in Convs : RetireCommit(q, n)
    <3>1. PICK n \in Convs : convs' = Opened(Saved(q), n) /\ convs[n] = None
      BY <2>2 DEF RetireCommit
    <3>2. n # c
      BY <1>3, <3>1
    <3>3. /\ convs' \in [Convs -> Row \cup {None}]
          /\ IndexAllows(convs')
          /\ \A d \in Convs \ {n} : convs'[d] = Saved(q)[d]
          /\ convs'[n] \in {Saved(q)[n], NewConversation}
      BY <1>3, <3>1, OpenedAllows
    <3> QED BY <1>3, <3>1, <3>2, <3>3
  <2> QED BY <2>1, <2>2
<1>5. /\ photos' \in [Photos -> PhotoRow \cup {None}]
      /\ DiscardPhotos(q) \in SUBSET Photos
  BY <1>1, <1>3, PhotoTables DEF TriageIInv, TriageTypeOK
<1>6. /\ reqs' \in [Reqs -> Req]
      /\ reqs'[q].phase \in {"committed", "done"}
      /\ reqs'[q].op = "REPLY" => reqs[q].op = "REPLY" /\ reqs'[q].conv = c
      /\ \A u \in Reqs \ {q} : reqs'[u] = reqs[u]
      /\ Overlap(q, c)
      /\ overlapped' \subseteq Convs
      /\ UNCHANGED <<objects, botched>>
  BY <1>1, <1>3, <1>5, CommittedIsRequest
<1>7. TriageTypeOK'
  BY <1>1, <1>4, <1>5, <1>6 DEF TriageIInv, TriageTypeOK
<1> QED BY <1>1, <1>2, <1>3, <1>4, <1>6, <1>7, CommitStep

----------------------------------------------------------------------------
(* The theorems.                                                           *)

LEMMA TriageInitially == TriageInit => TriageIInv
<1> SUFFICES ASSUME TriageInit PROVE TriageIInv
  OBVIOUS
<1>1. /\ NewConversation \in Row /\ NewConversation.call = None
      /\ None \notin Row /\ None \notin Reqs /\ MaxTurns \in Nat \ {0}
  BY TriageAssumption DEF NewConversation, Row, Statuses
<1>2. PICK C \in {{}} \cup {{c} : c \in Convs} :
        convs = [c \in Convs |-> IF c \in C THEN NewConversation ELSE None]
  BY DEF TriageInit, ConvInit
<1>3. /\ convs \in [Convs -> Row \cup {None}]
      /\ \A c \in Convs : convs[c] # None => c \in C /\ convs[c] = NewConversation
  BY <1>1, <1>2
<1>4. IndexAllows(convs)
  BY <1>2, <1>3 DEF IndexAllows
<1>5. /\ turns = [c \in Convs |-> <<>>]
      /\ photos = [p \in Photos |-> None]
      /\ calls = [q \in Reqs |-> None]
      /\ objects = {} /\ reqs = [q \in Reqs |-> Blank] /\ overlapped = {} /\ botched = {}
  BY DEF TriageInit, ConvInit, PhotoInit
<1>6. \A c \in Convs : turns[c] = <<>> /\ Len(turns[c]) = 0 /\ DOMAIN turns[c] = {}
  BY <1>5
<1>7. turns \in [Convs -> Seq(Reqs)]
  BY <1>5
<1>8. TriageTypeOK
  <2>1. photos \in [Photos -> PhotoRow \cup {None}]
    BY <1>5
  <2>2. calls \in [Reqs -> (SUBSET Photos) \cup {None}]
    BY <1>5
  <2>3. reqs \in [Reqs -> Req]
    BY <1>5, BlankIsRequest
  <2>4. objects \subseteq Photos /\ overlapped \subseteq Convs /\ botched \subseteq Photos
    BY <1>5
  <2> QED BY <1>3, <1>7, <2>1, <2>2, <2>3, <2>4 DEF TriageTypeOK
<1>9. StoredOnce
  BY <1>6 DEF StoredOnce
<1>10. ASSUME NEW c \in Convs PROVE Table(c)
  BY <1>1, <1>3, <1>6 DEF Table
<1>11. ASSUME NEW q \in Reqs PROVE Local(q)
  <2>1. reqs[q].phase = "idle" /\ calls[q] = None
    BY <1>5 DEF Blank
  <2> QED BY <1>6, <2>1 DEF Local, HasConv, Copying, Answered
<1> QED BY <1>4, <1>8, <1>9, <1>10, <1>11 DEF TriageIInv

LEMMA TriageInvariance == TriageIInv /\ [TriageNext]_triageVars => TriageIInv'
<1> SUFFICES ASSUME TriageIInv, [TriageNext]_triageVars PROVE TriageIInv'
  OBVIOUS
<1>1. CASE UNCHANGED triageVars
  BY <1>1 DEF triageVars, TriageIInv, TriageTypeOK, IndexAllows, StoredOnce, Answered, StoredTurn, Local, Table,
              HasConv, Copying, Ends, IsOpen
<1>2. ASSUME NEW c \in Convs, Idle(c) PROVE TriageIInv'
  BY <1>2, IdleStep
<1>3. ASSUME NEW q \in Reqs, Handle(q) PROVE TriageIInv'
  <2>1. CASE StartLook(q)
    BY <2>1, StartLookStep
  <2>2. ASSUME NEW c \in Convs, StartExpired(q, c) \/ EndLoad(q, c) PROVE TriageIInv'
    BY <2>2, LoadsStep
  <2>3. ASSUME NEW c \in Convs, NEW P \in SUBSET Photos, ReplyLoad(q, c, P) PROVE TriageIInv'
    BY <2>3, LoadsStep
  <2>4. ASSUME NEW marker \in Markers, Answer(q, marker) PROVE TriageIInv'
    BY <2>4, AnswerStep
  <2>5. CASE SaveReread(q)
    BY <2>5, SaveRereadStep
  <2>6. CASE TurnCommit(q) \/ ClosingCommit(q) \/ EscalateCommit(q)
    BY <2>6, RepliesStep
  <2>7. CASE EndCommit(q) \/ \E n \in Convs : RetireCommit(q, n)
    BY <2>7, EndingsStep
  <2>8. ASSUME NEW n \in Convs, StartCommit(q, n) PROVE TriageIInv'
    BY <2>8, StartCommitStep
  <2>9. CASE RemoveDiscarded(q) \/ AttachCommit(q) \/ DetachCommit(q) \/ Fail(q)
    BY <2>9, SettlingStep
  <2>10. ASSUME NEW c \in Convs, NEW p \in Photos, AttachPut(q, c, p) \/ DetachLoad(q, c, p)
         PROVE  TriageIInv'
    BY <2>10, PhotoRequestStep
  <2>11. CASE DetachRemove(q)
    BY <2>11, DetachRemoveStep
  <2> QED BY <1>3, <2>1, <2>2, <2>3, <2>4, <2>5, <2>6, <2>7, <2>8, <2>9, <2>10, <2>11 DEF Handle
<1> QED BY <1>1, <1>2, <1>3 DEF TriageNext

(* The variables keep their types and a customer has one open conversation *)
(* at most, whichever starts, replies and endings interleave.              *)
THEOREM OneOpenConversationAlways == TriageSpec => [](TriageTypeOK /\ OneOpenConversation)
<1>1. TriageIInv => TriageTypeOK /\ OneOpenConversation
  BY OneOpen DEF TriageIInv
<1> QED BY <1>1, TriageInitially, TriageInvariance, PTL DEF TriageSpec

(* No transcript holds a turn twice, however the answers race, and it      *)
(* holds every answered turn unless requests of the conversation           *)
(* overlapped.                                                             *)
THEOREM TurnsStayWhole == TriageSpec => []TurnsAreWhole
<1>1. TriageIInv => TurnsAreWhole
  BY DEF TriageIInv, Local, TurnsAreWhole
<1> QED BY <1>1, TriageInitially, TriageInvariance, PTL DEF TriageSpec

(* The cap bounds every transcript whose requests did not overlap.         *)
THEOREM TranscriptsAreCapped == TriageSpec => []CappedUnlessOverlapped
<1>1. TriageIInv => CappedUnlessOverlapped
  BY DEF TriageIInv, Table, CappedUnlessOverlapped
<1> QED BY <1>1, TriageInitially, TriageInvariance, PTL DEF TriageSpec

(* Only the transaction of a turn that escalates opens a service call.     *)
LEMMA OnlyEscalationsCall ==
  ASSUME [TriageNext]_triageVars, calls' # calls
  PROVE  \E u \in Reqs : EscalateCommit(u)
<1>1. CASE UNCHANGED triageVars
  BY <1>1 DEF triageVars
<1>2. ASSUME NEW c \in Convs, Idle(c) PROVE calls' = calls
  BY <1>2 DEF Idle
<1>3. ASSUME NEW u \in Reqs, Handle(u), ~EscalateCommit(u) PROVE calls' = calls
  <2>1. CASE StartLook(u) \/ SaveReread(u) \/ RemoveDiscarded(u) \/ DetachRemove(u) \/ Fail(u)
    BY <2>1 DEF StartLook, SaveReread, RemoveDiscarded, DetachRemove, Fail, tables
  <2>2. ASSUME NEW c \in Convs, StartExpired(u, c) \/ EndLoad(u, c) PROVE calls' = calls
    BY <2>2 DEF StartExpired, EndLoad, Load, tables
  <2>3. ASSUME NEW c \in Convs, NEW P \in SUBSET Photos, ReplyLoad(u, c, P) PROVE calls' = calls
    BY <2>3 DEF ReplyLoad, tables
  <2>4. ASSUME NEW marker \in Markers, Answer(u, marker) PROVE calls' = calls
    BY <2>4 DEF Answer, tables
  <2>5. CASE TurnCommit(u) \/ ClosingCommit(u) \/ EndCommit(u)
    BY <2>5 DEF TurnCommit, ClosingCommit, EndCommit
  <2>6. ASSUME NEW n \in Convs, StartCommit(u, n) \/ RetireCommit(u, n) PROVE calls' = calls
    BY <2>6 DEF StartCommit, RetireCommit
  <2>7. ASSUME NEW c \in Convs, NEW p \in Photos, AttachPut(u, c, p) \/ DetachLoad(u, c, p)
        PROVE  calls' = calls
    BY <2>7 DEF AttachPut, DetachLoad, tables
  <2>8. CASE AttachCommit(u) \/ DetachCommit(u)
    BY <2>8 DEF AttachCommit, DetachCommit
  <2> QED BY <1>3, <2>1, <2>2, <2>3, <2>4, <2>5, <2>6, <2>7, <2>8 DEF Handle
<1> QED BY <1>1, <1>2, <1>3 DEF TriageNext

(* The conversation that escalates keeps the id of its service call.       *)
LEMMA EscalationIsNamed ==
  ASSUME TriageIInv, NEW q \in Reqs, EscalateCommit(q)
  PROVE  \E c \in Convs : convs'[c] # None /\ convs'[c].call = q
<1> DEFINE c == reqs[q].conv
<1>1. reqs[q].phase = "reread" /\ reqs[q].marker = "ESCALATE" /\ convs' = Saved(q)
  BY DEF EscalateCommit
<1>2. /\ c \in Convs /\ Saved(q)[c] \in Row
      /\ Saved(q)[c] = Merged(reqs[q].copy, reqs[q].basis, convs[c])
  BY <1>1, SavedRows
<1>3. reqs[q].copy.call = q /\ reqs[q].basis.call # q
  BY <1>1 DEF TriageIInv, Local, Copying, Ends
<1>4. Merged(reqs[q].copy, reqs[q].basis, convs[c]).call = q
  BY <1>3 DEF Merged, Column
<1> QED BY <1>1, <1>2, <1>4, TriageAssumption

(* A service call and the conversation that names it are committed by one  *)
(* step, whoever saves the conversation meanwhile.                         *)
THEOREM CallsAreNamedAtOnce == TriageSpec => EscalationIsAtomic
<1> DEFINE A == \A q \in Reqs : calls[q] = None =>
                  (calls'[q] # None <=> \E c \in Convs : convs'[c] # None /\ convs'[c].call = q)
<1>1. ASSUME TriageIInv, TriageIInv', [TriageNext]_triageVars PROVE A
  <2> SUFFICES ASSUME NEW q \in Reqs, calls[q] = None
               PROVE  calls'[q] # None <=>
                        \E c \in Convs : convs'[c] # None /\ convs'[c].call = q
    OBVIOUS
  <2>1. ASSUME NEW c \in Convs, convs'[c] # None, convs'[c].call = q
        PROVE  calls'[q] # None
    BY <1>1, <2>1 DEF TriageIInv, Table
  <2>2. ASSUME calls'[q] # None
        PROVE  \E c \in Convs : convs'[c] # None /\ convs'[c].call = q
    <3>1. PICK u \in Reqs : EscalateCommit(u)
      BY <1>1, <2>2, OnlyEscalationsCall
    <3>2. u = q
      BY <1>1, <2>2, <3>1 DEF EscalateCommit, TriageIInv, TriageTypeOK
    <3> QED BY <1>1, <3>1, <3>2, EscalationIsNamed
  <2> QED BY <2>1, <2>2
<1>2. TriageSpec => []TriageIInv
  BY TriageInitially, TriageInvariance, PTL DEF TriageSpec
<1> QED BY <1>1, <1>2, PTL DEF TriageSpec, EscalationIsAtomic

----------------------------------------------------------------------------
(* The photos.                                                             *)

(* The inductive invariant.                                                *)

(* p is attached to a service call whose conversation no two requests      *)
(* overlapped on.                                                          *)
Attached(p) ==
  \E q \in Reqs : calls[q] # None /\ reqs[q].conv \notin overlapped /\ p \in calls[q]

(* The bytes of p are still wanted: by an open conversation or by a        *)
(* service call.                                                           *)
Wanted(p) ==
  /\ photos[p] # None
  /\ photos[p].conv \notin overlapped
  /\ IsOpen(convs[photos[p].conv]) \/ Attached(p)

(* A detach has removed the objects and not yet the row.                   *)
Removing(p) ==
  \E q \in Reqs : reqs[q].phase = "put" /\ reqs[q].op = "DETACH" /\ p \in reqs[q].with

(* What is wanted is in the object store.                                  *)
BytesKept(p) ==
  /\ photos[p] # None => convs[photos[p].conv] # None
  /\ Wanted(p) => p \in objects \/ p \in botched \/ Removing(p)

Uploading(r) == r.phase = "put" /\ r.op = "ATTACH"

(* The photos a request names by its phase.                                *)
Names(u) ==
  LET r == reqs[u] IN
  /\ r.phase = "checked" => r.op = "DETACH"
  /\ r.phase = "put" => r.op \in {"ATTACH", "DETACH"}
  /\ ~Copying(r) => r.sent = {}
  /\ ~HasConv(r) => r.with = {}
  /\ r.phase # "committed" => r.staged = {}

(* What a request has read is still so, unless another one overlapped.     *)
Views(u) ==
  LET r == reqs[u] IN
  HasConv(r) =>
    /\ ~Uploading(r) => \A p \in r.sent \cup r.with : photos[p] # None => photos[p].conv = r.conv
    /\ r.conv \notin overlapped =>
         /\ IsOpen(convs[r.conv])
         /\ Copying(r) => r.sent = SentPhotos(r.conv)
         /\ ~Uploading(r) => r.with \subseteq ListUnbound(r.conv)

(* A photo that is being uploaded is nobody else's.                        *)
Fresh(u) ==
  Uploading(reqs[u]) => \A p \in reqs[u].with :
    /\ p \in objects /\ photos[p] = None
    /\ \A v \in Reqs : /\ p \notin reqs[v].staged \cup reqs[v].sent
                       /\ v # u => p \notin reqs[v].with
                       /\ calls[v] # None => p \notin calls[v]

(* A service call holds sent photos of a conversation that stays closed.   *)
Opens(u) ==
  calls[u] # None =>
    /\ reqs[u].op = "REPLY" /\ reqs[u].conv \in Convs
    /\ reqs[u].conv \notin overlapped =>
         /\ convs[reqs[u].conv] # None
         /\ ~IsOpen(convs[reqs[u].conv])
         /\ calls[u] \subseteq SentPhotos(reqs[u].conv)

Discards(u) == \A p \in reqs[u].staged : ~Wanted(p)

PhotoIInv ==
  /\ TriageIInv
  /\ \A p \in Photos : BytesKept(p)
  /\ \A u \in Reqs : Names(u) /\ Views(u) /\ Fresh(u) /\ Opens(u) /\ Discards(u)

(* A step of q, or of nobody, that leaves the photo rows, the service      *)
(* calls and the status of every conversation alone.                       *)
LEMMA PhotoSideStep ==
  ASSUME PhotoIInv, TriageIInv', NEW q,
         UNCHANGED <<photos, calls, overlapped>>,
         \A d \in Convs : convs[d] # None =>
           convs'[d] # None /\ (IsOpen(convs'[d]) <=> IsOpen(convs[d])),
         \A u \in Reqs \ {q} : reqs'[u] = reqs[u],
         \A u \in Reqs : calls[u] # None =>
           reqs'[u].op = reqs[u].op /\ reqs'[u].conv = reqs[u].conv,
         \A p \in objects \ objects' : Wanted(p) => Removing(p)',
         \A p \in Photos : Removing(p) => Removing(p)' \/ p \in botched',
         botched \subseteq botched',
         \A u \in Reqs \ {q} : Uploading(reqs[u]) => \A p \in reqs[u].with :
           p \in objects' /\ (q \in Reqs =>
             p \notin reqs'[q].staged \cup reqs'[q].sent \cup reqs'[q].with),
         q \in Reqs => Names(q)' /\ Views(q)' /\ Fresh(q)' /\ Discards(q)'
  PROVE  PhotoIInv'
<1>1. /\ photos \in [Photos -> PhotoRow \cup {None}]
      /\ \A p \in Photos : photos[p] # None =>
           photos[p].conv \in Convs /\ convs[photos[p].conv] # None
  <2>1. photos \in [Photos -> PhotoRow \cup {None}]
    BY DEF PhotoIInv, TriageIInv, TriageTypeOK
  <2> QED BY <2>1 DEF PhotoIInv, BytesKept, PhotoRow
<1>2. \A p : Attached(p)' <=> Attached(p)
  BY DEF Attached
<1>3. \A p \in Photos : Wanted(p)' <=> Wanted(p)
  BY <1>1, <1>2 DEF Wanted
<1>4. \A d \in Convs : SentPhotos(d)' = SentPhotos(d) /\ ListUnbound(d)' = ListUnbound(d)
  BY DEF SentPhotos, ListUnbound, PhotosOf
<1>5. ASSUME NEW p \in Photos PROVE BytesKept(p)'
  <2>1. photos[p] # None => convs'[photos[p].conv] # None
    BY <1>1
  <2>2. Wanted(p) => p \in objects \/ p \in botched \/ Removing(p)
    BY DEF PhotoIInv, BytesKept
  <2> QED BY <1>3, <2>1, <2>2 DEF BytesKept
<1>6. ASSUME NEW u \in Reqs PROVE Opens(u)'
  <2>1. Opens(u)
    BY DEF PhotoIInv
  <2> QED BY <1>4, <2>1 DEF Opens
<1>7. ASSUME NEW u \in Reqs, u # q PROVE Names(u)' /\ Views(u)' /\ Fresh(u)' /\ Discards(u)'
  <2>1. reqs'[u] = reqs[u] /\ Names(u) /\ Views(u) /\ Fresh(u) /\ Discards(u)
    BY <1>7 DEF PhotoIInv
  <2>2. Names(u)'
    BY <2>1 DEF Names, Copying, HasConv
  <2>3. HasConv(reqs[u]) => reqs[u].conv \in Convs /\ convs[reqs[u].conv] # None
    BY DEF PhotoIInv, TriageIInv, Local
  <2>4. Views(u)'
    BY <1>4, <2>1, <2>3 DEF Views, HasConv, Copying, Uploading
  <2>5. reqs[u].staged \subseteq Photos
    BY DEF PhotoIInv, TriageIInv, TriageTypeOK, Req
  <2>6. Discards(u)'
    BY <1>3, <2>1, <2>5 DEF Discards
  <2>7. Fresh(u)'
    BY <1>7, <2>1 DEF Fresh, Uploading
  <2> QED BY <2>2, <2>4, <2>6, <2>7
<1>8. ASSUME NEW u \in Reqs
      PROVE  Names(u)' /\ Views(u)' /\ Fresh(u)' /\ Opens(u)' /\ Discards(u)'
  <2>1. CASE u = q
    BY <1>6, <2>1
  <2>2. CASE u # q
    BY <1>6, <1>7, <2>2
  <2> QED BY <2>1, <2>2
<1> QED BY <1>5, <1>8 DEF PhotoIInv

(* An idle request that has loaded the open conversation.                  *)
LEMMA PhotoLoad ==
  ASSUME PhotoIInv, TriageIInv', NEW q \in Reqs, reqs[q].phase = "idle",
         NEW c \in FindActive, NEW r \in Req, r.conv = c, r.staged = {},
         \/ /\ r.phase \in {"loaded", "mutated"}
            /\ r.sent = SentPhotos(c) /\ r.with \subseteq ListUnbound(c)
            /\ objects' = objects
         \/ /\ r.phase = "checked" /\ r.op = "DETACH"
            /\ r.sent = {} /\ r.with \subseteq ListUnbound(c)
            /\ objects' = objects
         \/ /\ r.phase = "put" /\ r.op = "ATTACH" /\ r.sent = {}
            /\ \A p \in r.with : p \in Photos /\ FreshPhoto(p)
            /\ objects' = objects \cup r.with,
         reqs' = [reqs EXCEPT ![q] = r],
         UNCHANGED <<tables, overlapped, botched>>
  PROVE  PhotoIInv'
<1>1. /\ c \in Convs /\ convs[c] # None /\ IsOpen(convs[c])
  BY DEF FindActive
<1>2. /\ reqs'[q] = r
      /\ \A u \in Reqs \ {q} : reqs'[u] = reqs[u]
  BY DEF PhotoIInv, TriageIInv, TriageTypeOK
<1>3. UNCHANGED <<convs, turns, photos, calls, overlapped, botched>>
  BY DEF tables
<1>4. calls[q] = None
  BY DEF PhotoIInv, TriageIInv, Local
<1>5. SentPhotos(c)' = SentPhotos(c) /\ ListUnbound(c)' = ListUnbound(c)
  BY <1>3 DEF SentPhotos, ListUnbound, PhotosOf
<1>6. /\ SentPhotos(c) \subseteq Photos /\ ListUnbound(c) \subseteq Photos
      /\ \A p \in SentPhotos(c) \cup ListUnbound(c) : photos[p] # None /\ photos[p].conv = c
  BY DEF SentPhotos, ListUnbound, PhotosOf
<1>7. \A u \in Reqs : Fresh(u)
  BY DEF PhotoIInv
<1>8. \A p : Removing(p)' <=> Removing(p)
  <2>1. ~(r.phase = "put" /\ r.op = "DETACH") /\ ~(reqs[q].phase = "put")
    OBVIOUS
  <2> QED BY <1>2, <2>1 DEF Removing
<1>9. Names(q)'
  BY <1>2 DEF Names, Copying, HasConv
<1>10. Views(q)'
  BY <1>1, <1>2, <1>3, <1>5, <1>6 DEF Views, HasConv, Copying, Uploading
<1>11. Discards(q)'
  BY <1>2 DEF Discards
<1>12. \A u \in Reqs \ {q} : Uploading(reqs[u]) => \A p \in reqs[u].with :
         p \in objects' /\ p \notin r.staged \cup r.sent \cup r.with
  <2> SUFFICES ASSUME NEW u \in Reqs \ {q}, Uploading(reqs[u]), NEW p \in reqs[u].with
               PROVE  p \in objects' /\ p \notin r.staged \cup r.sent \cup r.with
    OBVIOUS
  <2>1. p \in objects /\ photos[p] = None
    BY <1>7 DEF Fresh
  <2>2. ~FreshPhoto(p)
    BY <2>1 DEF FreshPhoto
  <2> QED BY <1>6, <2>1, <2>2
<1>13. Fresh(q)'
  <2> SUFFICES ASSUME Uploading(r), NEW p \in r.with
               PROVE  /\ p \in objects' /\ photos[p] = None
                      /\ \A v \in Reqs : /\ p \notin reqs'[v].staged \cup reqs'[v].sent
                                         /\ v # q => p \notin reqs'[v].with
                                         /\ calls[v] # None => p \notin calls[v]
    BY <1>2, <1>3 DEF Fresh
  <2>1. FreshPhoto(p) /\ objects' = objects \cup r.with /\ r.sent = {}
    BY DEF Uploading
  <2> QED BY <1>2, <2>1 DEF FreshPhoto
<1> QED BY <1>2, <1>3, <1>4, <1>8, <1>9, <1>10, <1>11, <1>12, <1>13, PhotoSideStep

LEMMA PhotoLoads ==
  ASSUME PhotoIInv, TriageIInv', NEW q \in Reqs, NEW c \in Convs,
         \/ StartExpired(q, c) \/ EndLoad(q, c)
         \/ \E P \in SUBSET Photos : ReplyLoad(q, c, P)
         \/ \E p \in Photos : AttachPut(q, c, p) \/ DetachLoad(q, c, p)
  PROVE  PhotoIInv'
<1>1. /\ c \in FindActive /\ reqs[q].phase = "idle"
      /\ UNCHANGED <<tables, overlapped, botched>>
  BY DEF StartExpired, EndLoad, ReplyLoad, Load, AttachPut, DetachLoad
<1>2. /\ turns[c] \in Seq(Reqs) /\ SentPhotos(c) \in SUBSET Photos
      /\ convs[c] \in Row
      /\ Closed(convs[c], "ABANDONED") \in Row
  <2>1. turns[c] \in Seq(Reqs) /\ SentPhotos(c) \in SUBSET Photos /\ convs[c] \in Row
    BY <1>1 DEF FindActive, PhotoIInv, TriageIInv, TriageTypeOK, SentPhotos, PhotosOf
  <2> QED BY <2>1 DEF Closed, Row, Statuses
<1>3. ASSUME NEW op \in {"START", "END"}, Load(q, "mutated", op, c, Closed(convs[c], "ABANDONED"))
      PROVE  PhotoIInv'
  <2> DEFINE copy == Closed(convs[c], "ABANDONED")
             r == [Blank EXCEPT !.phase = "mutated", !.op = op, !.conv = c, !.copy = copy,
                                !.seen = turns[c], !.sent = SentPhotos(c)]
  <2>1. reqs' = [reqs EXCEPT ![q] = r] /\ objects' = objects
    BY <1>3 DEF Load
  <2>2. copy \in Row
    BY <1>2
  <2> HIDE DEF copy
  <2>3. /\ r \in Req /\ r.conv = c /\ r.phase = "mutated" /\ r.staged = {}
        /\ r.sent = SentPhotos(c) /\ r.with = {}
    BY <1>2, <2>2, BlankIsRequest DEF Req, Blank
  <2> HIDE DEF r
  <2> QED BY <1>1, <2>1, <2>3, PhotoLoad
<1>4. ASSUME NEW P \in SUBSET Photos, ReplyLoad(q, c, P) PROVE PhotoIInv'
  <2> DEFINE r == [Blank EXCEPT !.phase = "loaded", !.op = "REPLY", !.conv = c,
                                !.copy = convs[c], !.seen = turns[c],
                                !.sent = SentPhotos(c), !.with = P]
  <2>1. /\ reqs' = [reqs EXCEPT ![q] = r] /\ objects' = objects
        /\ P \subseteq ListUnbound(c)
    BY <1>4 DEF ReplyLoad
  <2>2. /\ r \in Req /\ r.conv = c /\ r.phase = "loaded" /\ r.staged = {}
        /\ r.sent = SentPhotos(c) /\ r.with = P
    BY <1>2, BlankIsRequest DEF Req, Blank
  <2> HIDE DEF r
  <2> QED BY <1>1, <2>1, <2>2, PhotoLoad
<1>5. ASSUME NEW p \in Photos, AttachPut(q, c, p) PROVE PhotoIInv'
  <2> DEFINE r == [Blank EXCEPT !.phase = "put", !.op = "ATTACH", !.conv = c, !.with = {p}]
  <2>1. /\ reqs' = [reqs EXCEPT ![q] = r] /\ objects' = objects \cup {p}
        /\ FreshPhoto(p)
    BY <1>5 DEF AttachPut
  <2>2. /\ r \in Req /\ r.conv = c /\ r.phase = "put" /\ r.op = "ATTACH" /\ r.staged = {}
        /\ r.sent = {} /\ r.with = {p}
    BY BlankIsRequest DEF Req, Blank
  <2> HIDE DEF r
  <2> QED BY <1>1, <2>1, <2>2, PhotoLoad
<1>6. ASSUME NEW p \in Photos, DetachLoad(q, c, p) PROVE PhotoIInv'
  <2> DEFINE r == [Blank EXCEPT !.phase = "checked", !.op = "DETACH", !.conv = c, !.with = {p}]
  <2>1. /\ reqs' = [reqs EXCEPT ![q] = r] /\ objects' = objects
        /\ p \in ListUnbound(c)
    BY <1>6 DEF DetachLoad
  <2>2. /\ r \in Req /\ r.conv = c /\ r.phase = "checked" /\ r.op = "DETACH" /\ r.staged = {}
        /\ r.sent = {} /\ r.with = {p}
    BY BlankIsRequest DEF Req, Blank
  <2> HIDE DEF r
  <2> QED BY <1>1, <2>1, <2>2, PhotoLoad
<1> QED BY <1>3, <1>4, <1>5, <1>6 DEF StartExpired, EndLoad

(* A request that goes on with the photos it has.                          *)
LEMMA PhotoGoesOn ==
  ASSUME PhotoIInv, TriageIInv', NEW q \in Reqs, HasConv(reqs[q]), ~Uploading(reqs[q]),
         \A u \in Reqs \ {q} : reqs'[u] = reqs[u],
         reqs'[q].conv = reqs[q].conv, reqs'[q].op = reqs[q].op,
         reqs'[q].sent = reqs[q].sent, reqs'[q].with = reqs[q].with,
         reqs'[q].staged = reqs[q].staged,
         \/ Copying(reqs[q]) /\ Copying(reqs'[q]) /\ objects' = objects
         \/ /\ reqs[q].phase = "checked" /\ reqs'[q].phase = "put" /\ reqs[q].op = "DETACH"
            /\ objects' = objects \ reqs[q].with,
         UNCHANGED <<tables, overlapped, botched>>
  PROVE  PhotoIInv'
<1>1. UNCHANGED <<convs, turns, photos, calls, overlapped, botched>>
  BY DEF tables
<1>2. /\ Names(q) /\ Views(q) /\ reqs[q].conv \in Convs
      /\ calls[q] = None
  BY DEF PhotoIInv, TriageIInv, Local, HasConv
<1>3. \A d \in Convs : SentPhotos(d)' = SentPhotos(d) /\ ListUnbound(d)' = ListUnbound(d)
  BY <1>1 DEF SentPhotos, ListUnbound, PhotosOf
<1>4. HasConv(reqs'[q]) /\ ~Uploading(reqs'[q])
  BY DEF HasConv, Copying, Uploading
<1>5. Names(q)'
  BY <1>2, <1>4 DEF Names, Copying, HasConv
<1>6. Views(q)'
  BY <1>1, <1>2, <1>3, <1>4 DEF Views, Copying
<1>7. Discards(q)' /\ Fresh(q)'
  <2>1. reqs'[q].staged = {}
    BY <1>2 DEF Names, HasConv
  <2> QED BY <1>4, <2>1 DEF Discards, Fresh
<1>8. \A p \in objects \ objects' : Removing(p)'
  BY DEF Removing
<1>9. \A p \in Photos : Removing(p) => Removing(p)'
  <2>1. ~(reqs[q].phase = "put" /\ reqs[q].op = "DETACH")
    BY DEF Copying
  <2> QED BY <2>1 DEF Removing
<1>10. \A u \in Reqs \ {q} : Uploading(reqs[u]) => \A p \in reqs[u].with :
         p \in objects' /\ p \notin reqs'[q].staged \cup reqs'[q].sent \cup reqs'[q].with
  BY DEF PhotoIInv, Fresh
<1> QED BY <1>1, <1>2, <1>5, <1>6, <1>7, <1>8, <1>9, <1>10, PhotoSideStep

LEMMA PhotoProgress ==
  ASSUME PhotoIInv, TriageIInv', NEW q \in Reqs,
         \/ \E marker \in Markers : Answer(q, marker)
         \/ SaveReread(q) \/ DetachRemove(q)
  PROVE  PhotoIInv'
<1>1. reqs[q] \in Req /\ reqs \in [Reqs -> Req] /\ Names(q)
  BY DEF PhotoIInv, TriageIInv, TriageTypeOK
<1>2. /\ HasConv(reqs[q]) /\ ~Uploading(reqs[q])
      /\ UNCHANGED <<tables, overlapped, botched>>
  BY DEF Answer, SaveReread, DetachRemove, HasConv, Uploading
<1>3. CASE \E marker \in Markers : Answer(q, marker)
  <2>1. PICK marker \in Markers : Answer(q, marker)
    BY <1>3
  <2>2. /\ \A u \in Reqs \ {q} : reqs'[u] = reqs[u]
        /\ Copying(reqs[q]) /\ Copying(reqs'[q]) /\ objects' = objects
        /\ reqs'[q].conv = reqs[q].conv /\ reqs'[q].op = reqs[q].op
        /\ reqs'[q].sent = reqs[q].sent /\ reqs'[q].with = reqs[q].with
        /\ reqs'[q].staged = reqs[q].staged
    BY <1>1, <2>1 DEF Answer, Copying, Req
  <2> QED BY <1>2, <2>2, PhotoGoesOn
<1>4. CASE SaveReread(q)
  <2>1. /\ \A u \in Reqs \ {q} : reqs'[u] = reqs[u]
        /\ Copying(reqs[q]) /\ Copying(reqs'[q]) /\ objects' = objects
        /\ reqs'[q].conv = reqs[q].conv /\ reqs'[q].op = reqs[q].op
        /\ reqs'[q].sent = reqs[q].sent /\ reqs'[q].with = reqs[q].with
        /\ reqs'[q].staged = reqs[q].staged
    BY <1>1, <1>4 DEF SaveReread, Copying, Req
  <2> QED BY <1>2, <2>1, PhotoGoesOn
<1>5. CASE DetachRemove(q)
  <2>1. /\ \A u \in Reqs \ {q} : reqs'[u] = reqs[u]
        /\ reqs[q].phase = "checked" /\ reqs'[q].phase = "put" /\ reqs[q].op = "DETACH"
        /\ objects' = objects \ reqs[q].with
        /\ reqs'[q].conv = reqs[q].conv /\ reqs'[q].op = reqs[q].op
        /\ reqs'[q].sent = reqs[q].sent /\ reqs'[q].with = reqs[q].with
        /\ reqs'[q].staged = reqs[q].staged
    BY <1>1, <1>5 DEF DetachRemove, Req
  <2> QED BY <1>2, <2>1, PhotoGoesOn
<1> QED BY <1>3, <1>4, <1>5

(* What is left of a request holds no photos but those it will discard.    *)
LEMMA SettledHoldsNothing ==
  ASSUME NEW q \in Reqs, NEW phase \in {"committed", "done", "failed"}
  PROVE  /\ Settled(q, phase).phase = phase
         /\ Settled(q, phase).sent = {} /\ Settled(q, phase).with = {}
         /\ Settled(q, phase).staged = {}
         /\ reqs[q].op = "REPLY" /\ phase # "failed" =>
              Settled(q, phase).op = "REPLY" /\ Settled(q, phase).conv = reqs[q].conv
<1>1. CASE reqs[q].op = "REPLY" /\ phase # "failed"
  BY <1>1 DEF Settled, Blank
<1>2. CASE ~(reqs[q].op = "REPLY" /\ phase # "failed")
  <2>1. Settled(q, phase) = [Blank EXCEPT !.phase = phase]
    BY <1>2 DEF Settled
  <2> QED BY <1>2, <2>1 DEF Blank
<1> QED BY <1>1, <1>2

LEMMA PhotoSettles ==
  ASSUME PhotoIInv, TriageIInv', NEW q \in Reqs, RemoveDiscarded(q) \/ Fail(q)
  PROVE  PhotoIInv'
<1>1. PICK phase \in {"committed", "done", "failed"} :
        /\ reqs' = [reqs EXCEPT ![q] = Settled(q, phase)]
        /\ phase = "failed" => Underway(q)
        /\ phase # "committed"
  BY DEF RemoveDiscarded, Fail
<1>2. /\ reqs'[q] = Settled(q, phase)
      /\ \A u \in Reqs \ {q} : reqs'[u] = reqs[u]
  BY <1>1 DEF PhotoIInv, TriageIInv, TriageTypeOK
<1>3. UNCHANGED <<convs, turns, photos, calls, overlapped>>
  BY DEF RemoveDiscarded, Fail, tables
<1>4. /\ ~HasConv(reqs'[q]) /\ ~Copying(reqs'[q]) /\ ~Uploading(reqs'[q])
      /\ reqs'[q].sent = {} /\ reqs'[q].with = {} /\ reqs'[q].staged = {}
      /\ reqs'[q].phase = phase
  BY <1>2, SettledHoldsNothing DEF HasConv, Copying, Uploading
<1>5. Names(q)' /\ Views(q)' /\ Fresh(q)' /\ Discards(q)'
  BY <1>1, <1>4 DEF Names, Views, Fresh, Discards
<1>6. calls[q] # None => reqs'[q].op = reqs[q].op /\ reqs'[q].conv = reqs[q].conv
  <2>1. calls[q] # None => ~Underway(q) /\ reqs[q].op = "REPLY"
    BY DEF PhotoIInv, TriageIInv, Local, Underway, Opens
  <2> QED BY <1>1, <1>2, <2>1, SettledHoldsNothing
<1>7. \A p \in objects \ objects' : ~Wanted(p)
  BY DEF RemoveDiscarded, Fail, PhotoIInv, Discards
<1>8. botched \subseteq botched' /\ \A p \in Photos : Removing(p) => Removing(p)' \/ p \in botched'
  <2>1. /\ botched \subseteq botched'
        /\ reqs[q].phase = "put" /\ reqs[q].op = "DETACH" => reqs[q].with \subseteq botched'
    BY DEF RemoveDiscarded, Fail
  <2> QED BY <1>2, <2>1 DEF Removing
<1>9. \A u \in Reqs \ {q} : Uploading(reqs[u]) => \A p \in reqs[u].with :
        p \in objects' /\ p \notin reqs'[q].staged \cup reqs'[q].sent \cup reqs'[q].with
  <2>1. objects' = objects \/ objects' = objects \ reqs[q].staged
    BY DEF RemoveDiscarded, Fail
  <2> QED BY <1>4, <2>1 DEF PhotoIInv, Fresh
<1> QED BY <1>2, <1>3, <1>5, <1>6, <1>7, <1>8, <1>9, PhotoSideStep

LEMMA PhotoRests ==
  ASSUME PhotoIInv, TriageIInv',
         \/ \E c \in Convs : Idle(c)
         \/ \E q \in Reqs : StartLook(q) \/ \E n \in Convs : StartCommit(q, n)
  PROVE  PhotoIInv'
<1>1. /\ convs \in [Convs -> Row \cup {None}] /\ reqs \in [Reqs -> Req]
      /\ IsOpen(NewConversation) /\ NewConversation # None
  <2>1. NewConversation \in Row /\ IsOpen(NewConversation)
    BY DEF NewConversation, Row, Statuses, IsOpen
  <2> QED BY <2>1, TriageAssumption DEF PhotoIInv, TriageIInv, TriageTypeOK
<1>2. CASE \E c \in Convs : Idle(c)
  <2>1. PICK c \in Convs : Idle(c)
    BY <1>2
  <2>2. /\ \A d \in Convs : convs[d] # None =>
             convs'[d] # None /\ (IsOpen(convs'[d]) <=> IsOpen(convs[d]))
        /\ UNCHANGED <<photos, calls, reqs, objects, overlapped, botched>>
    <3>1. /\ convs[c] \in Row
          /\ [convs[c] EXCEPT !.idle = TRUE] \in Row
          /\ [convs[c] EXCEPT !.idle = TRUE].status = convs[c].status
          /\ convs' = [convs EXCEPT ![c] = [convs[c] EXCEPT !.idle = TRUE]]
      BY <1>1, <2>1 DEF Idle, Row
    <3> QED BY <1>1, <2>1, <3>1, TriageAssumption DEF Idle, IsOpen
  <2>3. \A p : Removing(p)' <=> Removing(p)
    BY <2>2 DEF Removing
  <2>4. \A u \in Reqs : Uploading(reqs[u]) => reqs[u].with \subseteq objects
    BY DEF PhotoIInv, Fresh
  <2>5. PICK q : q \notin Reqs
    BY NoSetContainsEverything
  <2> QED BY <2>2, <2>3, <2>4, <2>5, PhotoSideStep
<1>3. ASSUME NEW q \in Reqs, StartLook(q) \/ \E n \in Convs : StartCommit(q, n)
      PROVE  PhotoIInv'
  <2>1. /\ \A u \in Reqs \ {q} : reqs'[u] = reqs[u]
        /\ reqs'[q].phase \in {"looked", "done"}
        /\ reqs'[q].sent = {} /\ reqs'[q].with = {} /\ reqs'[q].staged = {}
        /\ reqs[q].phase \in {"idle", "looked"}
    <3>1. CASE StartLook(q)
      BY <1>1, <3>1 DEF StartLook, Blank
    <3>2. CASE \E n \in Convs : StartCommit(q, n)
      BY <1>1, <3>2, SettledHoldsNothing DEF StartCommit
    <3> QED BY <1>3, <3>1, <3>2
  <2>2. /\ UNCHANGED <<photos, calls, objects, overlapped, botched>>
        /\ calls[q] = None
    BY <1>3, <2>1 DEF StartLook, StartCommit, tables, PhotoIInv, TriageIInv, Local
  <2>3. \A d \in Convs : convs[d] # None => convs'[d] = convs[d]
    <3>1. CASE StartLook(q)
      BY <3>1 DEF StartLook, tables
    <3>2. ASSUME NEW n \in Convs, StartCommit(q, n)
          PROVE  \A d \in Convs : convs[d] # None => convs'[d] = convs[d]
      <4>1. convs' = Opened(convs, n) /\ convs[n] = None /\ IndexAllows(convs)
        BY <3>2 DEF StartCommit, PhotoIInv, TriageIInv
      <4>2. \A d \in Convs \ {n} : Opened(convs, n)[d] = convs[d]
        BY <1>1, <4>1, OpenedAllows
      <4> QED BY <4>1, <4>2
    <3> QED BY <1>3, <3>1, <3>2
  <2>4. \A p : Removing(p)' <=> Removing(p)
    BY <2>1 DEF Removing
  <2>5. Names(q)' /\ Views(q)' /\ Fresh(q)' /\ Discards(q)'
    BY <2>1 DEF Names, Views, Fresh, Discards, HasConv, Copying, Uploading
  <2>6. \A u \in Reqs : Uploading(reqs[u]) => reqs[u].with \subseteq objects
    BY DEF PhotoIInv, Fresh
  <2> QED BY <2>1, <2>2, <2>3, <2>4, <2>5, <2>6, PhotoSideStep
<1> QED BY <1>2, <1>3

(* A transaction of q changes photo rows of its conversation only: those   *)
(* it had before, and the one it uploaded.                                 *)
RowsMove(q) ==
  /\ \A p \in Photos :
       \/ photos'[p] = photos[p]
       \/ /\ photos[p] # None /\ photos[p].conv = reqs[q].conv
          /\ photos'[p] # None => photos'[p].conv = reqs[q].conv
       \/ /\ Uploading(reqs[q]) /\ p \in reqs[q].with
          /\ photos'[p] = [conv |-> reqs[q].conv, turn |-> None]
  /\ reqs[q].phase = "put" /\ reqs[q].op = "DETACH" =>
       \A p \in reqs[q].with : photos'[p] = None

(* A service call that q opens takes sent photos of its conversation,      *)
(* which it closes, and none of those it discards.                         *)
CallOpens(q) ==
  calls'[q] # None =>
    /\ reqs'[q].op = "REPLY" /\ reqs'[q].conv = reqs[q].conv
    /\ calls'[q] = reqs[q].sent \cup reqs[q].with /\ ~Uploading(reqs[q])
    /\ reqs[q].conv \notin overlapped' =>
         /\ ~IsOpen(convs'[reqs[q].conv])
         /\ calls'[q] \subseteq SentPhotos(reqs[q].conv)'
    /\ \A p \in calls'[q] \cap reqs'[q].staged : photos'[p] = None

(* A transaction that discards photos closes their conversation.           *)
Discarding(q) ==
  /\ reqs'[q].phase \in {"committed", "done"}
  /\ reqs'[q].sent = {} /\ reqs'[q].with = {}
  /\ reqs'[q].phase = "done" => reqs'[q].staged = {}
  /\ reqs'[q].staged # {} =>
       /\ ~Uploading(reqs[q])
       /\ reqs'[q].staged \subseteq reqs[q].sent \cup reqs[q].with \cup PhotosOf(reqs[q].conv)
       /\ reqs[q].conv \notin overlapped' => ~IsOpen(convs'[reqs[q].conv])

LEMMA PhotoCommits ==
  ASSUME PhotoIInv, TriageIInv', NEW q \in Reqs, NEW c \in Convs,
         HasConv(reqs[q]), reqs[q].conv = c,
         \A u \in Reqs \ {q} : reqs'[u] = reqs[u] /\ calls'[u] = calls[u],
         Overlap(q, c),
         UNCHANGED <<objects, botched>>,
         calls[q] = None,
         convs'[c] # None,
         \A d \in Convs \ {c} : \/ convs'[d] = convs[d]
                                \/ convs[d] = None /\ convs'[d] = NewConversation,
         RowsMove(q), CallOpens(q), Discarding(q)
  PROVE  PhotoIInv'
<1>0. /\ \A p \in Photos :
           \/ photos'[p] = photos[p]
           \/ /\ photos[p] # None /\ photos[p].conv = c
              /\ photos'[p] # None => photos'[p].conv = c
           \/ /\ Uploading(reqs[q]) /\ p \in reqs[q].with
              /\ photos'[p] = [conv |-> c, turn |-> None]
      /\ reqs[q].phase = "put" /\ reqs[q].op = "DETACH" =>
           \A p \in reqs[q].with : photos'[p] = None
      /\ calls'[q] # None =>
           /\ reqs'[q].op = "REPLY" /\ reqs'[q].conv = c
           /\ calls'[q] = reqs[q].sent \cup reqs[q].with /\ ~Uploading(reqs[q])
           /\ c \notin overlapped' => /\ ~IsOpen(convs'[c])
                                     /\ calls'[q] \subseteq SentPhotos(c)'
           /\ \A p \in calls'[q] \cap reqs'[q].staged : photos'[p] = None
      /\ reqs'[q].phase \in {"committed", "done"}
      /\ reqs'[q].sent = {} /\ reqs'[q].with = {}
      /\ reqs'[q].phase = "done" => reqs'[q].staged = {}
      /\ reqs'[q].staged # {} =>
           /\ ~Uploading(reqs[q])
           /\ reqs'[q].staged \subseteq reqs[q].sent \cup reqs[q].with \cup PhotosOf(c)
           /\ c \notin overlapped' => ~IsOpen(convs'[c])
  BY DEF RowsMove, CallOpens, Discarding
<1>1. /\ overlapped \subseteq overlapped'
      /\ c \notin overlapped' => \A u \in Reqs \ {q} : HasConv(reqs[u]) => reqs[u].conv # c
      /\ \A d \in Convs \ {c} : d \notin overlapped <=> d \notin overlapped'
  BY DEF Overlap, HasConv, Underway
<1>2. /\ Names(q) /\ Views(q) /\ Fresh(q)
      /\ convs[c] # None
      /\ c \notin overlapped => IsOpen(convs[c])
      /\ ~HasConv(reqs'[q]) /\ ~Copying(reqs'[q]) /\ ~Uploading(reqs'[q])
  BY <1>0 DEF PhotoIInv, Views, TriageIInv, Local, HasConv, Copying, Uploading
<1>3. /\ photos \in [Photos -> PhotoRow \cup {None}]
      /\ photos' \in [Photos -> PhotoRow \cup {None}]
      /\ \A p \in Photos : photos[p] # None =>
           photos[p].conv \in Convs /\ convs[photos[p].conv] # None
      /\ \A p \in Photos : photos'[p] # None => photos'[p].conv \in Convs
      /\ IsOpen(NewConversation) /\ NewConversation # None
  <2>1. photos \in [Photos -> PhotoRow \cup {None}] /\ photos' \in [Photos -> PhotoRow \cup {None}]
    BY DEF PhotoIInv, TriageIInv, TriageTypeOK
  <2>2. NewConversation \in Row /\ IsOpen(NewConversation)
    BY DEF NewConversation, Row, Statuses, IsOpen
  <2> QED BY <2>1, <2>2, TriageAssumption DEF PhotoIInv, BytesKept, PhotoRow
<1>4. \A d \in Convs \ {c} : convs[d] # None => convs'[d] = convs[d]
  OBVIOUS
(* The rows.                                                               *)
<1>5. \A p \in Photos :
        /\ photos[p] # None /\ photos[p].conv # c => photos'[p] = photos[p]
        /\ photos'[p] # None /\ photos'[p].conv # c => photos'[p] = photos[p]
        /\ photos'[p] # None /\ photos[p] # None => photos'[p].conv = photos[p].conv
        /\ photos'[p] # None /\ photos[p] = None =>
             Uploading(reqs[q]) /\ p \in reqs[q].with /\ photos'[p].conv = c
  <2>1. [conv |-> c, turn |-> None].conv = c
    OBVIOUS
  <2>2. \A p \in Photos : Uploading(reqs[q]) /\ p \in reqs[q].with => photos[p] = None
    BY <1>2 DEF Fresh
  <2> SUFFICES ASSUME NEW p \in Photos
               PROVE  /\ photos[p] # None /\ photos[p].conv # c => photos'[p] = photos[p]
                      /\ photos'[p] # None /\ photos'[p].conv # c => photos'[p] = photos[p]
                      /\ photos'[p] # None /\ photos[p] # None => photos'[p].conv = photos[p].conv
                      /\ photos'[p] # None /\ photos[p] = None =>
                           Uploading(reqs[q]) /\ p \in reqs[q].with /\ photos'[p].conv = c
    OBVIOUS
  <2>3. CASE photos'[p] = photos[p]
    BY <2>3
  <2>4. CASE /\ photos[p] # None /\ photos[p].conv = c
             /\ photos'[p] # None => photos'[p].conv = c
    BY <2>4
  <2>5. CASE /\ Uploading(reqs[q]) /\ p \in reqs[q].with
             /\ photos'[p] = [conv |-> c, turn |-> None]
    BY <2>1, <2>2, <2>5
  <2> QED BY <1>0, <2>3, <2>4, <2>5
<1>6. \A d \in Convs \ {c} : SentPhotos(d)' = SentPhotos(d) /\ ListUnbound(d)' = ListUnbound(d)
  BY <1>3, <1>5 DEF SentPhotos, ListUnbound, PhotosOf
(* Nothing is wanted that was not, but what was uploaded.                  *)
<1>7. ASSUME NEW p \in Photos, Attached(p)', photos'[p] # None, photos'[p].conv \notin overlapped'
      PROVE  \/ Attached(p) /\ photos[p] # None /\ photos'[p].conv # c
             \/ /\ photos[p] # None /\ photos[p].conv = c /\ IsOpen(convs[c])
                /\ calls'[q] # None /\ p \in calls'[q]
  <2>1. PICK u \in Reqs : calls'[u] # None /\ reqs'[u].conv \notin overlapped' /\ p \in calls'[u]
    BY <1>7 DEF Attached
  <2>2. CASE u = q
    <3>1. c \notin overlapped' /\ p \in SentPhotos(c)' /\ p \in reqs[q].sent \cup reqs[q].with
      BY <1>0, <2>1, <2>2
    <3>2. photos[p] # None
      BY <1>0, <1>5, <1>7, <2>1, <2>2
    <3>3. photos'[p].conv = c
      BY <3>1 DEF SentPhotos, PhotosOf
    <3> QED BY <1>1, <1>2, <1>5, <1>7, <2>1, <2>2, <3>1, <3>2, <3>3
  <2>3. CASE u # q
    <3>1. calls[u] # None /\ reqs[u].conv \notin overlapped /\ p \in calls[u] /\ Opens(u)
      BY <1>1, <2>1, <2>3 DEF PhotoIInv
    <3>2. /\ photos[p] # None /\ photos[p].conv = reqs[u].conv
          /\ ~IsOpen(convs[reqs[u].conv])
      BY <3>1 DEF Opens, SentPhotos, PhotosOf
    <3>3. reqs[u].conv # c
      BY <1>2, <3>1, <3>2
    <3> QED BY <1>5, <1>7, <3>1, <3>2, <3>3 DEF Attached
  <2> QED BY <2>2, <2>3
<1>8. ASSUME NEW p \in Photos, Wanted(p)'
      PROVE  Wanted(p) \/ (Uploading(reqs[q]) /\ p \in reqs[q].with)
  <2>1. photos'[p] # None /\ photos'[p].conv \notin overlapped'
    BY <1>8 DEF Wanted
  <2>2. CASE photos[p] = None
    BY <1>5, <2>1, <2>2
  <2>3. CASE photos[p] # None
    <3>1. /\ photos'[p].conv = photos[p].conv /\ photos[p].conv \notin overlapped
          /\ photos[p].conv \in Convs /\ convs[photos[p].conv] # None
      BY <1>1, <1>3, <1>5, <2>1, <2>3
    <3>2. CASE photos[p].conv = c
      BY <1>2, <2>3, <3>1, <3>2 DEF Wanted
    <3>3. CASE photos[p].conv # c
      <4>1. convs'[photos[p].conv] = convs[photos[p].conv]
        BY <1>4, <3>1, <3>3
      <4>2. Attached(p)' => Attached(p)
        BY <1>7, <2>1, <3>1, <3>3
      <4> QED BY <1>8, <2>3, <3>1, <4>1, <4>2 DEF Wanted
    <3> QED BY <3>2, <3>3
  <2> QED BY <2>2, <2>3
<1>9. ASSUME NEW p \in Photos PROVE BytesKept(p)'
  <2>1. photos'[p] # None => convs'[photos'[p].conv] # None
    BY <1>3, <1>4, <1>5
  <2>2. ASSUME Wanted(p)' PROVE p \in objects' \/ p \in botched' \/ Removing(p)'
    <3>1. CASE Uploading(reqs[q]) /\ p \in reqs[q].with
      BY <1>2, <3>1 DEF Fresh
    <3>2. CASE Wanted(p)
      <4>1. p \in objects \/ p \in botched \/ Removing(p)
        BY <3>2 DEF PhotoIInv, BytesKept
      <4>2. photos'[p] # None
        BY <2>2 DEF Wanted
      <4>3. Removing(p) => Removing(p)'
        BY <1>0, <4>2 DEF Removing
      <4> QED BY <4>1, <4>3
    <3> QED BY <1>8, <2>2, <3>1, <3>2
  <2> QED BY <2>1, <2>2 DEF BytesKept
(* The other requests.                                                     *)
<1>10. ASSUME NEW u \in Reqs, u # q
       PROVE  Names(u)' /\ Views(u)' /\ Fresh(u)' /\ Opens(u)' /\ Discards(u)'
  <2>1. /\ reqs'[u] = reqs[u] /\ calls'[u] = calls[u]
        /\ Names(u) /\ Views(u) /\ Fresh(u) /\ Opens(u) /\ Discards(u)
    BY <1>10 DEF PhotoIInv
  <2>2. Names(u)'
    BY <2>1 DEF Names, Copying, HasConv
  <2>3. reqs[u] \in Req /\ (HasConv(reqs[u]) => reqs[u].conv \in Convs /\ convs[reqs[u].conv] # None)
    BY DEF PhotoIInv, TriageIInv, TriageTypeOK, Local
  <2>4. reqs[u].sent \subseteq Photos /\ reqs[u].with \subseteq Photos /\ reqs[u].staged \subseteq Photos
    BY <2>3 DEF Req
  <2>5. Uploading(reqs[q]) => \A p \in reqs[q].with :
          p \notin reqs[u].staged \cup reqs[u].sent \cup reqs[u].with
    BY <1>2, <1>10 DEF Fresh
  <2>6. Views(u)'
    <3> SUFFICES ASSUME HasConv(reqs[u])
                 PROVE  /\ ~Uploading(reqs[u]) =>
                             \A p \in reqs[u].sent \cup reqs[u].with :
                               photos'[p] # None => photos'[p].conv = reqs[u].conv
                        /\ reqs[u].conv \notin overlapped' =>
                             /\ IsOpen(convs'[reqs[u].conv])
                             /\ Copying(reqs[u]) => reqs[u].sent = SentPhotos(reqs[u].conv)'
                             /\ ~Uploading(reqs[u]) => reqs[u].with \subseteq ListUnbound(reqs[u].conv)'
      BY <2>1 DEF Views, HasConv, Copying, Uploading
    <3>1. ASSUME ~Uploading(reqs[u]), NEW p \in reqs[u].sent \cup reqs[u].with, photos'[p] # None
          PROVE  photos'[p].conv = reqs[u].conv
      BY <1>5, <2>1, <2>4, <2>5, <3>1 DEF Views
    <3>2. ASSUME reqs[u].conv \notin overlapped'
          PROVE  /\ IsOpen(convs'[reqs[u].conv])
                 /\ Copying(reqs[u]) => reqs[u].sent = SentPhotos(reqs[u].conv)'
                 /\ ~Uploading(reqs[u]) => reqs[u].with \subseteq ListUnbound(reqs[u].conv)'
      <4>1. reqs[u].conv \in Convs \ {c}
        BY <1>1, <1>10, <2>3, <3>2
      <4> QED BY <1>1, <1>4, <1>6, <2>1, <2>3, <3>2, <4>1 DEF Views
    <3> QED BY <3>1, <3>2
  <2>7. Fresh(u)'
    <3> SUFFICES ASSUME Uploading(reqs[u]), NEW p \in reqs[u].with
                 PROVE  /\ p \in objects' /\ photos'[p] = None
                        /\ \A v \in Reqs : /\ p \notin reqs'[v].staged \cup reqs'[v].sent
                                           /\ v # u => p \notin reqs'[v].with
                                           /\ calls'[v] # None => p \notin calls'[v]
      BY <2>1 DEF Fresh, Uploading
    <3>1. /\ p \in objects /\ photos[p] = None /\ p \in Photos
          /\ \A v \in Reqs : /\ p \notin reqs[v].staged \cup reqs[v].sent
                             /\ v # u => p \notin reqs[v].with
                             /\ calls[v] # None => p \notin calls[v]
      BY <2>1, <2>4 DEF Fresh
    <3>2. photos'[p] = None
      BY <1>5, <1>10, <3>1
    <3>3. p \notin PhotosOf(c)
      BY <3>1 DEF PhotosOf
    <3>4. p \notin reqs'[q].staged /\ (calls'[q] # None => p \notin calls'[q])
      BY <1>0, <1>10, <3>1, <3>3
    <3> QED BY <1>0, <3>1, <3>2, <3>4
  <2>8. Opens(u)'
    <3> SUFFICES ASSUME calls[u] # None
                 PROVE  /\ reqs[u].op = "REPLY" /\ reqs[u].conv \in Convs
                        /\ reqs[u].conv \notin overlapped' =>
                             /\ convs'[reqs[u].conv] # None
                             /\ ~IsOpen(convs'[reqs[u].conv])
                             /\ calls[u] \subseteq SentPhotos(reqs[u].conv)'
      BY <2>1 DEF Opens
    <3>1. reqs[u].op = "REPLY" /\ reqs[u].conv \in Convs
      BY <2>1 DEF Opens
    <3>2. ASSUME reqs[u].conv \notin overlapped'
          PROVE  /\ convs'[reqs[u].conv] # None
                 /\ ~IsOpen(convs'[reqs[u].conv])
                 /\ calls[u] \subseteq SentPhotos(reqs[u].conv)'
      <4>1. /\ reqs[u].conv \notin overlapped /\ convs[reqs[u].conv] # None
            /\ ~IsOpen(convs[reqs[u].conv]) /\ calls[u] \subseteq SentPhotos(reqs[u].conv)
        BY <1>1, <2>1, <3>2 DEF Opens
      <4>2. reqs[u].conv \in Convs \ {c}
        BY <1>2, <3>1, <4>1
      <4> QED BY <1>4, <1>6, <4>1, <4>2
    <3> QED BY <3>1, <3>2
  <2>9. Discards(u)'
    <3> SUFFICES ASSUME NEW p \in reqs[u].staged, Wanted(p)' PROVE FALSE
      BY <2>1 DEF Discards
    <3> QED BY <1>8, <2>1, <2>4, <2>5 DEF Discards
  <2> QED BY <2>2, <2>6, <2>7, <2>8, <2>9
(* The request itself.                                                     *)
<1>11. Names(q)' /\ Views(q)' /\ Fresh(q)'
  BY <1>0, <1>2 DEF Names, Views, Fresh
<1>12. Opens(q)'
  BY <1>0 DEF Opens
<1>13. Discards(q)'
  <2> SUFFICES ASSUME NEW p \in reqs'[q].staged, Wanted(p)' PROVE FALSE
    BY DEF Discards
  <2>1. p \in Photos
    BY DEF TriageIInv, TriageTypeOK, Req
  <2>2. Wanted(p) /\ photos[p] # None
    BY <1>0, <1>8, <2>1 DEF Wanted
  <2>3. photos[p].conv = c
    BY <1>0, <1>2, <2>2 DEF Views, PhotosOf
  <2>4. photos'[p] # None /\ photos'[p].conv = c /\ c \notin overlapped'
    BY <1>5, <2>1, <2>2, <2>3 DEF Wanted
  <2>5. ~IsOpen(convs'[c])
    BY <1>0, <2>4
  <2>6. Attached(p)'
    BY <2>4, <2>5 DEF Wanted
  <2>7. calls'[q] # None /\ p \in calls'[q]
    BY <1>7, <2>1, <2>4, <2>6
  <2> QED BY <1>0, <2>1, <2>4, <2>7
<1> QED
  <2>1. ASSUME NEW u \in Reqs
        PROVE  Names(u)' /\ Views(u)' /\ Fresh(u)' /\ Opens(u)' /\ Discards(u)'
    <3>1. CASE u = q
      BY <1>11, <1>12, <1>13, <3>1
    <3>2. CASE u # q
      BY <1>10, <3>2
    <3> QED BY <3>1, <3>2
  <2> QED BY <1>9, <2>1 DEF PhotoIInv

(* A request that has committed a save holds only what it will discard.    *)
LEMMA CommittedHolds ==
  ASSUME PhotoIInv, NEW q \in Reqs, reqs[q].phase = "reread",
         NEW staged \in SUBSET Photos, Committed(q, staged)
  PROVE  /\ HasConv(reqs[q]) /\ ~Uploading(reqs[q]) /\ Copying(reqs[q])
         /\ \A u \in Reqs \ {q} : reqs'[u] = reqs[u]
         /\ Overlap(q, reqs[q].conv)
         /\ UNCHANGED <<objects, botched>>
         /\ reqs'[q].phase \in {"committed", "done"}
         /\ reqs'[q].sent = {} /\ reqs'[q].with = {} /\ reqs'[q].staged = staged
         /\ reqs'[q].phase = "done" => staged = {}
         /\ reqs[q].op = "REPLY" => reqs'[q].op = "REPLY" /\ reqs'[q].conv = reqs[q].conv
         /\ calls[q] = None
<1>1. reqs \in [Reqs -> Req] /\ calls[q] = None
  BY DEF PhotoIInv, TriageIInv, TriageTypeOK, Local
<1>2. /\ Settled(q, "done").phase = "done" /\ Settled(q, "done").staged = {}
      /\ Settled(q, "done").sent = {} /\ Settled(q, "done").with = {}
      /\ reqs[q].op = "REPLY" => Settled(q, "done").op = "REPLY"
                                 /\ Settled(q, "done").conv = reqs[q].conv
  BY SettledHoldsNothing
<1> DEFINE s == Settled(q, "committed")
           r == [s EXCEPT !.staged = staged]
<1>3. /\ s \in Req /\ s.phase = "committed"
      /\ s.sent = {} /\ s.with = {}
      /\ reqs[q].op = "REPLY" => s.op = "REPLY" /\ s.conv = reqs[q].conv
  BY <1>1, SettledIsRequest, SettledHoldsNothing
<1> HIDE DEF s
<1>4. /\ r.phase = "committed" /\ r.staged = staged
      /\ r.sent = {} /\ r.with = {}
      /\ reqs[q].op = "REPLY" => r.op = "REPLY" /\ r.conv = reqs[q].conv
  BY <1>3 DEF Req
<1>5. \/ staged = {} /\ reqs' = [reqs EXCEPT ![q] = Settled(q, "done")]
      \/ reqs' = [reqs EXCEPT ![q] = r]
  BY DEF Committed, s
<1> HIDE DEF r
<1> QED BY <1>1, <1>2, <1>4, <1>5 DEF Committed, HasConv, Uploading, Copying

(* What binding a turn's photos and deleting the unbound ones leave.       *)
LEMMA BoundRows ==
  ASSUME PhotoIInv, NEW q \in Reqs, HasConv(reqs[q]), ~Uploading(reqs[q]),
         NEW P \in {{}, reqs[q].with},
         \/ photos' = Bind(P, q)
         \/ photos' = DeleteUnbound(Bind(P, q), reqs[q].conv)
  PROVE  \A p \in Photos :
           /\ \/ photos'[p] = photos[p]
              \/ /\ photos[p] # None /\ photos[p].conv = reqs[q].conv
                 /\ photos'[p] # None => photos'[p].conv = reqs[q].conv
           /\ photos[p] # None /\ photos[p].conv = reqs[q].conv
                /\ (photos[p].turn # None \/ p \in P) =>
                /\ photos'[p] # None /\ photos'[p].conv = reqs[q].conv
                /\ photos'[p].turn # None
<1> DEFINE B == Bind(P, q)
<1>1. photos \in [Photos -> PhotoRow \cup {None}] /\ Views(q) /\ None \notin PhotoRow /\ q # None
  BY TriageAssumption DEF PhotoIInv, TriageIInv, TriageTypeOK
<1>2. ASSUME NEW p \in Photos
      PROVE  /\ p \in P /\ photos[p] # None =>
                  B[p] = [photos[p] EXCEPT !.turn = q]
             /\ ~(p \in P /\ photos[p] # None) => B[p] = photos[p]
  BY DEF Bind
<1> HIDE DEF B
<1>3. ASSUME NEW p \in Photos, p \in P, photos[p] # None
      PROVE  B[p] # None /\ B[p].conv = photos[p].conv /\ B[p].turn = q
  <2>1. photos[p] \in PhotoRow /\ [photos[p] EXCEPT !.turn = q] \in PhotoRow
    BY <1>1, <1>3 DEF PhotoRow
  <2> QED BY <1>1, <1>2, <1>3, <2>1 DEF PhotoRow
<1>4. ASSUME NEW p \in Photos, p \in P, photos[p] # None PROVE photos[p].conv = reqs[q].conv
  BY <1>1, <1>4 DEF Views
<1>5. ASSUME NEW p \in Photos
      PROVE  /\ B[p] = photos[p] \/ (photos[p] # None /\ photos[p].conv = reqs[q].conv
                                     /\ B[p] # None /\ B[p].conv = reqs[q].conv)
             /\ photos[p] # None /\ photos[p].conv = reqs[q].conv
                  /\ (photos[p].turn # None \/ p \in P) =>
                  /\ B[p] # None /\ B[p].conv = reqs[q].conv
                  /\ B[p].turn # None
  BY <1>1, <1>2, <1>3, <1>4
<1>6. CASE photos' = B
  BY <1>5, <1>6
<1>7. CASE photos' = DeleteUnbound(B, reqs[q].conv)
  <2>1. ASSUME NEW p \in Photos
        PROVE  /\ B[p] # None /\ B[p].conv = reqs[q].conv /\ B[p].turn = None => photos'[p] = None
               /\ ~(B[p] # None /\ B[p].conv = reqs[q].conv /\ B[p].turn = None) => photos'[p] = B[p]
    BY <1>7 DEF DeleteUnbound
  <2> QED BY <1>5, <2>1
<1> QED BY <1>6, <1>7 DEF B

LEMMA PhotoTurns ==
  ASSUME PhotoIInv, TriageIInv', NEW q \in Reqs,
         \/ TurnCommit(q) \/ ClosingCommit(q) \/ EscalateCommit(q)
         \/ EndCommit(q) \/ \E n \in Convs : RetireCommit(q, n)
  PROVE  PhotoIInv'
<1>0. reqs[q].phase = "reread"
  BY DEF TurnCommit, ClosingCommit, EscalateCommit, EndCommit, RetireCommit
<1>c. PICK c \in Convs : c = reqs[q].conv
  BY <1>0, SavedRows DEF PhotoIInv
<1>1. /\ reqs[q] \in Req /\ c \in Convs /\ convs[c] # None
      /\ c \notin overlapped => IsOpen(reqs[q].basis)
      /\ reqs[q].copy \in Row /\ reqs[q].basis \in Row /\ convs[c] \in Row
      /\ Saved(q) \in [Convs -> Row \cup {None}]
      /\ Saved(q)[c] \in Row
      /\ Saved(q)[c] = Merged(reqs[q].copy, reqs[q].basis, convs[c])
      /\ \A d \in Convs \ {c} : Saved(q)[d] = convs[d]
      /\ ~IsOpen(reqs[q].copy) => IndexAllows(Saved(q))
      /\ Ends(q)
  BY <1>0, <1>c, SavedRows DEF PhotoIInv, TriageIInv, TriageTypeOK, Local, Copying
<1>2. ~IsOpen(reqs[q].copy) /\ c \notin overlapped => ~IsOpen(Saved(q)[c])
  BY <1>1, MergedStaysClosed
<1>3. overlapped \subseteq overlapped' \/ ~Overlap(q, c)
  BY DEF Overlap
<1>4. /\ DiscardPhotos(q) \in SUBSET Photos /\ DiscardUnbound(q) \in SUBSET Photos
      /\ reqs[q].sent \in SUBSET Photos /\ reqs[q].with \in SUBSET Photos
  BY <1>1, PhotoTables DEF PhotoIInv, TriageIInv, TriageTypeOK, Req
<1>5. /\ DiscardPhotos(q) \subseteq reqs[q].sent \cup reqs[q].with \cup PhotosOf(c)
      /\ DiscardUnbound(q) \subseteq PhotosOf(c)
  BY <1>c DEF DiscardPhotos, DiscardUnbound, ListUnbound
<1>6. photos = Bind({}, q)
  BY DEF Bind, PhotoIInv, TriageIInv, TriageTypeOK
<1>7. CASE TurnCommit(q)
  <2>1. /\ Committed(q, {}) /\ photos' = Bind(reqs[q].with, q) /\ calls' = calls /\ convs' = Saved(q)
    BY <1>c, <1>7 DEF TurnCommit
  <2>2. /\ HasConv(reqs[q]) /\ ~Uploading(reqs[q])
        /\ \A u \in Reqs \ {q} : reqs'[u] = reqs[u] /\ calls'[u] = calls[u]
        /\ Overlap(q, c) /\ UNCHANGED <<objects, botched>>
        /\ reqs'[q].phase \in {"committed", "done"}
        /\ reqs'[q].sent = {} /\ reqs'[q].with = {} /\ reqs'[q].staged = {}
        /\ calls[q] = None /\ calls'[q] = None
    BY <1>0, <2>1, CommittedHolds, <1>c
  <2>3. \A p \in Photos :
          \/ photos'[p] = photos[p]
          \/ /\ photos[p] # None /\ photos[p].conv = c
             /\ photos'[p] # None => photos'[p].conv = c
    BY <2>1, <2>2, BoundRows, <1>c
  <2>4. ~(reqs[q].phase = "put" /\ reqs[q].op = "DETACH")
    BY <1>0
  <2>5. convs'[c] # None
    BY <1>1, <2>1, TriageAssumption
  <2>6. RowsMove(q) /\ CallOpens(q) /\ Discarding(q)
    BY <2>2, <2>3, <2>4, <1>c DEF RowsMove, CallOpens, Discarding
  <2> QED BY <1>1, <2>1, <2>2, <2>5, <2>6, PhotoCommits, <1>c
<1>8. CASE ClosingCommit(q)
  <2>1. /\ Committed(q, DiscardPhotos(q))
        /\ photos' = DeleteUnbound(Bind(reqs[q].with, q), c)
        /\ calls' = calls /\ convs' = Saved(q)
        /\ reqs[q].marker \in {"SOLVED", "CLOSED"} /\ reqs[q].op = "REPLY"
    BY <1>c, <1>8 DEF ClosingCommit
  <2>2. /\ HasConv(reqs[q]) /\ ~Uploading(reqs[q])
        /\ \A u \in Reqs \ {q} : reqs'[u] = reqs[u] /\ calls'[u] = calls[u]
        /\ Overlap(q, c) /\ UNCHANGED <<objects, botched>>
        /\ reqs'[q].phase \in {"committed", "done"}
        /\ reqs'[q].sent = {} /\ reqs'[q].with = {} /\ reqs'[q].staged = DiscardPhotos(q)
        /\ reqs'[q].phase = "done" => reqs'[q].staged = {}
        /\ calls[q] = None /\ calls'[q] = None
    BY <1>0, <1>4, <2>1, CommittedHolds, <1>c
  <2>3. \A p \in Photos :
          \/ photos'[p] = photos[p]
          \/ /\ photos[p] # None /\ photos[p].conv = c
             /\ photos'[p] # None => photos'[p].conv = c
    BY <2>1, <2>2, BoundRows, <1>c
  <2>4. ~(reqs[q].phase = "put" /\ reqs[q].op = "DETACH")
    BY <1>0
  <2>5. convs'[c] # None
    BY <1>1, <2>1, TriageAssumption
  <2>6. c \notin overlapped' => ~IsOpen(convs'[c])
    BY <1>0, <1>1, <1>2, <1>3, <2>1, <2>2 DEF Ends
  <2>7. RowsMove(q) /\ CallOpens(q)
    BY <2>2, <2>3, <2>4, <1>c DEF RowsMove, CallOpens
  <2>8. Discarding(q)
    BY <1>5, <2>2, <2>6, <1>c DEF Discarding
  <2> QED BY <1>1, <2>1, <2>2, <2>5, <2>7, <2>8, PhotoCommits, <1>c
<1>9. CASE EscalateCommit(q)
  <2> DEFINE A == reqs[q].sent \cup reqs[q].with
  <2>1. /\ Committed(q, DiscardUnbound(q))
        /\ photos' = DeleteUnbound(Bind(reqs[q].with, q), c)
        /\ calls' = [calls EXCEPT ![q] = reqs[q].sent \cup reqs[q].with]
        /\ convs' = Saved(q)
        /\ reqs[q].marker = "ESCALATE" /\ reqs[q].op = "REPLY"
    BY <1>c, <1>9 DEF EscalateCommit
  <2>2. /\ HasConv(reqs[q]) /\ ~Uploading(reqs[q]) /\ Copying(reqs[q])
        /\ \A u \in Reqs \ {q} : reqs'[u] = reqs[u] /\ calls'[u] = calls[u]
        /\ Overlap(q, c) /\ UNCHANGED <<objects, botched>>
        /\ reqs'[q].phase \in {"committed", "done"}
        /\ reqs'[q].sent = {} /\ reqs'[q].with = {} /\ reqs'[q].staged = DiscardUnbound(q)
        /\ reqs'[q].phase = "done" => reqs'[q].staged = {}
        /\ reqs'[q].op = "REPLY" /\ reqs'[q].conv = c
        /\ calls[q] = None /\ calls'[q] = A
    <3>1. calls \in [Reqs -> (SUBSET Photos) \cup {None}]
      BY DEF PhotoIInv, TriageIInv, TriageTypeOK
    <3> QED BY <1>0, <1>4, <2>1, <3>1, CommittedHolds, <1>c
  <2>3. \A p \in Photos :
          \/ photos'[p] = photos[p]
          \/ /\ photos[p] # None /\ photos[p].conv = c
             /\ photos'[p] # None => photos'[p].conv = c
    BY <2>1, <2>2, BoundRows, <1>c
  <2>4. ~(reqs[q].phase = "put" /\ reqs[q].op = "DETACH")
    BY <1>0
  <2>5. convs'[c] # None
    BY <1>1, <2>1, TriageAssumption
  <2>6. c \notin overlapped' => c \notin overlapped /\ ~IsOpen(convs'[c])
    BY <1>0, <1>1, <1>2, <1>3, <2>1, <2>2 DEF Ends
  <2>7. ASSUME c \notin overlapped' PROVE A \subseteq SentPhotos(c)'
    <3>1. reqs[q].sent = SentPhotos(c) /\ reqs[q].with \subseteq ListUnbound(c)
      BY <1>c, <2>2, <2>6, <2>7 DEF PhotoIInv, Views
    <3>2. \A p \in A : /\ p \in Photos /\ photos[p] # None /\ photos[p].conv = c
                       /\ photos[p].turn # None \/ p \in reqs[q].with
      BY <3>1 DEF SentPhotos, ListUnbound, PhotosOf
    <3>3. \A p \in Photos :
            photos[p] # None /\ photos[p].conv = c /\ (photos[p].turn # None \/ p \in reqs[q].with) =>
              photos'[p] # None /\ photos'[p].conv = c /\ photos'[p].turn # None
      BY <2>1, <2>2, BoundRows, <1>c
    <3> QED BY <3>2, <3>3 DEF SentPhotos, ListUnbound, PhotosOf
  <2>8. \A p \in DiscardUnbound(q) : photos'[p] = None
    <3> SUFFICES ASSUME NEW p \in DiscardUnbound(q) PROVE photos'[p] = None
      OBVIOUS
    <3>1. /\ p \in Photos /\ p \notin reqs[q].with
          /\ photos[p] # None /\ photos[p].conv = c /\ photos[p].turn = None
      BY <1>c DEF DiscardUnbound, ListUnbound, PhotosOf
    <3>2. Bind(reqs[q].with, q)[p] = photos[p]
      BY <3>1 DEF Bind
    <3> QED BY <2>1, <3>1, <3>2 DEF DeleteUnbound
  <2>9. \A p \in calls'[q] \cap reqs'[q].staged : photos'[p] = None
    BY <2>2, <2>8
  <2>10. RowsMove(q)
    BY <2>2, <2>3, <2>4, <1>c DEF RowsMove
  <2>11. CallOpens(q)
    BY <2>2, <2>6, <2>7, <2>9, <1>c DEF CallOpens
  <2>12. Discarding(q)
    BY <1>5, <2>2, <2>6, <1>c DEF Discarding
  <2> QED BY <1>1, <2>1, <2>2, <2>5, <2>10, <2>11, <2>12, PhotoCommits, <1>c
<1>10. CASE EndCommit(q) \/ \E n \in Convs : RetireCommit(q, n)
  <2>1. /\ Committed(q, DiscardPhotos(q))
        /\ photos' = DeleteUnbound(Bind({}, q), c)
        /\ calls' = calls /\ reqs[q].op \in {"START", "END"}
    BY <1>c, <1>6, <1>10 DEF EndCommit, RetireCommit
  <2>2. /\ HasConv(reqs[q]) /\ ~Uploading(reqs[q])
        /\ \A u \in Reqs \ {q} : reqs'[u] = reqs[u] /\ calls'[u] = calls[u]
        /\ Overlap(q, c) /\ UNCHANGED <<objects, botched>>
        /\ reqs'[q].phase \in {"committed", "done"}
        /\ reqs'[q].sent = {} /\ reqs'[q].with = {} /\ reqs'[q].staged = DiscardPhotos(q)
        /\ reqs'[q].phase = "done" => reqs'[q].staged = {}
        /\ calls[q] = None /\ calls'[q] = None
    BY <1>0, <1>4, <2>1, CommittedHolds, <1>c
  <2>3. \A p \in Photos :
          \/ photos'[p] = photos[p]
          \/ /\ photos[p] # None /\ photos[p].conv = c
             /\ photos'[p] # None => photos'[p].conv = c
    BY <2>1, <2>2, BoundRows, <1>c
  <2>4. ~(reqs[q].phase = "put" /\ reqs[q].op = "DETACH")
    BY <1>0
  <2>5. ~IsOpen(reqs[q].copy)
    BY <1>1, <2>1 DEF Ends, IsOpen
  <2>6. /\ convs'[c] = Saved(q)[c]
        /\ \A d \in Convs \ {c} : \/ convs'[d] = convs[d]
                                  \/ convs[d] = None /\ convs'[d] = NewConversation
    <3>1. CASE EndCommit(q)
      BY <1>1, <3>1 DEF EndCommit
    <3>2. CASE \E n \in Convs : RetireCommit(q, n)
      <4>1. PICK n \in Convs : convs' = Opened(Saved(q), n) /\ convs[n] = None
        BY <3>2 DEF RetireCommit
      <4>2. n # c
        BY <1>1, <4>1
      <4>3. /\ \A d \in Convs \ {n} : convs'[d] = Saved(q)[d]
            /\ convs'[n] \in {Saved(q)[n], NewConversation}
        BY <1>1, <2>5, <4>1, OpenedAllows
      <4> QED BY <1>1, <4>1, <4>2, <4>3
    <3> QED BY <1>10, <3>1, <3>2
  <2>7. convs'[c] # None
    BY <1>1, <2>6, TriageAssumption
  <2>8. c \notin overlapped' => ~IsOpen(convs'[c])
    <3>1. ASSUME c \notin overlapped' PROVE ~IsOpen(Saved(q)[c])
      BY <1>2, <1>3, <2>2, <2>5, <3>1
    <3> QED BY <2>6, <3>1
  <2>9. RowsMove(q) /\ CallOpens(q)
    BY <2>2, <2>3, <2>4, <1>c DEF RowsMove, CallOpens
  <2>10. Discarding(q)
    BY <1>5, <2>2, <2>8, <1>c DEF Discarding
  <2> QED BY <1>1, <2>2, <2>6, <2>7, <2>9, <2>10, PhotoCommits, <1>c
<1> QED BY <1>7, <1>8, <1>9, <1>10

LEMMA PhotoRowCommits ==
  ASSUME PhotoIInv, TriageIInv', NEW q \in Reqs, AttachCommit(q) \/ DetachCommit(q)
  PROVE  PhotoIInv'
<1> DEFINE c == reqs[q].conv
<1>1. /\ reqs[q].phase = "put" /\ reqs' = [reqs EXCEPT ![q] = Settled(q, "done")]
      /\ Overlap(q, c) /\ UNCHANGED <<convs, calls, objects, botched>>
  BY DEF AttachCommit, DetachCommit
<1>2. /\ HasConv(reqs[q]) /\ c \in Convs /\ convs[c] # None /\ calls[q] = None
      /\ reqs \in [Reqs -> Req] /\ Views(q)
  BY <1>1 DEF PhotoIInv, TriageIInv, TriageTypeOK, Local, HasConv
<1>3. /\ \A u \in Reqs \ {q} : reqs'[u] = reqs[u] /\ calls'[u] = calls[u]
      /\ reqs'[q].phase \in {"committed", "done"}
      /\ reqs'[q].sent = {} /\ reqs'[q].with = {} /\ reqs'[q].staged = {}
      /\ calls'[q] = None /\ convs'[c] # None
      /\ \A d \in Convs \ {c} : convs'[d] = convs[d]
  BY <1>1, <1>2, SettledHoldsNothing
<1>4. CASE AttachCommit(q)
  <2>1. Uploading(reqs[q]) /\ ~(reqs[q].phase = "put" /\ reqs[q].op = "DETACH")
    BY <1>4 DEF AttachCommit, Uploading
  <2>2. \A p \in Photos : \/ photos'[p] = photos[p]
                          \/ p \in reqs[q].with /\ photos'[p] = [conv |-> c, turn |-> None]
    BY <1>4 DEF AttachCommit
  <2>3. RowsMove(q) /\ CallOpens(q) /\ Discarding(q)
    BY <1>3, <2>1, <2>2 DEF RowsMove, CallOpens, Discarding
  <2> QED BY <1>1, <1>2, <1>3, <2>3, PhotoCommits
<1>5. CASE DetachCommit(q)
  <2>1. ~Uploading(reqs[q])
    BY <1>5 DEF DetachCommit, Uploading
  <2>2. \A p \in Photos : /\ p \in reqs[q].with => photos'[p] = None
                          /\ p \notin reqs[q].with => photos'[p] = photos[p]
    BY <1>5 DEF DetachCommit
  <2>3. reqs[q].with \subseteq Photos
    BY <1>2 DEF Req
  <2>4. \A p \in Photos :
          \/ photos'[p] = photos[p]
          \/ /\ photos[p] # None /\ photos[p].conv = c
             /\ photos'[p] # None => photos'[p].conv = c
    <3>1. \A p \in reqs[q].with : photos[p] # None => photos[p].conv = c
      BY <1>2, <2>1 DEF Views
    <3> QED BY <2>2, <3>1
  <2>5. RowsMove(q) /\ CallOpens(q) /\ Discarding(q)
    BY <1>3, <2>2, <2>3, <2>4 DEF RowsMove, CallOpens, Discarding
  <2> QED BY <1>1, <1>2, <1>3, <2>5, PhotoCommits
<1> QED BY <1>4, <1>5

LEMMA PhotoInitially == TriageInit => PhotoIInv
<1> SUFFICES ASSUME TriageInit PROVE PhotoIInv
  OBVIOUS
<1>1. TriageIInv
  BY TriageInitially
<1>2. /\ photos = [p \in Photos |-> None] /\ calls = [q \in Reqs |-> None]
      /\ reqs = [q \in Reqs |-> Blank]
  BY DEF TriageInit, PhotoInit
<1>3. \A p \in Photos : BytesKept(p)
  BY <1>2 DEF BytesKept, Wanted
<1>4. ASSUME NEW u \in Reqs PROVE Names(u) /\ Views(u) /\ Fresh(u) /\ Opens(u) /\ Discards(u)
  BY <1>2 DEF Names, Views, Fresh, Opens, Discards, Blank, HasConv, Copying, Uploading
<1> QED BY <1>1, <1>3, <1>4 DEF PhotoIInv

LEMMA PhotoInductive == PhotoIInv /\ [TriageNext]_triageVars => PhotoIInv'
<1> SUFFICES ASSUME PhotoIInv, [TriageNext]_triageVars PROVE PhotoIInv'
  OBVIOUS
<1>1. TriageIInv'
  BY TriageInvariance DEF PhotoIInv
<1>2. CASE UNCHANGED triageVars
  BY <1>1, <1>2 DEF triageVars, PhotoIInv, BytesKept, Wanted, Attached, Removing, Names, Views, Fresh,
                    Opens, Discards, HasConv, Copying, Uploading, IsOpen, SentPhotos, ListUnbound, PhotosOf
<1>3. ASSUME NEW c \in Convs, Idle(c) PROVE PhotoIInv'
  BY <1>1, <1>3, PhotoRests
<1>4. ASSUME NEW q \in Reqs, Handle(q) PROVE PhotoIInv'
  <2>1. CASE StartLook(q)
    BY <1>1, <2>1, PhotoRests
  <2>2. ASSUME NEW c \in Convs, StartExpired(q, c) \/ EndLoad(q, c) PROVE PhotoIInv'
    BY <1>1, <2>2, PhotoLoads
  <2>3. ASSUME NEW c \in Convs, NEW P \in SUBSET Photos, ReplyLoad(q, c, P) PROVE PhotoIInv'
    BY <1>1, <2>3, PhotoLoads
  <2>4. ASSUME NEW marker \in Markers, Answer(q, marker) PROVE PhotoIInv'
    BY <1>1, <2>4, PhotoProgress
  <2>5. CASE SaveReread(q) \/ DetachRemove(q)
    BY <1>1, <2>5, PhotoProgress
  <2>6. CASE TurnCommit(q) \/ ClosingCommit(q) \/ EscalateCommit(q) \/ EndCommit(q)
    BY <1>1, <2>6, PhotoTurns
  <2>7. ASSUME NEW n \in Convs, RetireCommit(q, n) PROVE PhotoIInv'
    BY <1>1, <2>7, PhotoTurns
  <2>8. ASSUME NEW n \in Convs, StartCommit(q, n) PROVE PhotoIInv'
    BY <1>1, <2>8, PhotoRests
  <2>9. CASE RemoveDiscarded(q) \/ Fail(q)
    BY <1>1, <2>9, PhotoSettles
  <2>10. ASSUME NEW c \in Convs, NEW p \in Photos, AttachPut(q, c, p) \/ DetachLoad(q, c, p)
         PROVE  PhotoIInv'
    BY <1>1, <2>10, PhotoLoads
  <2>11. CASE AttachCommit(q) \/ DetachCommit(q)
    BY <1>1, <2>11, PhotoRowCommits
  <2> QED BY <1>4, <2>1, <2>2, <2>3, <2>4, <2>5, <2>6, <2>7, <2>8, <2>9, <2>10, <2>11 DEF Handle
<1> QED BY <1>2, <1>3, <1>4 DEF TriageNext

(* The bytes of a photo outlive their use: a sent photo of an open         *)
(* conversation and every attachment of a service call are in the object   *)
(* store, wherever a request fails, unless two requests of the             *)
(* conversation overlapped or the photo's detach died half way.            *)
THEOREM BytesOutliveTheirUse == TriageSpec => []PhotosOutliveTheirUse
<1>1. PhotoIInv => PhotosOutliveTheirUse
  <2> SUFFICES ASSUME PhotoIInv PROVE PhotosOutliveTheirUse
    OBVIOUS
  <2>1. ASSUME NEW p \in Photos, Wanted(p), photos[p].turn # None
        PROVE  p \in objects \cup botched
    <3>1. ~Removing(p)
      <4> SUFFICES ASSUME NEW u \in Reqs, reqs[u].phase = "put", reqs[u].op = "DETACH",
                          p \in reqs[u].with
                   PROVE  FALSE
        BY DEF Removing
      <4>1. Views(u) /\ HasConv(reqs[u]) /\ ~Uploading(reqs[u])
        BY DEF PhotoIInv, HasConv, Uploading
      <4>2. photos[p] # None /\ photos[p].conv \notin overlapped
        BY <2>1 DEF Wanted
      <4>3. p \in ListUnbound(reqs[u].conv)
        BY <4>1, <4>2 DEF Views
      <4> QED BY <2>1, <4>3 DEF ListUnbound
    <3> QED BY <2>1, <3>1 DEF PhotoIInv, BytesKept
  <2>2. ASSUME NEW c \in Convs \ overlapped, NEW p \in Photos \ botched,
               convs[c] # None, IsOpen(convs[c]), InUse(p, c)
        PROVE  p \in objects
    BY <2>1, <2>2 DEF InUse, Wanted
  <2>3. ASSUME NEW q \in Reqs, calls[q] # None, reqs[q].conv \notin overlapped
        PROVE  calls[q] \subseteq objects \cup botched
    <3>1. Opens(q) /\ calls[q] \subseteq SentPhotos(reqs[q].conv)
      BY <2>3 DEF PhotoIInv, Opens
    <3>2. ASSUME NEW p \in calls[q] PROVE p \in objects \cup botched
      <4>1. /\ p \in Photos /\ photos[p] # None /\ photos[p].conv = reqs[q].conv
            /\ photos[p].turn # None
        BY <3>1 DEF SentPhotos, ListUnbound, PhotosOf
      <4>2. Wanted(p)
        BY <2>3, <4>1 DEF Wanted, Attached
      <4> QED BY <2>1, <4>1, <4>2
    <3> QED BY <3>2
  <2> QED BY <2>2, <2>3 DEF PhotosOutliveTheirUse
<1> QED BY <1>1, PhotoInitially, PhotoInductive, PTL DEF TriageSpec

----------------------------------------------------------------------------
(* The knowledge base.                                                     *)

(* What the request is at, by the operation it serves.                     *)
Shape(q) ==
  LET r == kbReqs[q] IN
  /\ r.op = None => r.phase \in {"idle", "committed", "failed"}
  /\ r.op = "UPLOAD" =>
       /\ r.phase \in {"found", "added", "indexing"}
       /\ r.doc = q /\ r.row \in DocumentRow
       /\ r.phase # "indexing" => r.written = 0
  /\ r.op = "DELETE" =>
       /\ r.phase \in {"loaded", "removed"}
       /\ r.doc \in KbReqs /\ r.row \in DocumentRow /\ r.row.count = Batches
       /\ kbReqs[r.doc].phase = "committed"
  /\ r.op = "REINDEX" =>
       /\ r.phase \in {"reset", "listed", "indexing"}
       /\ r.updated \subseteq Stored
       /\ r.phase = "reset" => r.updated = {}
       /\ r.phase = "indexing" => r.doc \in KbReqs

(* A stored document is counted in full; its request is over.              *)
Counted == \A d \in Stored : documents[d].count = Batches /\ kbReqs[d].phase = "committed"

Writing(q) == kbReqs[q].op = "UPLOAD" /\ kbReqs[q].phase \in {"added", "indexing"}

(* An insert has its content to itself.                                    *)
InsertsApart ==
  \A q \in KbReqs : Writing(q) =>
    /\ \A d \in Stored : documents[d].content # kbReqs[q].row.content
    /\ \A p \in KbReqs \ {q} : Writing(p) => kbReqs[p].row.content # kbReqs[q].row.content

Emptied(d) == \E q \in KbReqs : /\ kbReqs[q].op = "DELETE"
                                /\ kbReqs[q].phase = "removed"
                                /\ kbReqs[q].doc = d

(* The vectors the table holds while nobody re-indexes.                    *)
Held(d, b) ==
  IF documents[d] # None THEN IF Emptied(d) THEN None ELSE documents[d].model
  ELSE IF Writing(d) /\ b <= kbReqs[d].written THEN model ELSE None

Kept == \A d \in KbReqs, b \in 1..Batches : chunk[<<d, b>>] = Held(d, b)

(* What a re-index that runs alone has written so far.                     *)
Rebuilt(q) ==
  LET r == kbReqs[q] IN
  /\ \A p \in KbReqs \ {q} : ~Touching(p)
  /\ r.phase # "reset" => r.todo \cup r.updated = Stored
  /\ r.phase = "indexing" => r.doc \in r.todo
  /\ r.todo \cap r.updated = {}
  /\ \A d \in KbReqs, b \in 1..Batches :
       chunk[<<d, b>>] =
         IF d \in r.updated \/ (r.phase = "indexing" /\ d = r.doc /\ b <= r.written)
         THEN model ELSE None

KbIInv ==
  /\ KbTypeOK
  /\ kbReqs = [q \in KbReqs |-> kbReqs[q]]
  /\ \A q \in KbReqs : Shape(q)
  /\ Counted
  /\ OneDocumentPerContent
  /\ InsertsApart
  /\ \A q \in KbReqs : Reindexing(q) /\ kbReqs[q].alone => Rebuilt(q)
  /\ ~damaged => /\ \A q \in KbReqs : Reindexing(q) => kbReqs[q].alone
                 /\ (\A q \in KbReqs : ~Reindexing(q)) => Kept

(* Another request that begins to touch the index takes "alone" from a     *)
(* re-index, and nothing else from anybody.                                *)
SameButAlone(s, r) ==
  /\ s \in KbReq
  /\ s.phase = r.phase /\ s.op = r.op /\ s.doc = r.doc /\ s.row = r.row
  /\ s.written = r.written /\ s.todo = r.todo /\ s.updated = r.updated
  /\ s.alone => r.alone

(* The request of q has become s, and the others are as they were.         *)
Becomes(q, s) ==
  /\ kbReqs' = [p \in KbReqs |-> kbReqs'[p]]
  /\ kbReqs'[q] = s
  /\ \A p \in KbReqs \ {q} : SameButAlone(kbReqs'[p], kbReqs[p])

LEMMA OneBecomes ==
  ASSUME KbIInv, NEW q \in KbReqs, NEW s \in KbReq, kbReqs' = [kbReqs EXCEPT ![q] = s]
  PROVE  Becomes(q, s) /\ \A p \in KbReqs \ {q} : kbReqs'[p] = kbReqs[p]
<1>1. \A p \in KbReqs : kbReqs[p] \in KbReq
  BY DEF KbIInv, KbTypeOK
<1>2. kbReqs' = [p \in KbReqs |-> IF p = q THEN s ELSE kbReqs[p]]
  BY DEF KbIInv
<1>3. kbReqs' = [p \in KbReqs |-> kbReqs'[p]]
  BY <1>2
<1> QED BY <1>1, <1>2, <1>3 DEF Becomes, SameButAlone

LEMMA DisturbedBecomes ==
  ASSUME KbIInv, NEW q \in KbReqs, NEW s \in KbReq, kbReqs' = Disturbed(q, s)
  PROVE  /\ Becomes(q, s)
         /\ \A p \in KbReqs \ {q} : Reindexing(p) => ~kbReqs'[p].alone
<1>1. kbReqs' = [p \in KbReqs |-> kbReqs'[p]] /\ kbReqs'[q] = s
  BY DEF Disturbed
<1>2. ASSUME NEW p \in KbReqs \ {q}
      PROVE  SameButAlone(kbReqs'[p], kbReqs[p]) /\ (Reindexing(p) => ~kbReqs'[p].alone)
  <2>1. PICK r \in KbReq : r = kbReqs[p]
    BY DEF KbIInv, KbTypeOK
  <2>2. PICK x \in KbReq : x = [r EXCEPT !.alone = FALSE]
    BY DEF KbReq
  <2>3. /\ x.phase = r.phase /\ x.op = r.op /\ x.doc = r.doc /\ x.row = r.row
        /\ x.written = r.written /\ x.todo = r.todo /\ x.updated = r.updated
        /\ x.alone = FALSE
    BY <2>2 DEF KbReq
  <2>4. kbReqs'[p] = IF Reindexing(p) THEN x ELSE r
    BY <2>1, <2>2 DEF Disturbed
  <2> QED BY <2>1, <2>3, <2>4 DEF SameButAlone
<1> QED BY <1>1, <1>2 DEF Becomes

(* Who touches the index, and how, for the requests that did not step.     *)
LEMMA OthersTouch ==
  ASSUME NEW q \in KbReqs, NEW s, Becomes(q, s), NEW p \in KbReqs \ {q}
  PROVE  /\ Touching(p)' <=> Touching(p)
         /\ Reindexing(p)' <=> Reindexing(p)
         /\ Writing(p)' <=> Writing(p)
         /\ kbReqs'[p].alone => kbReqs[p].alone
BY DEF Becomes, SameButAlone, Touching, Reindexing, Writing

(* A step of one request that leaves the rows alone.                       *)
LEMMA RowsStay ==
  ASSUME KbIInv, NEW q \in KbReqs, NEW s \in KbReq, Becomes(q, s),
         UNCHANGED <<documents, model>>, kbReqs[q].phase # "committed",
         chunk' \in [Chunks -> Models \cup {None}], table' \in BOOLEAN, damaged' \in BOOLEAN,
         Shape(q)',
         Writing(q)' => \/ Writing(q) /\ s.row = kbReqs[q].row
                        \/ /\ ContentIsFree(s.row.content)
                           /\ \A p \in KbReqs \ {q} : ~Inserting(p, s.row.content),
         \A p \in KbReqs : Reindexing(p)' /\ kbReqs'[p].alone => Rebuilt(p)',
         ~damaged' => /\ \A p \in KbReqs : Reindexing(p)' => kbReqs'[p].alone
                      /\ (\A p \in KbReqs : ~Reindexing(p)') => Kept'
  PROVE  KbIInv'
<1>0. kbReqs'[q] = s /\ q \notin Stored /\ Stored' = Stored
  BY DEF Becomes, KbIInv, Counted, Stored
<1>1. \A p \in KbReqs : kbReqs'[p] \in KbReq
  BY <1>0 DEF Becomes, SameButAlone
<1>2. KbTypeOK'
  BY <1>1 DEF KbIInv, KbTypeOK
<1>3. ASSUME NEW p \in KbReqs PROVE Shape(p)'
  <2>1. CASE p # q
    <3>1. \A d \in KbReqs : kbReqs[d].phase = "committed" => kbReqs'[d].phase = "committed"
      BY DEF Becomes, SameButAlone
    <3>2. Shape(p) /\ SameButAlone(kbReqs'[p], kbReqs[p])
      BY <2>1 DEF KbIInv, Becomes
    <3> QED BY <1>0, <3>1, <3>2 DEF Shape, SameButAlone
  <2> QED BY <2>1
<1>4. Counted'
  <2>1. ASSUME NEW d \in Stored PROVE documents'[d].count = Batches /\ kbReqs'[d].phase = "committed"
    <3>1. d \in KbReqs \ {q} /\ documents[d].count = Batches /\ kbReqs[d].phase = "committed"
      BY <1>0 DEF KbIInv, Counted, Stored
    <3> QED BY <3>1 DEF Becomes, SameButAlone
  <2> QED BY <1>0, <2>1 DEF Counted
<1>5. OneDocumentPerContent'
  BY <1>0 DEF KbIInv, OneDocumentPerContent
<1>6. InsertsApart'
  <2>1. \A p \in KbReqs \ {q} : (Writing(p)' <=> Writing(p)) /\ kbReqs'[p].row = kbReqs[p].row
    BY OthersTouch DEF Becomes, SameButAlone
  <2>2. CASE ~Writing(q)'
    BY <1>0, <2>1, <2>2 DEF KbIInv, InsertsApart
  <2>3. CASE Writing(q)' /\ Writing(q) /\ s.row = kbReqs[q].row
    BY <1>0, <2>1, <2>3 DEF KbIInv, InsertsApart
  <2>4. CASE /\ ContentIsFree(s.row.content)
             /\ \A p \in KbReqs \ {q} : ~Inserting(p, s.row.content)
    <3>1. \A d \in Stored : documents[d].content # s.row.content
      BY <2>4 DEF ContentIsFree, FindByContent
    <3>2. \A p \in KbReqs \ {q} : Writing(p) => kbReqs[p].row.content # s.row.content
      BY <2>4 DEF Inserting, Writing
    <3> QED BY <1>0, <2>1, <3>1, <3>2 DEF KbIInv, InsertsApart
  <2> QED BY <2>2, <2>3, <2>4
<1> QED BY <1>2, <1>3, <1>4, <1>5, <1>6 DEF KbIInv, Becomes

(* A request that comes or goes without having touched the index.          *)
LEMMA QuietStep ==
  ASSUME KbIInv, NEW q \in KbReqs, NEW s \in KbReq, kbReqs' = [kbReqs EXCEPT ![q] = s],
         UNCHANGED <<documents, model, chunk, table>>,
         damaged' = damaged, kbReqs[q].phase # "committed",
         Shape(q)', ~Touching(q), ~Touching(q)'
  PROVE  KbIInv'
<1>1. Becomes(q, s) /\ \A p \in KbReqs \ {q} : kbReqs'[p] = kbReqs[p]
  BY OneBecomes
<1>2. /\ chunk \in [Chunks -> Models \cup {None}] /\ table \in BOOLEAN /\ damaged \in BOOLEAN
  BY DEF KbIInv, KbTypeOK
<1>3. \A p \in KbReqs : /\ Touching(p)' <=> Touching(p)
                        /\ Reindexing(p)' <=> Reindexing(p)
                        /\ Writing(p)' <=> Writing(p)
                        /\ Reindexing(p)' => p # q
  BY <1>1, OthersTouch DEF Reindexing, Touching, Writing
<1>4. ASSUME NEW p \in KbReqs, Reindexing(p)', kbReqs'[p].alone PROVE Rebuilt(p)'
  <2>1. Rebuilt(p) /\ p # q /\ kbReqs'[p] = kbReqs[p]
    BY <1>1, <1>3, <1>4 DEF KbIInv
  <2> QED BY <1>3, <2>1 DEF Rebuilt, Stored
<1>5. ASSUME Kept PROVE Kept'
  <2>1. \A d \in KbReqs : /\ Emptied(d)' <=> Emptied(d)
                          /\ Writing(d)' => kbReqs'[d].written = kbReqs[d].written
    BY <1>1, <1>3 DEF Emptied, Touching, Writing
  <2>2. ASSUME NEW d \in KbReqs, NEW b \in 1..Batches PROVE Held(d, b)' = Held(d, b)
    BY <1>3, <2>1 DEF Held
  <2> QED BY <1>5, <2>2 DEF Kept
<1>6. ~damaged' => /\ \A p \in KbReqs : Reindexing(p)' => kbReqs'[p].alone
                   /\ (\A p \in KbReqs : ~Reindexing(p)') => Kept'
  BY <1>1, <1>3, <1>5 DEF KbIInv
<1>7. ~Writing(q)'
  BY <1>3 DEF Touching, Writing
<1> QED BY <1>1, <1>2, <1>4, <1>6, <1>7, RowsStay

LEMMA QuietRoutes ==
  ASSUME KbIInv, NEW q \in KbReqs,
         \/ \E c \in Contents : UploadFind(q, c)
         \/ \E d \in KbReqs : DeleteLoad(q, d)
         \/ KbFail(q) /\ ~Touching(q)
  PROVE  KbIInv'
<1>0. /\ Batches \in Nat \ {0} /\ model \in Models
      /\ documents \in [KbReqs -> DocumentRow \cup {None}] /\ damaged \in BOOLEAN
  BY KbAssumption DEF KbIInv, KbTypeOK
<1>1. KbBlank \in KbReq
  BY <1>0 DEF KbBlank, KbReq
<1>2. ASSUME NEW c \in Contents, UploadFind(q, c) PROVE KbIInv'
  <2>1. PICK row \in DocumentRow : row = [content |-> c, count |-> 0, model |-> model]
    <3>1. 0 \in 0..Batches
      BY <1>0
    <3> QED BY <1>0, <3>1 DEF DocumentRow
  <2>2. PICK s \in KbReq : s = [KbBlank EXCEPT !.phase = "found", !.op = "UPLOAD",
                                               !.doc = q, !.row = row]
    BY <1>1 DEF KbReq
  <2>3. s.phase = "found" /\ s.op = "UPLOAD" /\ s.doc = q /\ s.row = row /\ s.written = 0
    BY <2>2 DEF KbBlank
  <2>4. kbReqs' = [kbReqs EXCEPT ![q] = s] /\ kbReqs'[q] = s /\ kbReqs[q].phase = "idle"
    BY <1>2, <2>1, <2>2 DEF UploadFind, KbIInv
  <2>5. Shape(q)' /\ ~Touching(q) /\ ~Touching(q)'
    BY <2>3, <2>4, KbAssumption DEF Shape, Touching
  <2> QED BY <1>2, <2>4, <2>5, QuietStep DEF UploadFind
<1>3. ASSUME NEW d \in KbReqs, DeleteLoad(q, d) PROVE KbIInv'
  <2>1. PICK row \in DocumentRow : row = documents[d] /\ row.count = Batches
    BY <1>0, <1>3 DEF DeleteLoad, Stored, KbIInv, Counted
  <2>2. PICK s \in KbReq : s = [KbBlank EXCEPT !.phase = "loaded", !.op = "DELETE",
                                               !.doc = d, !.row = row]
    BY <1>1 DEF KbReq
  <2>3. s.phase = "loaded" /\ s.op = "DELETE" /\ s.doc = d /\ s.row = row
    BY <2>2 DEF KbBlank
  <2>4. kbReqs' = [kbReqs EXCEPT ![q] = s] /\ kbReqs'[q] = s /\ kbReqs[q].phase = "idle"
    BY <1>3, <2>1, <2>2 DEF DeleteLoad, KbIInv
  <2>5. Shape(q)' /\ ~Touching(q) /\ ~Touching(q)'
    BY <1>3, <2>1, <2>3, <2>4, KbAssumption DEF Shape, Touching, DeleteLoad, Stored, KbIInv, Counted
  <2> QED BY <1>3, <2>4, <2>5, QuietStep DEF DeleteLoad
<1>4. CASE KbFail(q) /\ ~Touching(q)
  <2>1. PICK s \in KbReq : s = [KbBlank EXCEPT !.phase = "failed"]
    BY <1>1 DEF KbReq
  <2>2. s.phase = "failed" /\ s.op = None
    BY <2>1 DEF KbBlank
  <2>3. kbReqs' = [kbReqs EXCEPT ![q] = s] /\ kbReqs'[q] = s /\ kbReqs[q].phase # "committed"
    BY <1>4, <2>1 DEF KbFail, KbIInv
  <2>4. Shape(q)' /\ ~Touching(q)'
    BY <2>2, <2>3, KbAssumption DEF Shape, Touching
  <2>5. damaged' = damaged
    BY <1>0, <1>4 DEF KbFail, LeavesDamage
  <2> QED BY <1>4, <2>3, <2>4, <2>5, QuietStep DEF KbFail
<1> QED BY <1>2, <1>3, <1>4

(* An upload or a deletion begins to touch the index: it leaves nobody to  *)
(* re-index alone, and damages what is being re-indexed.                   *)
LEMMA TouchStep ==
  ASSUME KbIInv, NEW q \in KbReqs, NEW s \in KbReq, kbReqs' = Disturbed(q, s),
         UNCHANGED <<documents, model>>, kbReqs[q].phase # "committed",
         chunk' \in [Chunks -> Models \cup {None}], table' \in BOOLEAN,
         damaged' = (damaged \/ \E p \in KbReqs : Reindexing(p)),
         Shape(q)', ~Reindexing(q), ~Reindexing(q)',
         Writing(q)' => /\ ContentIsFree(s.row.content)
                        /\ \A p \in KbReqs \ {q} : ~Inserting(p, s.row.content),
         Kept => Kept'
  PROVE  KbIInv'
<1>1. Becomes(q, s) /\ \A p \in KbReqs \ {q} : Reindexing(p) => ~kbReqs'[p].alone
  BY DisturbedBecomes
<1>2. \A p \in KbReqs : Reindexing(p)' => Reindexing(p) /\ ~kbReqs'[p].alone
  BY <1>1, OthersTouch
<1>3. damaged' \in BOOLEAN
  BY DEF KbIInv, KbTypeOK
<1>4. ASSUME ~damaged'
      PROVE  (\A p \in KbReqs : ~Reindexing(p)') /\ Kept'
  BY <1>2, <1>4 DEF KbIInv
<1> QED BY <1>1, <1>2, <1>3, <1>4, RowsStay

LEMMA UploadAddStep ==
  ASSUME KbIInv, NEW q \in KbReqs, UploadAdd(q)
  PROVE  KbIInv'
<1>1. PICK r \in KbReq : r = kbReqs[q]
  BY DEF KbIInv, KbTypeOK
<1>2. PICK s \in KbReq : s = [r EXCEPT !.phase = "added"]
  BY DEF KbReq
<1>3. /\ s.phase = "added" /\ s.op = r.op /\ s.doc = r.doc /\ s.row = r.row
      /\ s.written = r.written
  BY <1>2 DEF KbReq
<1>4. r.phase = "found" /\ r.op = "UPLOAD" /\ r.doc = q /\ r.row \in DocumentRow /\ r.written = 0
  <2>1. r.phase = "found" /\ Shape(q) /\ r.op \in {"UPLOAD", "DELETE", "REINDEX", None}
    BY <1>1 DEF UploadAdd, KbIInv, KbReq
  <2> QED BY <1>1, <2>1 DEF Shape
<1>5. kbReqs' = Disturbed(q, s) /\ UNCHANGED <<documents, chunk, table, model>>
  BY <1>1, <1>2 DEF UploadAdd
<1>6. Becomes(q, s)
  BY <1>5, DisturbedBecomes
<1>7. Shape(q)' /\ ~Reindexing(q) /\ ~Reindexing(q)' /\ Writing(q)' /\ ~Writing(q)
  BY <1>1, <1>3, <1>4, <1>6, KbAssumption DEF Shape, Reindexing, Touching, Writing, Becomes
<1>8. ASSUME Kept PROVE Kept'
  <2>1. q \notin Stored
    BY <1>1, <1>4 DEF KbIInv, Counted
  <2>2. \A d \in KbReqs : Emptied(d)' <=> Emptied(d)
    BY <1>1, <1>3, <1>4, <1>6 DEF Emptied, Becomes, SameButAlone
  <2>3. ASSUME NEW d \in KbReqs, NEW b \in 1..Batches PROVE Held(d, b)' = Held(d, b)
    <3>1. CASE d = q
      <4>1. documents[q] = None /\ ~(b <= 0)
        BY <2>1 DEF Stored
      <4> QED BY <1>3, <1>4, <1>5, <1>6, <1>7, <3>1, <4>1 DEF Held, Becomes
    <3>2. CASE d # q
      <4>1. (Writing(d)' <=> Writing(d)) /\ kbReqs'[d].written = kbReqs[d].written
        BY <1>6, <3>2, OthersTouch DEF Becomes, SameButAlone
      <4> QED BY <1>5, <2>2, <4>1 DEF Held
    <3> QED BY <3>1, <3>2
  <2> QED BY <1>5, <1>8, <2>3 DEF Kept
<1>9. chunk' \in [Chunks -> Models \cup {None}] /\ table' \in BOOLEAN
  BY <1>5 DEF KbIInv, KbTypeOK
<1> QED BY <1>1, <1>3, <1>4, <1>5, <1>7, <1>8, <1>9, TouchStep DEF UploadAdd

LEMMA RemoveDocumentStep ==
  ASSUME KbIInv, NEW q \in KbReqs, RemoveDocument(q)
  PROVE  KbIInv'
<1>1. PICK r \in KbReq : r = kbReqs[q]
  BY DEF KbIInv, KbTypeOK
<1>2. PICK s \in KbReq : s = [r EXCEPT !.phase = "removed"]
  BY DEF KbReq
<1>3. /\ s.phase = "removed" /\ s.op = r.op /\ s.doc = r.doc /\ s.row = r.row
      /\ s.written = r.written
  BY <1>2 DEF KbReq
<1>4. /\ r.phase = "loaded" /\ r.op = "DELETE" /\ r.doc \in KbReqs
      /\ r.row \in DocumentRow /\ r.row.count = Batches /\ kbReqs[r.doc].phase = "committed"
      /\ Batches \in Nat \ {0}
  BY <1>1, KbAssumption DEF RemoveDocument, KbIInv, Shape
<1>5. /\ kbReqs' = Disturbed(q, s) /\ UNCHANGED <<documents, model>>
      /\ table' = (table \/ r.row.count > 0)
      /\ chunk' = [c \in Chunks |-> IF c[1] = r.doc /\ c[2] <= Batches THEN None ELSE chunk[c]]
  BY <1>1, <1>2, <1>4 DEF RemoveDocument
<1>6. Becomes(q, s)
  BY <1>5, DisturbedBecomes
<1>7. Shape(q)' /\ ~Reindexing(q) /\ ~Reindexing(q)' /\ ~Writing(q)' /\ ~Writing(q)
  <2>1. kbReqs'[r.doc].phase = "committed"
    BY <1>1, <1>4, <1>6 DEF Becomes, SameButAlone
  <2> QED BY <1>1, <1>3, <1>4, <1>6, <2>1, KbAssumption
          DEF Shape, Reindexing, Touching, Writing, Becomes
<1>8. ASSUME Kept PROVE Kept'
  <2>1. \A d \in KbReqs \ {r.doc} : Emptied(d)' <=> Emptied(d)
    BY <1>1, <1>3, <1>4, <1>6 DEF Emptied, Becomes, SameButAlone
  <2>2. Emptied(r.doc)'
    BY <1>3, <1>4, <1>6 DEF Emptied, Becomes
  <2>3. \A d \in KbReqs : /\ Writing(d)' <=> Writing(d)
                          /\ Writing(d) => kbReqs'[d].written = kbReqs[d].written
    BY <1>6, <1>7, OthersTouch DEF Becomes, SameButAlone
  <2>4. ~Writing(r.doc)
    BY <1>4 DEF Writing
  <2>5. ASSUME NEW d \in KbReqs, NEW b \in 1..Batches PROVE chunk'[<<d, b>>] = Held(d, b)'
    <3>1. chunk'[<<d, b>>] = IF d = r.doc THEN None ELSE chunk[<<d, b>>]
      BY <1>4, <1>5 DEF Chunks
    <3>2. CASE d = r.doc
      BY <2>2, <2>3, <2>4, <3>1, <3>2 DEF Held
    <3>3. CASE d # r.doc
      BY <1>5, <1>8, <2>1, <2>3, <3>1, <3>3 DEF Held, Kept
    <3> QED BY <3>2, <3>3
  <2> QED BY <2>5 DEF Kept
<1>9. chunk' \in [Chunks -> Models \cup {None}] /\ table' \in BOOLEAN
  BY <1>5 DEF KbIInv, KbTypeOK
<1> QED BY <1>1, <1>4, <1>5, <1>7, <1>8, <1>9, TouchStep DEF RemoveDocument

LEMMA ResetStep ==
  ASSUME KbIInv, NEW q \in KbReqs, Reset(q)
  PROVE  KbIInv'
<1>1. PICK alone \in BOOLEAN : alone = ~\E p \in KbReqs : Touching(p)
  OBVIOUS
<1>2. PICK s \in KbReq : s = [KbBlank EXCEPT !.phase = "reset", !.op = "REINDEX",
                                             !.alone = alone]
  <2>1. KbBlank \in KbReq
    BY KbAssumption DEF KbBlank, KbReq
  <2> QED BY <2>1 DEF KbReq
<1>3. /\ s.phase = "reset" /\ s.op = "REINDEX" /\ s.alone = alone
      /\ s.updated = {} /\ s.todo = {}
  BY <1>2 DEF KbBlank
<1>4. /\ kbReqs' = Disturbed(q, s) /\ UNCHANGED <<documents, model>>
      /\ chunk' = [c \in Chunks |-> None] /\ table' = FALSE
      /\ damaged' = (damaged \/ ~alone) /\ kbReqs[q].phase = "idle"
  BY <1>1, <1>2 DEF Reset
<1>5. Becomes(q, s) /\ \A p \in KbReqs \ {q} : Reindexing(p) => ~kbReqs'[p].alone
  BY <1>4, DisturbedBecomes
<1>6. Shape(q)' /\ ~Writing(q)'
  BY <1>3, <1>5, KbAssumption DEF Shape, Writing, Becomes
<1>7. ASSUME NEW p \in KbReqs, Reindexing(p)', kbReqs'[p].alone PROVE Rebuilt(p)'
  <2>1. p = q /\ alone
    BY <1>3, <1>5, <1>7, OthersTouch DEF Becomes
  <2>2. \A u \in KbReqs \ {q} : ~Touching(u)'
    BY <1>1, <1>5, <2>1, OthersTouch
  <2>3. ASSUME NEW d \in KbReqs, NEW b \in 1..Batches PROVE chunk'[<<d, b>>] = None
    BY <1>4 DEF Chunks
  <2> QED BY <1>3, <1>5, <2>1, <2>2, <2>3 DEF Rebuilt, Becomes
<1>8. ASSUME ~damaged'
      PROVE  /\ \A p \in KbReqs : Reindexing(p)' => kbReqs'[p].alone
             /\ ~\A p \in KbReqs : ~Reindexing(p)'
  <2>1. alone
    BY <1>4, <1>8
  <2>2. \A p \in KbReqs \ {q} : ~Reindexing(p)'
    BY <1>1, <1>5, <2>1, OthersTouch DEF Reindexing
  <2>3. Reindexing(q)' /\ kbReqs'[q].alone
    BY <1>3, <1>5, <2>1 DEF Reindexing, Touching, Becomes
  <2> QED BY <2>2, <2>3
<1>9. /\ chunk' \in [Chunks -> Models \cup {None}] /\ table' \in BOOLEAN /\ damaged' \in BOOLEAN
  BY <1>4 DEF KbIInv, KbTypeOK
<1> QED BY <1>4, <1>5, <1>6, <1>7, <1>8, <1>9, RowsStay

(* Where a request touches the index, no other re-indexes alone; undamaged *)
(* the index is then kept up to date, unless the request re-indexes.       *)
LEMMA NobodyElse ==
  ASSUME KbIInv, NEW q \in KbReqs, Touching(q)
  PROVE  /\ \A p \in KbReqs \ {q} : Reindexing(p) => ~kbReqs[p].alone
         /\ ~damaged => \A p \in KbReqs \ {q} : ~Reindexing(p)
         /\ ~damaged /\ ~Reindexing(q) => Kept
<1>1. \A p \in KbReqs \ {q} : Reindexing(p) => ~kbReqs[p].alone
  BY DEF KbIInv, Rebuilt
<1> QED BY <1>1 DEF KbIInv

(* An upload opens the store or writes a batch.                            *)
LEMMA UploadingStep ==
  ASSUME KbIInv, NEW q \in KbReqs, kbReqs[q].op = "UPLOAD", OpenStore(q) \/ AddBatch(q)
  PROVE  KbIInv'
<1>1. PICK r \in KbReq : r = kbReqs[q]
  BY DEF KbIInv, KbTypeOK
<1>2. /\ r.op = "UPLOAD" /\ r.phase \in {"added", "indexing"} /\ r.doc = q
      /\ r.row \in DocumentRow /\ Batches \in Nat \ {0} /\ r.written \in 0..Batches
      /\ r.phase = "added" => r.written = 0
  BY <1>1, KbAssumption DEF OpenStore, AddBatch, KbIInv, Shape, KbReq
<1>3. PICK n \in 0..Batches, s \in KbReq :
        /\ kbReqs' = [kbReqs EXCEPT ![q] = s]
        /\ s.phase = "indexing" /\ s.op = "UPLOAD" /\ s.doc = q /\ s.row = r.row /\ s.written = n
        /\ \/ n = r.written /\ chunk' = chunk
           \/ n = r.written + 1 /\ chunk' = [chunk EXCEPT ![<<q, n>>] = model]
  <2>1. CASE OpenStore(q)
    <3>1. PICK s \in KbReq : s = [r EXCEPT !.phase = "indexing"]
      BY DEF KbReq
    <3>2. kbReqs' = [kbReqs EXCEPT ![q] = s] /\ chunk' = chunk
      BY <1>1, <2>1, <3>1 DEF OpenStore
    <3>3. s.phase = "indexing" /\ s.op = "UPLOAD" /\ s.doc = q /\ s.row = r.row
          /\ s.written = r.written
      BY <1>2, <3>1 DEF KbReq
    <3> QED BY <1>2, <3>2, <3>3
  <2>2. CASE AddBatch(q)
    <3>1. PICK m \in 0..Batches : m = r.written + 1
      BY <1>1, <1>2, <2>2 DEF AddBatch
    <3>2. PICK s \in KbReq : s = [r EXCEPT !.written = m]
      BY DEF KbReq
    <3>3. /\ kbReqs' = [kbReqs EXCEPT ![q] = s] /\ r.phase = "indexing"
          /\ chunk' = [chunk EXCEPT ![<<q, m>>] = model]
      BY <1>1, <1>2, <2>2, <3>1, <3>2 DEF AddBatch
    <3>4. s.phase = "indexing" /\ s.op = "UPLOAD" /\ s.doc = q /\ s.row = r.row /\ s.written = m
      BY <1>2, <3>2, <3>3 DEF KbReq
    <3> QED BY <3>1, <3>3, <3>4
  <2> QED BY <2>1, <2>2
<1>4. /\ Becomes(q, s) /\ \A p \in KbReqs \ {q} : kbReqs'[p] = kbReqs[p]
      /\ UNCHANGED <<documents, model, damaged>> /\ table' = TRUE
  BY <1>3, OneBecomes DEF OpenStore, AddBatch, KbIInv, KbTypeOK
<1>5. Shape(q)' /\ ~Reindexing(q) /\ ~Reindexing(q)' /\ Writing(q)' /\ Writing(q) /\ Touching(q)
  BY <1>1, <1>2, <1>3, <1>4, KbAssumption DEF Shape, Reindexing, Touching, Writing, Becomes
<1>6. /\ chunk \in [Chunks -> Models \cup {None}] /\ model \in Models /\ damaged \in BOOLEAN
  BY DEF KbIInv, KbTypeOK
<1>7. ASSUME NEW d \in KbReqs, NEW b \in 1..Batches
      PROVE  chunk'[<<d, b>>] = IF d = q /\ b = n /\ n # r.written THEN model ELSE chunk[<<d, b>>]
  <2>1. <<d, b>> \in Chunks /\ (<<d, b>> = <<q, n>> <=> d = q /\ b = n)
    BY DEF Chunks
  <2> QED BY <1>2, <1>3, <1>6, <2>1
<1>8. ASSUME Kept PROVE Kept'
  <2>1. q \notin Stored
    BY <1>1, <1>2 DEF KbIInv, Counted
  <2>2. \A d \in KbReqs : Emptied(d)' <=> Emptied(d)
    BY <1>1, <1>2, <1>3, <1>4 DEF Emptied, Becomes
  <2>3. ASSUME NEW d \in KbReqs, NEW b \in 1..Batches PROVE chunk'[<<d, b>>] = Held(d, b)'
    <3>1. CASE d = q
      <4>1. chunk[<<q, b>>] = IF b <= r.written THEN model ELSE None
        BY <1>1, <1>5, <1>8, <2>1 DEF Kept, Held, Stored
      <4>2. Held(q, b)' = IF b <= n THEN model ELSE None
        BY <1>3, <1>4, <1>5, <2>1 DEF Held, Stored, Becomes
      <4> QED BY <1>2, <1>3, <1>7, <3>1, <4>1, <4>2
    <3>2. CASE d # q
      <4>1. (Writing(d)' <=> Writing(d)) /\ kbReqs'[d].written = kbReqs[d].written
        BY <1>4, <3>2, OthersTouch
      <4> QED BY <1>4, <1>7, <1>8, <2>2, <3>2, <4>1 DEF Held, Kept
    <3> QED BY <3>1, <3>2
  <2> QED BY <2>3 DEF Kept
<1>9. chunk' \in [Chunks -> Models \cup {None}]
  BY <1>3, <1>6
<1>10. \A p \in KbReqs : Reindexing(p)' => Reindexing(p) /\ p # q
  BY <1>4, <1>5, OthersTouch
<1>11. \A p \in KbReqs : Reindexing(p)' => ~kbReqs'[p].alone
  BY <1>4, <1>5, <1>10, NobodyElse
<1>12. ~damaged' => (\A p \in KbReqs : ~Reindexing(p)') /\ Kept'
  BY <1>4, <1>5, <1>8, <1>10, NobodyElse
<1> QED BY <1>1, <1>2, <1>3, <1>4, <1>5, <1>6, <1>9, <1>11, <1>12, RowsStay

(* A re-index goes on.                                                     *)
LEMMA ReindexStep ==
  ASSUME KbIInv, NEW q \in KbReqs, NEW s \in KbReq, kbReqs' = [kbReqs EXCEPT ![q] = s],
         UNCHANGED <<documents, model, damaged>>,
         chunk' \in [Chunks -> Models \cup {None}], table' \in BOOLEAN,
         Shape(q)', Reindexing(q), s.op = "REINDEX", s.alone = kbReqs[q].alone,
         Rebuilt(q) => Rebuilt(q)'
  PROVE  KbIInv'
<1>1. Becomes(q, s) /\ \A p \in KbReqs \ {q} : kbReqs'[p] = kbReqs[p]
  BY OneBecomes
<1>2. kbReqs'[q] = s /\ Reindexing(q)' /\ ~Writing(q)' /\ Touching(q)
      /\ kbReqs[q].phase # "committed" /\ damaged' \in BOOLEAN
  BY <1>1 DEF Becomes, Shape, Reindexing, Touching, Writing, KbIInv, KbTypeOK
<1>3. \A p \in KbReqs \ {q} : Reindexing(p)' => Reindexing(p) /\ ~kbReqs'[p].alone
  BY <1>1, <1>2, OthersTouch, NobodyElse
<1>4. ASSUME NEW p \in KbReqs, Reindexing(p)', kbReqs'[p].alone PROVE Rebuilt(p)'
  BY <1>2, <1>3, <1>4 DEF KbIInv
<1>5. ASSUME ~damaged'
      PROVE  /\ \A p \in KbReqs : Reindexing(p)' => kbReqs'[p].alone
             /\ ~\A p \in KbReqs : ~Reindexing(p)'
  BY <1>1, <1>2, <1>3, <1>5, NobodyElse DEF KbIInv
<1> QED BY <1>1, <1>2, <1>4, <1>5, RowsStay

(* A batch of a document is written again.                                 *)
LEMMA RewriteStep ==
  ASSUME KbIInv, NEW q \in KbReqs, kbReqs[q].op = "REINDEX", AddBatch(q)
  PROVE  KbIInv'
<1>1. PICK r \in KbReq : r = kbReqs[q]
  BY DEF KbIInv, KbTypeOK
<1>2. /\ r.op = "REINDEX" /\ r.phase = "indexing" /\ r.doc \in KbReqs /\ r.updated \subseteq Stored
      /\ Batches \in Nat \ {0} /\ r.written \in 0..Batches /\ r.written < Batches
  BY <1>1, KbAssumption DEF AddBatch, KbIInv, Shape, KbReq
<1>3. PICK n \in 0..Batches : n = r.written + 1 /\ n \in 1..Batches
  BY <1>2
<1>4. PICK s \in KbReq : s = [r EXCEPT !.written = n]
  BY <1>3 DEF KbReq
<1>5. /\ s.phase = "indexing" /\ s.op = "REINDEX" /\ s.doc = r.doc /\ s.written = n
      /\ s.todo = r.todo /\ s.updated = r.updated /\ s.alone = r.alone
  BY <1>2, <1>4 DEF KbReq
<1>6. /\ kbReqs' = [kbReqs EXCEPT ![q] = s] /\ UNCHANGED <<documents, model, damaged, table>>
      /\ chunk' = [chunk EXCEPT ![<<r.doc, n>>] = model]
  BY <1>1, <1>3, <1>4 DEF AddBatch
<1>7. Becomes(q, s) /\ kbReqs'[q] = s
  BY <1>6, OneBecomes DEF Becomes
<1>8. /\ chunk \in [Chunks -> Models \cup {None}] /\ model \in Models /\ table \in BOOLEAN
  BY DEF KbIInv, KbTypeOK
<1>9. Shape(q)' /\ Reindexing(q)
  BY <1>1, <1>2, <1>5, <1>6, <1>7, KbAssumption DEF Shape, Reindexing, Touching, Stored
<1>10. ASSUME Rebuilt(q) PROVE Rebuilt(q)'
  <2>1. \A p \in KbReqs \ {q} : ~Touching(p)'
    BY <1>7, <1>10, OthersTouch DEF Rebuilt
  <2>2. ASSUME NEW d \in KbReqs, NEW b \in 1..Batches
        PROVE  chunk'[<<d, b>>] =
                 IF d \in r.updated \/ (d = r.doc /\ b <= n) THEN model ELSE None
    <3>1. chunk'[<<d, b>>] = IF d = r.doc /\ b = n THEN model ELSE chunk[<<d, b>>]
      <4>1. <<d, b>> \in Chunks /\ (<<d, b>> = <<r.doc, n>> <=> d = r.doc /\ b = n)
        BY DEF Chunks
      <4> QED BY <1>6, <1>8, <4>1
    <3>2. chunk[<<d, b>>] =
            IF d \in r.updated \/ (d = r.doc /\ b <= r.written) THEN model ELSE None
      BY <1>1, <1>2, <1>10 DEF Rebuilt
    <3>3. b <= n <=> b <= r.written \/ b = n
      BY <1>2, <1>3
    <3> QED BY <3>1, <3>2, <3>3
  <2> QED BY <1>1, <1>2, <1>5, <1>6, <1>7, <1>10, <2>1, <2>2 DEF Rebuilt, Stored
<1>11. chunk' \in [Chunks -> Models \cup {None}]
  BY <1>6, <1>8
<1> QED BY <1>1, <1>5, <1>6, <1>8, <1>9, <1>10, <1>11, ReindexStep

(* The documents are listed, the next is begun, or its row is updated.     *)
LEMMA ListingStep ==
  ASSUME KbIInv, NEW q \in KbReqs,
         ListAll(q) \/ (\E d \in KbReqs : GetContent(q, d)) \/ UpdateIndexState(q)
  PROVE  KbIInv'
<1>1. PICK r \in KbReq : r = kbReqs[q]
  BY DEF KbIInv, KbTypeOK
<1>2. /\ r.op = "REINDEX" /\ r.phase \in {"reset", "listed", "indexing"}
      /\ r.updated \subseteq Stored /\ Batches \in Nat \ {0}
      /\ r.phase = "reset" => r.updated = {}
  <2>1. r.op = "REINDEX"
    BY <1>1 DEF ListAll, GetContent, UpdateIndexState, KbIInv, Shape, KbReq
  <2> QED BY <1>1, <2>1, KbAssumption DEF KbIInv, Shape
<1>3. Reindexing(q)
  BY <1>1, <1>2 DEF Reindexing, Touching
<1>4. /\ chunk \in [Chunks -> Models \cup {None}] /\ table \in BOOLEAN
      /\ UNCHANGED <<documents, model, damaged, chunk>> /\ table' \in BOOLEAN
  BY DEF KbIInv, KbTypeOK, ListAll, GetContent, UpdateIndexState
<1>5. CASE ListAll(q)
  <2>1. PICK s \in KbReq : s = [r EXCEPT !.phase = "listed", !.todo = Stored]
    BY DEF KbReq, Stored
  <2>2. /\ s.phase = "listed" /\ s.op = "REINDEX" /\ s.todo = Stored
        /\ s.updated = r.updated /\ s.alone = r.alone
    BY <1>2, <2>1 DEF KbReq
  <2>3. kbReqs' = [kbReqs EXCEPT ![q] = s] /\ r.phase = "reset"
    BY <1>1, <1>5, <2>1 DEF ListAll
  <2>4. Becomes(q, s) /\ kbReqs'[q] = s
    BY <2>3, OneBecomes DEF Becomes
  <2>5. Shape(q)'
    BY <1>2, <1>4, <2>2, <2>4, KbAssumption DEF Shape, Stored
  <2>6. ASSUME Rebuilt(q) PROVE Rebuilt(q)'
    <3>1. \A p \in KbReqs \ {q} : ~Touching(p)'
      BY <2>4, <2>6, OthersTouch DEF Rebuilt
    <3>2. r.updated = {} /\ Stored' = Stored
      BY <1>2, <1>4, <2>3 DEF Stored
    <3>3. \A d \in KbReqs, b \in 1..Batches : chunk'[<<d, b>>] = None
      BY <1>1, <1>4, <2>3, <2>6, <3>2 DEF Rebuilt
    <3> QED BY <2>2, <2>4, <3>1, <3>2, <3>3 DEF Rebuilt
  <2> QED BY <1>1, <1>3, <1>4, <2>2, <2>3, <2>5, <2>6, ReindexStep
<1>6. ASSUME NEW d \in KbReqs, GetContent(q, d) PROVE KbIInv'
  <2>1. PICK s \in KbReq : s = [r EXCEPT !.phase = "indexing", !.doc = d, !.written = 0]
    <3>1. 0 \in 0..Batches
      BY <1>2
    <3> QED BY <3>1 DEF KbReq
  <2>2. /\ s.phase = "indexing" /\ s.op = "REINDEX" /\ s.doc = d /\ s.written = 0
        /\ s.todo = r.todo /\ s.updated = r.updated /\ s.alone = r.alone
    BY <1>2, <2>1 DEF KbReq
  <2>3. kbReqs' = [kbReqs EXCEPT ![q] = s] /\ r.phase = "listed" /\ d \in r.todo
    BY <1>1, <1>6, <2>1 DEF GetContent
  <2>4. Becomes(q, s) /\ kbReqs'[q] = s
    BY <2>3, OneBecomes DEF Becomes
  <2>5. Shape(q)'
    BY <1>2, <1>4, <2>2, <2>4, KbAssumption DEF Shape, Stored
  <2>6. ASSUME Rebuilt(q) PROVE Rebuilt(q)'
    <3>1. \A p \in KbReqs \ {q} : ~Touching(p)'
      BY <2>4, <2>6, OthersTouch DEF Rebuilt
    <3>2. \A c \in KbReqs, b \in 1..Batches :
            chunk'[<<c, b>>] = IF c \in r.updated THEN model ELSE None
      BY <1>1, <1>4, <2>3, <2>6 DEF Rebuilt
    <3>3. \A b \in 1..Batches : ~(b <= 0)
      BY <1>2
    <3>4. r.todo \cup r.updated = Stored' /\ r.todo \cap r.updated = {}
      BY <1>1, <1>4, <2>3, <2>6 DEF Rebuilt, Stored
    <3> QED BY <1>4, <2>2, <2>3, <2>4, <3>1, <3>2, <3>3, <3>4 DEF Rebuilt
  <2> QED BY <1>1, <1>3, <1>4, <2>2, <2>3, <2>5, <2>6, ReindexStep
<1>7. CASE UpdateIndexState(q)
  <2>1. r.phase = "indexing" /\ r.written = Batches /\ r.doc \in Stored
    BY <1>1, <1>7 DEF UpdateIndexState
  <2>2. PICK s \in KbReq :
          s = [r EXCEPT !.phase = "listed", !.todo = r.todo \ {r.doc},
                        !.updated = r.updated \cup {r.doc}, !.doc = None]
    BY <2>1 DEF KbReq, Stored
  <2>3. /\ s.phase = "listed" /\ s.op = "REINDEX" /\ s.todo = r.todo \ {r.doc}
        /\ s.updated = r.updated \cup {r.doc} /\ s.alone = r.alone
    BY <1>2, <2>2 DEF KbReq
  <2>4. kbReqs' = [kbReqs EXCEPT ![q] = s]
    BY <1>1, <1>7, <2>2 DEF UpdateIndexState
  <2>5. Becomes(q, s) /\ kbReqs'[q] = s
    BY <2>4, OneBecomes DEF Becomes
  <2>6. Shape(q)'
    BY <1>2, <1>4, <2>1, <2>3, <2>5, KbAssumption DEF Shape, Stored
  <2>7. ASSUME Rebuilt(q) PROVE Rebuilt(q)'
    <3>1. \A p \in KbReqs \ {q} : ~Touching(p)'
      BY <2>5, <2>7, OthersTouch DEF Rebuilt
    <3>2. \A c \in KbReqs, b \in 1..Batches :
            chunk'[<<c, b>>] = IF c \in r.updated \/ c = r.doc THEN model ELSE None
      <4>1. \A b \in 1..Batches : b <= r.written
        BY <1>2, <2>1
      <4>2. \A c \in KbReqs, b \in 1..Batches :
              chunk[<<c, b>>] = IF c \in r.updated \/ (c = r.doc /\ b <= r.written)
                                THEN model ELSE None
        BY <1>1, <2>1, <2>7 DEF Rebuilt
      <4> QED BY <1>4, <4>1, <4>2
    <3>3. /\ r.todo \cup r.updated = Stored' /\ r.todo \cap r.updated = {} /\ r.doc \in r.todo
      BY <1>1, <1>4, <2>1, <2>7 DEF Rebuilt, Stored
    <3> QED BY <1>4, <2>3, <2>5, <3>1, <3>2, <3>3 DEF Rebuilt
  <2> QED BY <1>1, <1>3, <1>4, <2>3, <2>4, <2>6, <2>7, ReindexStep
<1> QED BY <1>5, <1>6, <1>7

----------------------------------------------------------------------------
(* The ends of requests.                                                   *)

LEMMA EndedIsRequest ==
  ASSUME NEW phase \in {"committed", "failed"}
  PROVE  \E s \in KbReq : /\ s = [KbBlank EXCEPT !.phase = phase]
                          /\ s.phase = phase /\ s.op = None
<1>1. KbBlank \in KbReq
  BY KbAssumption DEF KbBlank, KbReq
<1>2. PICK s \in KbReq : s = [KbBlank EXCEPT !.phase = phase]
  BY <1>1 DEF KbReq
<1>3. s.phase = phase /\ s.op = None
  BY <1>2 DEF KbBlank
<1> QED BY <1>2, <1>3

LEMMA UploadCommitStep ==
  ASSUME KbIInv, NEW q \in KbReqs, UploadCommit(q)
  PROVE  KbIInv'
<1>1. PICK r \in KbReq : r = kbReqs[q]
  BY DEF KbIInv, KbTypeOK
<1>2. /\ r.op = "UPLOAD" /\ r.phase = "indexing" /\ r.written = Batches /\ r.doc = q
      /\ r.row \in DocumentRow /\ Batches \in Nat \ {0} /\ model \in Models
      /\ documents \in [KbReqs -> DocumentRow \cup {None}]
  BY <1>1, KbAssumption DEF UploadCommit, KbIInv, KbTypeOK, Shape
<1>3. PICK row \in DocumentRow : /\ row = IndexState(r.row) /\ row.content = r.row.content
                                 /\ row.count = Batches /\ row.model = model
  <2>1. Batches \in 0..Batches
    BY <1>2
  <2>2. PICK y \in DocumentRow : y = r.row
    BY <1>2
  <2>3. PICK row \in DocumentRow : row = [y EXCEPT !.count = Batches, !.model = model]
    BY <1>2, <2>1 DEF DocumentRow
  <2>4. row.content = y.content /\ row.count = Batches /\ row.model = model
    BY <2>3 DEF DocumentRow
  <2> QED BY <2>2, <2>3, <2>4 DEF IndexState
<1>4. PICK s \in KbReq : s = [KbBlank EXCEPT !.phase = "committed"]
                         /\ s.phase = "committed" /\ s.op = None
  BY EndedIsRequest
<1>5. /\ kbReqs' = [kbReqs EXCEPT ![q] = s] /\ documents' = [documents EXCEPT ![q] = row]
      /\ UNCHANGED <<chunk, table, model, damaged>>
  BY <1>1, <1>3, <1>4 DEF UploadCommit
<1>6. /\ Becomes(q, s) /\ kbReqs'[q] = s /\ \A p \in KbReqs \ {q} : kbReqs'[p] = kbReqs[p]
  BY <1>5, OneBecomes DEF Becomes
<1>7. /\ Touching(q) /\ Writing(q) /\ ~Reindexing(q) /\ ~Reindexing(q)' /\ ~Writing(q)'
      /\ q \notin Stored
  BY <1>1, <1>2, <1>4, <1>6, KbAssumption
     DEF Touching, Writing, Reindexing, KbIInv, Counted
<1>8. /\ documents'[q] = row /\ \A d \in KbReqs \ {q} : documents'[d] = documents[d]
      /\ Stored' = Stored \cup {q}
  BY <1>2, <1>3, <1>5, KbAssumption DEF Stored
<1>9. KbTypeOK'
  BY <1>2, <1>4, <1>5, <1>6 DEF KbIInv, KbTypeOK
<1>10. ASSUME NEW p \in KbReqs PROVE Shape(p)'
  <2>1. CASE p = q
    BY <1>4, <1>6, <2>1, KbAssumption DEF Shape
  <2>2. CASE p # q
    <3>1. \A d \in KbReqs : kbReqs[d].phase = "committed" => kbReqs'[d].phase = "committed"
      BY <1>4, <1>6
    <3>2. Shape(p) /\ kbReqs'[p] = kbReqs[p] /\ Stored \subseteq Stored'
      BY <1>6, <1>8, <2>2 DEF KbIInv
    <3> QED BY <3>1, <3>2 DEF Shape
  <2> QED BY <2>1, <2>2
<1>11. Counted'
  BY <1>3, <1>4, <1>6, <1>8 DEF KbIInv, Counted, Stored
<1>12. OneDocumentPerContent' /\ InsertsApart'
  <2>1. \A d \in Stored : documents[d].content # row.content
    BY <1>1, <1>3, <1>7 DEF KbIInv, InsertsApart
  <2>2. \A p \in KbReqs \ {q} : Writing(p)' => kbReqs'[p].row.content # row.content
    BY <1>1, <1>3, <1>6, <1>7, OthersTouch DEF KbIInv, InsertsApart
  <2>3. OneDocumentPerContent'
    BY <1>7, <1>8, <2>1 DEF KbIInv, OneDocumentPerContent, Stored
  <2>4. InsertsApart'
    BY <1>6, <1>7, <1>8, <2>2, OthersTouch DEF KbIInv, InsertsApart, Stored
  <2> QED BY <2>3, <2>4
<1>13. \A p \in KbReqs : Reindexing(p)' => ~kbReqs'[p].alone
  BY <1>6, <1>7, OthersTouch, NobodyElse
<1>14. ASSUME ~damaged' PROVE (\A p \in KbReqs : ~Reindexing(p)') /\ Kept'
  <2>1. Kept /\ \A p \in KbReqs : ~Reindexing(p)'
    BY <1>5, <1>6, <1>7, <1>14, OthersTouch, NobodyElse
  <2>2. \A d \in KbReqs : Emptied(d)' <=> Emptied(d)
    BY <1>1, <1>2, <1>4, <1>6, KbAssumption DEF Emptied
  <2>3. ~Emptied(q)
    BY <1>1, <1>2 DEF Emptied, KbIInv, Shape
  <2>4. ASSUME NEW d \in KbReqs, NEW b \in 1..Batches PROVE chunk[<<d, b>>] = Held(d, b)'
    <3>1. CASE d = q
      <4>1. chunk[<<q, b>>] = model
        BY <1>1, <1>2, <1>7, <2>1 DEF Kept, Held, Stored
      <4> QED BY <1>3, <1>8, <2>2, <2>3, <3>1, <4>1, KbAssumption DEF Held
    <3>2. CASE d # q
      <4>1. (Writing(d)' <=> Writing(d)) /\ kbReqs'[d] = kbReqs[d]
        BY <1>6, <3>2, OthersTouch
      <4> QED BY <1>5, <1>8, <2>1, <2>2, <3>2, <4>1 DEF Held, Kept
    <3> QED BY <3>1, <3>2
  <2> QED BY <1>5, <2>1, <2>4 DEF Kept
<1> QED BY <1>6, <1>9, <1>10, <1>11, <1>12, <1>13, <1>14 DEF KbIInv, Becomes

LEMMA DeleteCommitStep ==
  ASSUME KbIInv, NEW q \in KbReqs, DeleteCommit(q)
  PROVE  KbIInv'
<1>1. PICK r \in KbReq : r = kbReqs[q]
  BY DEF KbIInv, KbTypeOK
<1>2. /\ r.op = "DELETE" /\ r.phase = "removed" /\ r.doc \in Stored /\ r.doc \in KbReqs
      /\ Batches \in Nat \ {0} /\ RowIsFree(q, r.doc)
      /\ documents \in [KbReqs -> DocumentRow \cup {None}]
  BY <1>1, KbAssumption DEF DeleteCommit, KbIInv, KbTypeOK, Stored
<1>3. PICK s \in KbReq : s = [KbBlank EXCEPT !.phase = "committed"]
                         /\ s.phase = "committed" /\ s.op = None
  BY EndedIsRequest
<1>4. /\ kbReqs' = [kbReqs EXCEPT ![q] = s] /\ documents' = [documents EXCEPT ![r.doc] = None]
      /\ UNCHANGED <<chunk, table, model, damaged>>
  BY <1>1, <1>3 DEF DeleteCommit
<1>5. /\ Becomes(q, s) /\ kbReqs'[q] = s /\ \A p \in KbReqs \ {q} : kbReqs'[p] = kbReqs[p]
  BY <1>4, OneBecomes DEF Becomes
<1>6. /\ Touching(q) /\ ~Writing(q) /\ ~Reindexing(q) /\ ~Reindexing(q)' /\ ~Writing(q)'
  BY <1>1, <1>2, <1>3, <1>5, KbAssumption DEF Touching, Writing, Reindexing
<1>7. /\ documents'[r.doc] = None
      /\ \A d \in KbReqs \ {r.doc} : documents'[d] = documents[d]
      /\ Stored' = Stored \ {r.doc}
  BY <1>2, <1>4 DEF Stored
<1>8. KbTypeOK'
  BY <1>2, <1>3, <1>4, <1>5 DEF KbIInv, KbTypeOK
<1>9. ASSUME NEW p \in KbReqs PROVE Shape(p)'
  <2>1. CASE p = q
    BY <1>3, <1>5, <2>1, KbAssumption DEF Shape
  <2>2. CASE p # q
    <3>1. \A d \in KbReqs : kbReqs[d].phase = "committed" => kbReqs'[d].phase = "committed"
      BY <1>3, <1>5
    <3>2. Shape(p) /\ kbReqs'[p] = kbReqs[p]
      BY <1>5, <2>2 DEF KbIInv
    <3>3. kbReqs[p].op = "REINDEX" => Reindexing(p)
      BY <3>2 DEF Shape, Reindexing, Touching
    <3>4. kbReqs[p].op = "REINDEX" => kbReqs[p].updated \subseteq Stored'
      BY <1>2, <1>7, <2>2, <3>2, <3>3 DEF RowIsFree, Shape
    <3> QED BY <3>1, <3>2, <3>4 DEF Shape
  <2> QED BY <2>1, <2>2
<1>10. Counted'
  BY <1>3, <1>5, <1>7 DEF KbIInv, Counted, Stored
<1>11. OneDocumentPerContent' /\ InsertsApart'
  <2>1. OneDocumentPerContent'
    BY <1>7 DEF KbIInv, OneDocumentPerContent, Stored
  <2>2. InsertsApart'
    BY <1>5, <1>6, <1>7, OthersTouch DEF KbIInv, InsertsApart, Stored
  <2> QED BY <2>1, <2>2
<1>12. \A p \in KbReqs : Reindexing(p)' => ~kbReqs'[p].alone
  BY <1>5, <1>6, OthersTouch, NobodyElse
<1>13. ASSUME ~damaged' PROVE (\A p \in KbReqs : ~Reindexing(p)') /\ Kept'
  <2>1. Kept /\ \A p \in KbReqs : ~Reindexing(p)'
    BY <1>4, <1>5, <1>6, <1>13, OthersTouch, NobodyElse
  <2>2. \A d \in KbReqs \ {r.doc} : Emptied(d)' <=> Emptied(d)
    BY <1>1, <1>2, <1>3, <1>5, KbAssumption DEF Emptied
  <2>3. Emptied(r.doc) /\ ~Writing(r.doc)'
    BY <1>1, <1>2, <1>3, <1>5 DEF Emptied, Writing, KbIInv, Shape
  <2>4. ASSUME NEW d \in KbReqs, NEW b \in 1..Batches PROVE chunk[<<d, b>>] = Held(d, b)'
    <3>1. CASE d = r.doc
      <4>1. chunk[<<d, b>>] = None
        BY <1>2, <2>1, <2>3, <3>1 DEF Kept, Held, Stored
      <4> QED BY <1>7, <2>3, <3>1, <4>1 DEF Held
    <3>2. CASE d # r.doc
      <4>1. (Writing(d)' <=> Writing(d)) /\ (Writing(d) => kbReqs'[d] = kbReqs[d])
        BY <1>5, <1>6, OthersTouch
      <4> QED BY <1>4, <1>7, <2>1, <2>2, <3>2, <4>1 DEF Held, Kept
    <3> QED BY <3>1, <3>2
  <2> QED BY <1>4, <2>1, <2>4 DEF Kept
<1> QED BY <1>5, <1>8, <1>9, <1>10, <1>11, <1>12, <1>13 DEF KbIInv, Becomes

LEMMA ReindexCommitStep ==
  ASSUME KbIInv, NEW q \in KbReqs, ReindexCommit(q)
  PROVE  KbIInv'
<1>1. PICK r \in KbReq : r = kbReqs[q]
  BY DEF KbIInv, KbTypeOK
<1>2. /\ r.op = "REINDEX" /\ r.phase = "listed" /\ r.todo = {} /\ r.updated \subseteq Stored
      /\ Batches \in Nat \ {0} /\ model \in Models
      /\ documents \in [KbReqs -> DocumentRow \cup {None}]
  <2>1. r.op = "REINDEX" /\ r.phase = "listed" /\ r.todo = {}
    BY <1>1 DEF ReindexCommit, KbIInv, Shape, KbReq
  <2> QED BY <1>1, <2>1, KbAssumption DEF KbIInv, KbTypeOK, Shape
<1>3. PICK s \in KbReq : s = [KbBlank EXCEPT !.phase = "committed"]
                         /\ s.phase = "committed" /\ s.op = None
  BY EndedIsRequest
<1>4. /\ kbReqs' = [kbReqs EXCEPT ![q] = s]
      /\ documents' = [d \in KbReqs |-> IF d \in r.updated THEN IndexState(documents[d])
                                        ELSE documents[d]]
      /\ damaged' = (damaged /\ ~r.alone)
      /\ UNCHANGED <<chunk, table, model>>
  BY <1>1, <1>3 DEF ReindexCommit
<1>5. /\ Becomes(q, s) /\ kbReqs'[q] = s /\ \A p \in KbReqs \ {q} : kbReqs'[p] = kbReqs[p]
  BY <1>4, OneBecomes DEF Becomes
<1>6. /\ Touching(q) /\ ~Writing(q) /\ Reindexing(q) /\ ~Touching(q)' /\ ~Reindexing(q)'
      /\ ~Writing(q)'
  BY <1>1, <1>2, <1>3, <1>5, KbAssumption DEF Touching, Writing, Reindexing
<1>7. ASSUME NEW d \in KbReqs
      PROVE  /\ documents[d] = None <=> documents'[d] = None
             /\ documents[d] # None =>
                  /\ documents'[d] \in DocumentRow
                  /\ documents'[d].content = documents[d].content
                  /\ documents[d].count = Batches => documents'[d].count = Batches
                  /\ documents'[d].model = IF d \in r.updated THEN model ELSE documents[d].model
  <2>1. CASE d \notin r.updated
    BY <1>2, <1>4, <2>1
  <2>2. CASE d \in r.updated
    <3>1. Batches \in 0..Batches
      BY <1>2
    <3>2. PICK y \in DocumentRow : y = documents[d] /\ y # None
      BY <1>2, <2>2 DEF Stored
    <3>3. PICK row \in DocumentRow : row = [y EXCEPT !.count = Batches, !.model = model]
      BY <1>2, <3>1 DEF DocumentRow
    <3>4. row.content = y.content /\ row.count = Batches /\ row.model = model
      BY <3>3 DEF DocumentRow
    <3>5. documents'[d] = row /\ row # None
      BY <1>4, <2>2, <3>2, <3>3, KbAssumption DEF IndexState
    <3> QED BY <2>2, <3>2, <3>4, <3>5
  <2> QED BY <2>1, <2>2
<1>8. Stored' = Stored
  BY <1>7 DEF Stored
<1>9. KbTypeOK'
  <2>1. documents' \in [KbReqs -> DocumentRow \cup {None}]
    BY <1>4, <1>7
  <2>2. \A p \in KbReqs : kbReqs'[p] \in KbReq
    BY <1>3, <1>5 DEF KbIInv, KbTypeOK
  <2>3. damaged' \in BOOLEAN
    BY <1>4 DEF KbIInv, KbTypeOK, KbReq
  <2> QED BY <1>4, <2>1, <2>2, <2>3 DEF KbIInv, KbTypeOK
<1>10. ASSUME NEW p \in KbReqs PROVE Shape(p)'
  <2>1. CASE p = q
    BY <1>3, <1>5, <2>1, KbAssumption DEF Shape
  <2>2. CASE p # q
    <3>1. \A d \in KbReqs : kbReqs[d].phase = "committed" => kbReqs'[d].phase = "committed"
      BY <1>3, <1>5
    <3>2. Shape(p) /\ kbReqs'[p] = kbReqs[p]
      BY <1>5, <2>2 DEF KbIInv
    <3> QED BY <1>8, <3>1, <3>2 DEF Shape
  <2> QED BY <2>1, <2>2
<1>11. Counted'
  <2>1. ASSUME NEW d \in Stored PROVE documents'[d].count = Batches /\ kbReqs'[d].phase = "committed"
    BY <1>3, <1>5, <1>7 DEF KbIInv, Counted, Stored
  <2> QED BY <1>8, <2>1 DEF Counted
<1>12. OneDocumentPerContent' /\ InsertsApart'
  <2>1. \A d \in Stored : documents'[d].content = documents[d].content
    BY <1>7 DEF Stored
  <2>2. OneDocumentPerContent'
    BY <1>8, <2>1 DEF KbIInv, OneDocumentPerContent
  <2>3. \A p \in KbReqs : Writing(p)' => Writing(p) /\ kbReqs'[p] = kbReqs[p]
    BY <1>5, <1>6, OthersTouch
  <2>4. InsertsApart'
    BY <1>8, <2>1, <2>3 DEF KbIInv, InsertsApart
  <2> QED BY <2>2, <2>4
<1>13. \A p \in KbReqs : Reindexing(p)' => ~kbReqs'[p].alone
  BY <1>5, <1>6, OthersTouch, NobodyElse
<1>14. ASSUME ~damaged' PROVE (\A p \in KbReqs : ~Reindexing(p)') /\ Kept'
  <2>1. r.alone /\ Rebuilt(q)
    BY <1>1, <1>4, <1>6, <1>14 DEF KbIInv, KbTypeOK, KbReq
  <2>2. \A p \in KbReqs : ~Touching(p)'
    BY <1>5, <1>6, <2>1, OthersTouch DEF Rebuilt
  <2>3. \A d \in KbReqs : ~Emptied(d)' /\ ~Writing(d)'
    BY <2>2 DEF Emptied, Writing, Touching
  <2>4. r.updated = Stored
    BY <1>1, <1>2, <2>1 DEF Rebuilt
  <2>5. ASSUME NEW d \in KbReqs, NEW b \in 1..Batches PROVE chunk[<<d, b>>] = Held(d, b)'
    <3>1. chunk[<<d, b>>] = IF d \in Stored THEN model ELSE None
      BY <1>1, <1>2, <2>1, <2>4 DEF Rebuilt
    <3> QED BY <1>4, <1>7, <2>3, <2>4, <3>1 DEF Held, Stored
  <2> QED BY <1>4, <2>2, <2>5 DEF Kept, Reindexing
<1> QED BY <1>5, <1>9, <1>10, <1>11, <1>12, <1>13, <1>14 DEF KbIInv, Becomes

(* A request gives up what it changed in the index.                        *)
LEMMA KbFailStep ==
  ASSUME KbIInv, NEW q \in KbReqs, KbFail(q), Touching(q)
  PROVE  KbIInv'
<1>1. PICK r \in KbReq : r = kbReqs[q]
  BY DEF KbIInv, KbTypeOK
<1>2. PICK s \in KbReq : s = [KbBlank EXCEPT !.phase = "failed"]
                         /\ s.phase = "failed" /\ s.op = None
  BY EndedIsRequest
<1>3. /\ kbReqs' = [kbReqs EXCEPT ![q] = s] /\ damaged' = (damaged \/ LeavesDamage(q))
      /\ UNCHANGED <<documents, chunk, table, model>> /\ kbReqs[q].phase # "committed"
  BY <1>2 DEF KbFail
<1>4. /\ Becomes(q, s) /\ kbReqs'[q] = s /\ \A p \in KbReqs \ {q} : kbReqs'[p] = kbReqs[p]
  BY <1>3, OneBecomes DEF Becomes
<1>5. Shape(q)' /\ ~Touching(q)' /\ ~Reindexing(q)' /\ ~Writing(q)'
  BY <1>2, <1>4, KbAssumption DEF Shape, Touching, Reindexing, Writing
<1>6. \A p \in KbReqs : Reindexing(p)' => Reindexing(p) /\ p # q /\ ~kbReqs'[p].alone
  BY <1>4, <1>5, OthersTouch, NobodyElse
<1>7. ASSUME ~damaged' PROVE (\A p \in KbReqs : ~Reindexing(p)') /\ Kept'
  <2>1. ~damaged /\ Writing(q) /\ r.written = 0
    <3>1. ~damaged /\ ~LeavesDamage(q)
      BY <1>3, <1>7
    <3>2. r.op = "UPLOAD" /\ ~(r.written > 0) /\ r.written \in 0..Batches /\ Batches \in Nat
      BY <1>1, <3>1, KbAssumption DEF LeavesDamage, KbReq
    <3>3. r.written = 0
      BY <3>2
    <3> QED BY <1>1, <3>1, <3>2, <3>3 DEF Writing, Touching
  <2>2. Kept /\ \A p \in KbReqs : ~Reindexing(p)'
    BY <1>6, <2>1, NobodyElse DEF Writing, Reindexing
  <2>3. \A d \in KbReqs : Emptied(d)' <=> Emptied(d)
    BY <1>2, <1>4, <2>1, KbAssumption DEF Emptied, Writing
  <2>4. ASSUME NEW d \in KbReqs, NEW b \in 1..Batches PROVE chunk[<<d, b>>] = Held(d, b)'
    <3>1. CASE d = q
      <4>1. ~(b <= 0) /\ documents[q] = None
        BY <1>3, KbAssumption, <2>1 DEF KbIInv, Counted, Stored
      <4> QED BY <1>1, <1>3, <1>5, <2>1, <2>2, <3>1, <4>1 DEF Held, Kept
    <3>2. CASE d # q
      <4>1. (Writing(d)' <=> Writing(d)) /\ kbReqs'[d] = kbReqs[d]
        BY <1>4, <3>2, OthersTouch
      <4> QED BY <1>3, <2>2, <2>3, <4>1 DEF Held, Kept
    <3> QED BY <3>1, <3>2
  <2> QED BY <1>3, <2>2, <2>4 DEF Kept
<1>8. chunk' \in [Chunks -> Models \cup {None}] /\ table' \in BOOLEAN /\ damaged' \in BOOLEAN
  BY <1>3 DEF KbIInv, KbTypeOK
<1> QED BY <1>3, <1>4, <1>5, <1>6, <1>7, <1>8, RowsStay

(* The process dies with all its requests.                                 *)
LEMMA RestartStep ==
  ASSUME KbIInv, NEW m \in Models, Restart(m)
  PROVE  KbIInv'
<1>1. PICK s \in KbReq : s = [KbBlank EXCEPT !.phase = "failed"]
                         /\ s.phase = "failed" /\ s.op = None
  BY EndedIsRequest
<1>2. /\ kbReqs' = [q \in KbReqs |-> IF kbReqs[q].phase \in {"idle", "committed", "failed"}
                                     THEN kbReqs[q] ELSE s]
      /\ damaged' = (damaged \/ \E q \in KbReqs : LeavesDamage(q))
      /\ model' = m /\ UNCHANGED <<documents, chunk, table>>
  BY <1>1 DEF Restart
<1>3. ASSUME NEW q \in KbReqs
      PROVE  /\ kbReqs'[q] \in KbReq /\ kbReqs'[q].op = None
             /\ kbReqs'[q].phase \in {"idle", "committed", "failed"}
             /\ kbReqs[q].phase = "committed" => kbReqs'[q].phase = "committed"
  <2>1. kbReqs[q] \in KbReq /\ Shape(q)
    BY DEF KbIInv, KbTypeOK
  <2>2. kbReqs[q].phase \in {"idle", "committed", "failed"} => kbReqs[q].op = None
    BY <2>1 DEF Shape, KbReq
  <2> QED BY <1>1, <1>2, <2>1, <2>2
<1>4. \A q \in KbReqs : Shape(q)' /\ ~Writing(q)' /\ ~Reindexing(q)' /\ ~Emptied(q)'
  BY <1>3, KbAssumption DEF Shape, Writing, Reindexing, Emptied
<1>5. KbTypeOK'
  BY <1>2, <1>3 DEF KbIInv, KbTypeOK
<1>6. Counted' /\ OneDocumentPerContent' /\ InsertsApart'
  <2>1. Stored' = Stored
    BY <1>2 DEF Stored
  <2> QED BY <1>2, <1>3, <1>4, <2>1 DEF KbIInv, Counted, OneDocumentPerContent, InsertsApart, Stored
<1>7. ASSUME ~damaged' PROVE Kept'
  <2>1. /\ ~damaged /\ Batches \in Nat
        /\ \A q \in KbReqs : Touching(q) => /\ kbReqs[q].op = "UPLOAD"
                                            /\ kbReqs[q].written \in 0..Batches
                                            /\ ~(kbReqs[q].written > 0)
    BY <1>2, <1>7, KbAssumption DEF LeavesDamage, KbIInv, KbTypeOK, KbReq
  <2>2. Kept
    BY <2>1 DEF Reindexing, KbIInv
  <2>3. \A d \in KbReqs : ~Emptied(d) /\ (Writing(d) => kbReqs[d].written = 0)
    BY <2>1 DEF Emptied, Writing, Touching
  <2>4. ASSUME NEW d \in KbReqs, NEW b \in 1..Batches PROVE chunk[<<d, b>>] = Held(d, b)'
    <3>1. ~(b <= 0)
      BY <2>1
    <3> QED BY <1>2, <1>4, <2>2, <2>3, <3>1 DEF Held, Kept
  <2> QED BY <1>2, <2>4 DEF Kept
<1>8. kbReqs' = [q \in KbReqs |-> kbReqs'[q]]
  BY <1>2
<1> QED BY <1>4, <1>5, <1>6, <1>7, <1>8 DEF KbIInv

----------------------------------------------------------------------------
(* The invariant of the knowledge base.                                    *)

LEMMA KbInitially == KbInit => KbIInv
<1> SUFFICES ASSUME KbInit PROVE KbIInv
  OBVIOUS
<1>1. KbBlank \in KbReq /\ KbBlank.op = None /\ KbBlank.phase = "idle"
  BY KbAssumption DEF KbBlank, KbReq
<1>2. /\ \A q \in KbReqs : kbReqs[q] = KbBlank /\ documents[q] = None
      /\ Stored = {}
  BY DEF KbInit, Stored
<1>3. KbTypeOK /\ kbReqs = [q \in KbReqs |-> kbReqs[q]]
  BY <1>1, <1>2 DEF KbInit, KbTypeOK
<1>4. \A q \in KbReqs : Shape(q) /\ ~Writing(q) /\ ~Reindexing(q) /\ ~Emptied(q)
  BY <1>1, <1>2, KbAssumption DEF Shape, Writing, Reindexing, Emptied
<1>5. Counted /\ OneDocumentPerContent /\ InsertsApart
  BY <1>2, <1>4 DEF Counted, OneDocumentPerContent, InsertsApart
<1>6. Kept
  BY <1>2, <1>4 DEF Kept, Held, KbInit, Chunks
<1> QED BY <1>3, <1>4, <1>5, <1>6 DEF KbIInv

LEMMA KbInductive == KbIInv /\ [KbNext]_kbVars => KbIInv'
<1> SUFFICES ASSUME KbIInv, [KbNext]_kbVars PROVE KbIInv'
  OBVIOUS
<1>1. ASSUME NEW q \in KbReqs, KbRoute(q) PROVE KbIInv'
  <2>1. CASE (\E c \in Contents : UploadFind(q, c)) \/ (\E d \in KbReqs : DeleteLoad(q, d))
    BY <2>1, QuietRoutes
  <2>2. CASE UploadAdd(q)
    BY <2>2, UploadAddStep
  <2>3. CASE OpenStore(q) \/ AddBatch(q)
    <3>1. kbReqs[q].op \in {"UPLOAD", "REINDEX"}
      BY <2>3 DEF OpenStore, AddBatch, KbIInv, KbTypeOK, KbReq, Shape
    <3>2. kbReqs[q].op = "REINDEX" => AddBatch(q)
      BY <2>3 DEF OpenStore
    <3> QED BY <2>3, <3>1, <3>2, UploadingStep, RewriteStep
  <2>4. CASE UploadCommit(q)
    BY <2>4, UploadCommitStep
  <2>5. CASE RemoveDocument(q)
    BY <2>5, RemoveDocumentStep
  <2>6. CASE DeleteCommit(q)
    BY <2>6, DeleteCommitStep
  <2>7. CASE Reset(q)
    BY <2>7, ResetStep
  <2>8. CASE ListAll(q) \/ (\E d \in KbReqs : GetContent(q, d)) \/ UpdateIndexState(q)
    BY <2>8, ListingStep
  <2>9. CASE ReindexCommit(q)
    BY <2>9, ReindexCommitStep
  <2>10. CASE KbFail(q)
    BY <2>10, QuietRoutes, KbFailStep
  <2> QED BY <1>1, <2>1, <2>2, <2>3, <2>4, <2>5, <2>6, <2>7, <2>8, <2>9, <2>10 DEF KbRoute
<1>2. ASSUME NEW m \in Models, Restart(m) PROVE KbIInv'
  BY <1>2, RestartStep
<1>3. CASE UNCHANGED kbVars
  <2>1. UNCHANGED <<documents, chunk, table, model, kbReqs, damaged>>
    BY <1>3 DEF kbVars
  <2> QED BY <2>1 DEF KbIInv, KbTypeOK, Shape, Counted, OneDocumentPerContent, InsertsApart,
                      Reindexing, Touching, Rebuilt, Kept, Held, Writing, Emptied, Stored
<1> QED BY <1>1, <1>2, <1>3 DEF KbNext

THEOREM KbInvariance == KbSpec => []KbIInv
BY KbInitially, KbInductive, PTL DEF KbSpec

(* Equal bytes are one document, though uploads race past the check for    *)
(* them and a deletion or a restart comes between: an insert waits for the *)
(* other, and then the unique index refuses it.                            *)
THEOREM EqualBytesAreOneDocument == KbSpec => [](KbTypeOK /\ OneDocumentPerContent)
<1>1. KbIInv => KbTypeOK /\ OneDocumentPerContent
  BY DEF KbIInv
<1> QED BY <1>1, KbInvariance, PTL

(* An undamaged index at rest holds exactly the chunks of the stored       *)
(* documents, and a re-index that ran alone repairs a damaged one.         *)
THEOREM IndexIsOfTheStore == KbSpec => []IndexMatchesStore
<1>1. KbIInv => IndexMatchesStore
  <2> SUFFICES ASSUME KbIInv, ~damaged, \A q \in KbReqs : ~Touching(q), NEW c \in Chunks
               PROVE  chunk[c] # None <=> c[1] \in Stored
    BY DEF IndexMatchesStore
  <2>1. Kept /\ \A d \in KbReqs : ~Emptied(d) /\ ~Writing(d)
    BY DEF KbIInv, Reindexing, Emptied, Writing, Touching
  <2>2. c[1] \in KbReqs /\ c[2] \in 1..Batches /\ c = <<c[1], c[2]>>
    BY DEF Chunks
  <2>3. chunk[c] = IF documents[c[1]] # None THEN documents[c[1]].model ELSE None
    BY <2>1, <2>2 DEF Kept, Held
  <2>4. documents[c[1]] # None => documents[c[1]].model # None
    BY <2>2, KbAssumption DEF KbIInv, KbTypeOK, DocumentRow
  <2> QED BY <2>2, <2>3, <2>4 DEF Stored
<1> QED BY <1>1, KbInvariance, PTL

(* In an undamaged index a query of the assistant meets vectors of another *)
(* model only while needs_reindex() says so, and one of the back office    *)
(* never: a change of the model is noticed until a re-index that ran alone *)
(* has replaced all of them.                                               *)
THEOREM MixedIndexIsNoticed == KbSpec => []ForeignVectorsAreNoticed
<1>1. KbIInv => ForeignVectorsAreNoticed
  <2> SUFFICES ASSUME KbIInv, ~damaged, ~NeedsReindex, NEW c \in IndexSearch
               PROVE  chunk[c] = model
    BY DEF ForeignVectorsAreNoticed, Search
  <2>1. /\ c \in Chunks /\ chunk[c] # None
        /\ \A d \in Stored : documents[d].model = model
    BY DEF IndexSearch, NeedsReindex
  <2>2. c[1] \in KbReqs /\ c[2] \in 1..Batches /\ c = <<c[1], c[2]>>
    BY <2>1 DEF Chunks
  <2>3. CASE \A q \in KbReqs : ~Reindexing(q)
    <3>1. Kept
      BY <2>3 DEF KbIInv
    <3>2. chunk[c] = Held(c[1], c[2])
      BY <2>2, <3>1 DEF Kept
    <3> QED BY <2>1, <2>2, <3>2 DEF Held, Stored
  <2>4. ASSUME NEW q \in KbReqs, Reindexing(q) PROVE chunk[c] = model
    <3>1. Rebuilt(q)
      BY <2>4 DEF KbIInv
    <3>2. chunk[<<c[1], c[2]>>] \in {model, None}
      BY <2>2, <3>1 DEF Rebuilt
    <3> QED BY <2>1, <2>2, <3>2
  <2> QED BY <2>3, <2>4
<1> QED BY <1>1, KbInvariance, PTL

----------------------------------------------------------------------------
(* Both parts, as they run side by side.                                   *)

(* Every variable of the assistant keeps its type, a customer has one open *)
(* conversation, and equal bytes are one document.                         *)
THEOREM AssistantTypeCorrect == AssistantSpec => []AssistantTypeOK
<1>1. AssistantInit => TriageIInv /\ KbIInv
  BY TriageInitially, KbInitially DEF AssistantInit
<1>2. TriageIInv /\ KbIInv /\ [AssistantNext]_assistantVars => TriageIInv' /\ KbIInv'
  <2>1. [AssistantNext]_assistantVars => [TriageNext]_triageVars /\ [KbNext]_kbVars
    BY DEF AssistantNext, assistantVars
  <2> QED BY <2>1, TriageInvariance, KbInductive
<1>3. TriageIInv /\ KbIInv => AssistantTypeOK
  BY OneOpen DEF TriageIInv, KbIInv, AssistantTypeOK
<1> QED BY <1>1, <1>2, <1>3, PTL DEF AssistantSpec

=============================================================================
