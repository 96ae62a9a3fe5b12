--------------------------- MODULE AccountsProofs ---------------------------
(***************************************************************************)
(* Proofs about Accounts, for any number of requests, people and           *)
(* administrators: its type invariant with one account per person, that    *)
(* only a decision approves a technician, that the back office learns who  *)
(* waits, and that only stale saves take a decision or an acceptance back. *)
(***************************************************************************)
EXTENDS Accounts, TLAPS

----------------------------------------------------------------------------
(* The inductive invariant.                                                *)

Saving(r) == r.phase \in {"mutated", "reread"}

(* What the copy of a request may differ in from the row it loaded.        *)
Derived(r) ==
  /\ r.loaded.accepted # None \/ r.op # "DISCLAIMER" => r.copy.accepted = r.loaded.accepted
  /\ IsApprovedTechnician(r.copy) => r.op = "APPROVE" \/ IsApprovedTechnician(r.loaded)
  /\ IsPendingTechnician(r.copy) =>
       \/ r.requested /\ r.copy.by = None
       \/ IsPendingTechnician(r.loaded) /\ r.copy.by = r.loaded.by
  /\ r.op \in {"APPROVE", "REJECT"} => IsPendingTechnician(r.loaded)
  /\ r.op \in {"PROFILE", "DISCLAIMER"} =>
       r.copy.status = r.loaded.status /\ r.copy.by = r.loaded.by

(* A request saves a row that is stored, over versions of that row.        *)
Grounded(q) ==
  LET r == accReqs[q] IN
  /\ users[q] # None => r.phase \notin {"idle", "new"}
  /\ r.phase = "new" =>
       /\ r.id = q
       /\ r.copy \in User
       /\ ~IsApprovedTechnician(r.copy)
       /\ IsPendingTechnician(r.copy) => r.requested /\ r.copy.by = None
  /\ Saving(r) =>
       /\ r.id \in Accounts
       /\ r.op \in Ops
       /\ r.copy \in User /\ r.loaded \in User
       /\ r.copy.sub = users[r.id].sub
       /\ Derived(r)
  /\ r.phase = "reread" => r.basis \in User /\ r.basis.sub = users[r.id].sub
  /\ r.phase = "committed" => r.id \in Accounts

Announcing(i) ==
  \E q \in AccReqs : /\ accReqs[q].phase = "committed"
                     /\ accReqs[q].requested
                     /\ accReqs[q].id = i

(* What every save keeps of a row that no stale save has written.          *)
Sound(i) ==
  i \notin stale =>
    /\ IsApprovedTechnician(users[i]) => i \in approvals
    /\ IsPendingTechnician(users[i]) =>
         /\ users[i].by = None
         /\ i \in announced \cup untold \/ Announcing(i)

AccIInv ==
  /\ AccTypeOK
  /\ \A q \in AccReqs : Grounded(q)
  /\ \A i \in Accounts : Sound(i)

----------------------------------------------------------------------------
(* Lemmas about the operators.                                             *)

(* A new user is a row of the table, an approved customer.                 *)
LEMMA NewUserIsUser ==
  ASSUME NEW p \in People, NEW email \in Emails
  PROVE  /\ NewUser(p, email) \in User
         /\ NewUser(p, email).sub = p
         /\ NewUser(p, email).role = "CUSTOMER"
BY DEF NewUser, User, Roles, RoleStatuses

(* A host never approves a technician, and whom it makes wait is undecided.*)
LEMMA HostApplied ==
  ASSUME NEW row \in User, NEW host \in Hosts
  PROVE  LET after == ApplyHost(row, host) IN
         /\ after \in User
         /\ after.sub = row.sub
         /\ after.accepted = row.accepted
         /\ IsApprovedTechnician(after) => IsApprovedTechnician(row)
         /\ IsPendingTechnician(after) =>
              \/ after.by = None /\ ~IsPendingTechnician(row)
              \/ IsPendingTechnician(row) /\ after.by = row.by
<1>1. CASE host = "CUSTOMER"
  <2>1. ApplyHost(row, host) = GrantRole(row, "CUSTOMER")
    BY <1>1 DEF ApplyHost
  <2> QED
    BY <2>1 DEF GrantRole, User, Roles, RoleStatuses, IsApprovedTechnician, IsPendingTechnician
<1>2. CASE host = "BACKOFFICE"
  <2>1. ApplyHost(row, host) = GrantRole(row, "ADMIN")
    BY <1>2 DEF ApplyHost
  <2> QED
    BY <2>1 DEF GrantRole, User, Roles, RoleStatuses, IsApprovedTechnician, IsPendingTechnician
<1>3. CASE host = "TECHNICIAN"
  <2>1. ApplyHost(row, host) = IF row.role = "TECHNICIAN" THEN row ELSE RequestRole(row, "TECHNICIAN")
    BY <1>3 DEF ApplyHost
  <2> QED
    BY <2>1 DEF RequestRole, User, Roles, RoleStatuses, IsApprovedTechnician, IsPendingTechnician
<1> QED BY <1>1, <1>2, <1>3 DEF Hosts

(* A save leaves a row of the same person, and of the row what the copy    *)
(* has from it or from the row that was re-read.                           *)
LEMMA MergedIsUser ==
  ASSUME NEW copy \in User, NEW basis \in User, NEW row \in User,
         copy.sub = row.sub
  PROVE  /\ AccMerged(copy, basis, row) \in User
         /\ AccMerged(copy, basis, row).sub = row.sub
         /\ copy.accepted \in {basis.accepted, row.accepted} =>
              AccMerged(copy, basis, row).accepted = row.accepted
         /\ copy.status \in {basis.status, row.status} => AccMerged(copy, basis, row).status = row.status
         /\ copy.by \in {basis.by, row.by} => AccMerged(copy, basis, row).by = row.by
<1>1. /\ AccColumn(copy.sub, basis.sub, row.sub) \in People
      /\ AccColumn(copy.email, basis.email, row.email) \in Emails
      /\ AccColumn(copy.role, basis.role, row.role) \in Roles
      /\ AccColumn(copy.status, basis.status, row.status) \in RoleStatuses
  BY DEF AccColumn, User
<1>2. /\ AccColumn(copy.by, basis.by, row.by) \in Admins \cup {None}
      /\ AccColumn(copy.profile, basis.profile, row.profile) \in AccReqs \cup {None}
      /\ AccColumn(copy.accepted, basis.accepted, row.accepted) \in AccReqs \cup {None}
  BY DEF AccColumn, User
<1>3. AccMerged(copy, basis, row) \in User
  BY <1>1, <1>2 DEF AccMerged, User
<1>4. /\ AccMerged(copy, basis, row).sub = row.sub
      /\ copy.accepted \in {basis.accepted, row.accepted} =>
              AccMerged(copy, basis, row).accepted = row.accepted
      /\ copy.status \in {basis.status, row.status} => AccMerged(copy, basis, row).status = row.status
      /\ copy.by \in {basis.by, row.by} => AccMerged(copy, basis, row).by = row.by
  BY DEF AccMerged, AccColumn
<1> QED BY <1>3, <1>4

(* A save that nobody came between stores the copy.                        *)
LEMMA MergedFresh ==
  ASSUME NEW copy \in User, NEW row \in User
  PROVE  /\ AccMerged(copy, row, row).role = copy.role
         /\ AccMerged(copy, row, row).status = copy.status
         /\ AccMerged(copy, row, row).by = copy.by
BY DEF AccMerged, AccColumn

(* An idle request has requested nothing.                                  *)
LEMMA BlankIsReq == AccBlank \in AccReq /\ AccBlank.requested = FALSE
BY DEF AccBlank, AccReq

----------------------------------------------------------------------------
(* Steps.                                                                  *)

(* A step that only changes the local state of a request that is not       *)
(* committed.                                                              *)
LEMMA LocalStep ==
  ASSUME AccIInv, NEW q \in AccReqs,
         accReqs[q].phase # "committed",
         accReqs' \in [AccReqs -> AccReq],
         \A u \in AccReqs \ {q} : accReqs'[u] = accReqs[u],
         UNCHANGED <<users, announced, approvals, stale, untold>>,
         Grounded(q)'
  PROVE  AccIInv'
<1>1. AccTypeOK'
  BY DEF AccIInv, AccTypeOK, Accounts, OneAccountPerPerson
<1>2. ASSUME NEW u \in AccReqs PROVE Grounded(u)'
  <2>1. CASE u = q
    BY <2>1
  <2>2. CASE u # q
    <3>1. accReqs'[u] = accReqs[u]
      BY <2>2 DEF AccIInv, AccTypeOK
    <3> QED BY <3>1 DEF AccIInv, Grounded, Accounts, Saving, Derived
  <2> QED BY <2>1, <2>2
<1>3. ASSUME NEW i \in Accounts' PROVE Sound(i)'
  <2>1. i \in Accounts /\ Sound(i)
    BY <1>3 DEF AccIInv, Accounts
  <2>2. Announcing(i) => Announcing(i)'
    <3> SUFFICES ASSUME NEW u \in AccReqs, accReqs[u].phase = "committed",
                        accReqs[u].requested, accReqs[u].id = i
                 PROVE  Announcing(i)'
      BY DEF Announcing
    <3>1. accReqs'[u] = accReqs[u]
      BY DEF AccIInv, AccTypeOK
    <3> QED BY <3>1 DEF Announcing
  <2> QED BY <2>1, <2>2 DEF Sound
<1> QED BY <1>1, <1>2, <1>3 DEF AccIInv

(* Loading a stored row leaves a sound copy of it.                         *)
LEMMA LoadedStep ==
  ASSUME AccIInv, NEW q \in AccReqs, NEW i \in Accounts, NEW r \in AccReq,
         r.phase = "mutated", r.op \in Ops, r.id = i, r.loaded = users[i], r.copy \in User,
         r.copy.sub = users[i].sub,
         Derived(r),
         accReqs[q].phase = "idle",
         accReqs' = [accReqs EXCEPT ![q] = r],
         UNCHANGED <<users, announced, approvals, stale, untold>>
  PROVE  AccIInv'
<1>1. i \in AccReqs /\ users[i] \in User
  BY DEF Accounts, AccIInv, AccTypeOK
<1>2. accReqs'[q] = r
  BY DEF AccIInv, AccTypeOK
<1>3. users[q] = None
  BY DEF AccIInv, Grounded
<1>4. Grounded(q)'
  BY <1>1, <1>2, <1>3 DEF Grounded, Saving, Accounts
<1>5. /\ accReqs' \in [AccReqs -> AccReq]
      /\ \A u \in AccReqs \ {q} : accReqs'[u] = accReqs[u]
  BY DEF AccIInv, AccTypeOK
<1> QED BY <1>4, <1>5, LocalStep

LEMMA SignInNewStep ==
  ASSUME AccIInv, NEW q \in AccReqs, NEW p \in People, NEW email \in Emails, NEW host \in Hosts,
         SignInNew(q, p, email, host)
  PROVE  AccIInv'
<1> DEFINE new == ApplyHost(NewUser(p, email), host)
           r == [AccBlank EXCEPT !.phase = "new", !.op = "SIGNIN", !.id = q, !.copy = new,
                                 !.requested = RequestedPending(None, new)]
<1>1. /\ new \in User
      /\ ~IsApprovedTechnician(new)
      /\ IsPendingTechnician(new) => new.by = None
  BY NewUserIsUser, HostApplied DEF IsApprovedTechnician, IsPendingTechnician
<1>2. RequestedPending(None, new) = IsPendingTechnician(new)
  BY DEF RequestedPending, IsPendingTechnician
<1> HIDE DEF new
<1>3. /\ r \in AccReq
      /\ r.phase = "new" /\ r.id = q /\ r.copy = new
      /\ r.requested = IsPendingTechnician(new)
  <2>1. "SIGNIN" \in Ops /\ RequestedPending(None, new) \in BOOLEAN
    BY <1>2 DEF Ops, IsPendingTechnician
  <2> QED BY <1>1, <1>2, <2>1, BlankIsReq DEF AccReq
<1>4. accReqs' = [accReqs EXCEPT ![q] = r] /\ accReqs[q].phase = "idle"
  BY DEF SignInNew, new
<1> HIDE DEF r
<1>5. UNCHANGED <<users, announced, approvals, stale, untold>>
  BY DEF SignInNew
<1>6. accReqs'[q] = r
  BY <1>4 DEF AccIInv, AccTypeOK
<1>7. users[q] = None
  BY <1>4 DEF AccIInv, Grounded
<1>8. Grounded(q)'
  BY <1>1, <1>3, <1>5, <1>6, <1>7 DEF Grounded, Saving
<1>9. /\ accReqs' \in [AccReqs -> AccReq]
      /\ \A u \in AccReqs \ {q} : accReqs'[u] = accReqs[u]
  BY <1>3, <1>4 DEF AccIInv, AccTypeOK
<1> QED BY <1>4, <1>5, <1>8, <1>9, LocalStep

LEMMA SignInKnownStep ==
  ASSUME AccIInv, NEW q \in AccReqs, NEW i \in AccReqs, NEW email \in Emails, NEW host \in Hosts,
         SignInKnown(q, i, email, host)
  PROVE  AccIInv'
<1> DEFINE synced == [users[i] EXCEPT !.email = email]
           after == ApplyHost(synced, host)
           requested == RequestedPending(users[i], after)
           r == [AccBlank EXCEPT !.phase = "mutated", !.op = "SIGNIN", !.id = i,
                                 !.loaded = users[i], !.copy = after, !.requested = requested]
<1>1. i \in Accounts /\ users[i] \in User /\ users[i] # None
  BY DEF SignInKnown, Accounts, AccIInv, AccTypeOK
<1>2. /\ synced \in User /\ synced.sub = users[i].sub /\ synced.accepted = users[i].accepted
      /\ synced.role = users[i].role /\ synced.status = users[i].status /\ synced.by = users[i].by
  BY <1>1 DEF User
<1>3. requested = (IsPendingTechnician(after) /\ ~IsPendingTechnician(users[i]))
  BY <1>1 DEF RequestedPending, IsPendingTechnician
<1>4. accReqs[q].phase = "idle" /\ UNCHANGED <<users, announced, approvals, stale, untold>>
  BY DEF SignInKnown
<1>5. accReqs' = [accReqs EXCEPT ![q] = r]
  BY DEF SignInKnown
<1> HIDE DEF synced
<1>6. /\ after \in User
      /\ after.sub = users[i].sub
      /\ after.accepted = users[i].accepted
      /\ IsApprovedTechnician(after) => IsApprovedTechnician(users[i])
      /\ IsPendingTechnician(after) =>
           \/ after.by = None /\ ~IsPendingTechnician(users[i])
           \/ IsPendingTechnician(users[i]) /\ after.by = users[i].by
  BY <1>2, HostApplied DEF IsApprovedTechnician, IsPendingTechnician
<1> HIDE DEF after
<1>7. requested \in BOOLEAN
  BY <1>3 DEF IsPendingTechnician
<1> HIDE DEF requested
<1>8. /\ r \in AccReq
      /\ r.phase = "mutated" /\ r.op = "SIGNIN" /\ r.id = i
      /\ r.loaded = users[i] /\ r.copy = after /\ r.requested = requested
  <2>1. "SIGNIN" \in Ops
    BY DEF Ops
  <2> QED BY <1>1, <1>6, <1>7, <2>1, BlankIsReq DEF Accounts, AccReq
<1> HIDE DEF r
<1>9. Derived(r)
  BY <1>3, <1>6, <1>8 DEF Derived
<1>10. r.op \in Ops
  BY <1>8 DEF Ops
<1> QED BY <1>1, <1>4, <1>5, <1>6, <1>8, <1>9, <1>10, LoadedStep

LEMMA DecideStep ==
  ASSUME AccIInv, NEW q \in AccReqs, NEW i \in AccReqs, NEW admin \in Admins,
         NEW approve \in BOOLEAN, DecideLoad(q, i, admin, approve)
  PROVE  AccIInv'
<1>1. i \in Accounts /\ users[i] \in User /\ IsPendingTechnician(users[i])
  BY DEF DecideLoad, AssertPendingTechnician, Accounts, AccIInv, AccTypeOK
<1>2. CASE approve
  <2> DEFINE copy == Approved(users[i], admin)
             r == [AccBlank EXCEPT !.phase = "mutated", !.op = "APPROVE", !.id = i,
                                   !.loaded = users[i], !.copy = copy]
  <2>1. /\ copy \in User /\ copy.sub = users[i].sub /\ copy.accepted = users[i].accepted
        /\ ~IsPendingTechnician(copy)
    BY <1>1 DEF Approved, User, RoleStatuses, IsPendingTechnician
  <2>2. /\ accReqs[q].phase = "idle"
        /\ UNCHANGED <<users, announced, approvals, stale, untold>>
        /\ accReqs' = [accReqs EXCEPT ![q] = r]
    BY <1>2 DEF DecideLoad, Loaded
  <2> HIDE DEF copy
  <2>3. "APPROVE" \in Ops
    BY DEF Ops
  <2>4. /\ r \in AccReq
        /\ r.phase = "mutated" /\ r.op = "APPROVE" /\ r.id = i
        /\ r.loaded = users[i] /\ r.copy = copy
    BY <1>1, <2>1, <2>3, BlankIsReq DEF Accounts, AccReq
  <2> HIDE DEF r
  <2>5. Derived(r)
    BY <1>1, <2>1, <2>4 DEF Derived
  <2> QED BY <1>1, <2>1, <2>2, <2>3, <2>4, <2>5, LoadedStep
<1>3. CASE ~approve
  <2> DEFINE copy == Rejected(users[i], admin)
             r == [AccBlank EXCEPT !.phase = "mutated", !.op = "REJECT", !.id = i,
                                   !.loaded = users[i], !.copy = copy]
  <2>1. /\ copy \in User /\ copy.sub = users[i].sub /\ copy.accepted = users[i].accepted
        /\ ~IsPendingTechnician(copy) /\ ~IsApprovedTechnician(copy)
    BY <1>1 DEF Rejected, User, RoleStatuses, IsPendingTechnician, IsApprovedTechnician
  <2>2. /\ accReqs[q].phase = "idle"
        /\ UNCHANGED <<users, announced, approvals, stale, untold>>
        /\ accReqs' = [accReqs EXCEPT ![q] = r]
    BY <1>3 DEF DecideLoad, Loaded
  <2> HIDE DEF copy
  <2>3. "REJECT" \in Ops
    BY DEF Ops
  <2>4. /\ r \in AccReq
        /\ r.phase = "mutated" /\ r.op = "REJECT" /\ r.id = i
        /\ r.loaded = users[i] /\ r.copy = copy
    BY <1>1, <2>1, <2>3, BlankIsReq DEF Accounts, AccReq
  <2> HIDE DEF r
  <2>5. Derived(r)
    BY <1>1, <2>1, <2>4 DEF Derived
  <2> QED BY <1>1, <2>1, <2>2, <2>3, <2>4, <2>5, LoadedStep
<1> QED BY <1>2, <1>3

LEMMA ProfileStep ==
  ASSUME AccIInv, NEW q \in AccReqs, NEW i \in AccReqs,
         UpdateMe(q, i) \/ AcceptAssistDisclaimer(q, i)
  PROVE  AccIInv'
<1>1. i \in Accounts /\ users[i] \in User
  BY DEF UpdateMe, AcceptAssistDisclaimer, Accounts, AccIInv, AccTypeOK
<1>2. ASSUME NEW op \in {"PROFILE", "DISCLAIMER"}, NEW copy \in User, Loaded(q, op, i, copy),
             copy.sub = users[i].sub, copy.role = users[i].role,
             copy.status = users[i].status, copy.by = users[i].by,
             users[i].accepted # None \/ op = "PROFILE" => copy.accepted = users[i].accepted
      PROVE  AccIInv'
  <2> DEFINE r == [AccBlank EXCEPT !.phase = "mutated", !.op = op, !.id = i,
                                   !.loaded = users[i], !.copy = copy]
  <2>1. /\ accReqs[q].phase = "idle"
        /\ UNCHANGED <<users, announced, approvals, stale, untold>>
        /\ accReqs' = [accReqs EXCEPT ![q] = r]
    BY <1>2 DEF Loaded
  <2>2. op \in Ops
    BY DEF Ops
  <2>3. /\ r \in AccReq
        /\ r.phase = "mutated" /\ r.op = op /\ r.id = i
        /\ r.loaded = users[i] /\ r.copy = copy
    BY <1>1, <2>2, BlankIsReq DEF Accounts, AccReq
  <2> HIDE DEF r
  <2>4. Derived(r)
    BY <1>2, <2>3 DEF Derived, IsPendingTechnician, IsApprovedTechnician
  <2> QED BY <1>1, <1>2, <2>1, <2>2, <2>3, <2>4, LoadedStep
<1>3. CASE UpdateMe(q, i)
  <2> DEFINE copy == [users[i] EXCEPT !.profile = q]
  <2>1. /\ copy \in User /\ copy.sub = users[i].sub /\ copy.role = users[i].role
        /\ copy.status = users[i].status /\ copy.by = users[i].by
        /\ copy.accepted = users[i].accepted
    BY <1>1 DEF User
  <2>2. Loaded(q, "PROFILE", i, copy)
    BY <1>3 DEF UpdateMe
  <2> HIDE DEF copy
  <2> QED BY <1>2, <2>1, <2>2
<1>4. CASE AcceptAssistDisclaimer(q, i)
  <2> DEFINE copy == AcceptDisclaimer(users[i], q)
  <2>1. /\ copy \in User /\ copy.sub = users[i].sub /\ copy.role = users[i].role
        /\ copy.status = users[i].status /\ copy.by = users[i].by
        /\ users[i].accepted # None => copy.accepted = users[i].accepted
    BY <1>1 DEF AcceptDisclaimer, User
  <2>2. Loaded(q, "DISCLAIMER", i, copy)
    BY <1>4 DEF AcceptAssistDisclaimer
  <2> HIDE DEF copy
  <2> QED BY <1>2, <2>1, <2>2
<1> QED BY <1>3, <1>4

LEMMA SignInAddStep ==
  ASSUME AccIInv, NEW q \in AccReqs, SignInAdd(q)
  PROVE  AccIInv'
<1> DEFINE new == accReqs[q].copy
<1>1. /\ accReqs[q].phase = "new" /\ users[q] = None
      /\ accReqs[q].id = q /\ new \in User
      /\ ~IsApprovedTechnician(new)
      /\ IsPendingTechnician(new) => accReqs[q].requested /\ new.by = None
  BY DEF SignInAdd, AccIInv, Grounded
<1>2. CASE SubIsFree(new.sub)
  <2>1. /\ users' = [users EXCEPT ![q] = new]
        /\ accReqs' = [accReqs EXCEPT ![q].phase = "committed"]
        /\ UNCHANGED <<announced, approvals, stale, untold>>
    BY <1>2 DEF SignInAdd
  <2> HIDE DEF new
  <2>2. /\ users'[q] = new
        /\ \A u \in AccReqs \ {q} : users'[u] = users[u] /\ accReqs'[u] = accReqs[u]
        /\ Accounts' = Accounts \cup {q}
    BY <1>1, <2>1, AccountsAssumption DEF AccIInv, AccTypeOK, Accounts
  <2>3. /\ accReqs'[q].phase = "committed" /\ accReqs'[q].id = q
        /\ accReqs'[q].requested = accReqs[q].requested
        /\ accReqs' \in [AccReqs -> AccReq]
    BY <1>1, <2>1 DEF AccIInv, AccTypeOK, AccReq
  <2>4. OneAccountPerPerson'
    BY <1>2, <2>2 DEF AccIInv, AccTypeOK, OneAccountPerPerson, SubIsFree, GetByGoogleSub, Accounts
  <2>5. AccTypeOK'
    BY <1>1, <2>1, <2>2, <2>3, <2>4 DEF AccIInv, AccTypeOK
  <2>6. ASSUME NEW u \in AccReqs PROVE Grounded(u)'
    <3>1. CASE u = q
      BY <2>2, <2>3, <3>1 DEF Grounded, Saving
    <3>2. CASE u # q
      <4>1. accReqs'[u] = accReqs[u] /\ users'[u] = users[u]
        BY <2>2, <3>2
      <4>2. \A i \in Accounts : users'[i] = users[i] /\ i \in Accounts'
        BY <1>1, <2>2 DEF Accounts
      <4> QED BY <4>1, <4>2 DEF AccIInv, Grounded, Saving, Derived
    <3> QED BY <3>1, <3>2
  <2>7. ASSUME NEW i \in Accounts' PROVE Sound(i)'
    <3>1. CASE i = q
      <4>1. Announcing(q)' <=> accReqs[q].requested \/ Announcing(q)'
        BY <2>3 DEF Announcing
      <4> QED BY <1>1, <2>2, <3>1, <4>1 DEF Sound
    <3>2. CASE i # q
      <4>1. i \in Accounts /\ users'[i] = users[i] /\ Sound(i)
        BY <2>2, <3>2 DEF AccIInv, Accounts
      <4>2. Announcing(i) => Announcing(i)'
        BY <1>1, <2>2 DEF Announcing
      <4> QED BY <2>1, <4>1, <4>2 DEF Sound
    <3> QED BY <3>1, <3>2
  <2> QED BY <2>5, <2>6, <2>7 DEF AccIInv
<1>3. CASE ~SubIsFree(new.sub)
  <2> DEFINE r == [AccBlank EXCEPT !.phase = "failed"]
  <2>1. /\ accReqs' = [accReqs EXCEPT ![q] = r]
        /\ UNCHANGED <<users, announced, approvals, stale, untold>>
    BY <1>3 DEF SignInAdd
  <2>2. r \in AccReq /\ r.phase = "failed"
    BY BlankIsReq DEF AccReq
  <2> HIDE DEF r
  <2>3. /\ accReqs' \in [AccReqs -> AccReq] /\ accReqs'[q].phase = "failed"
        /\ \A u \in AccReqs \ {q} : accReqs'[u] = accReqs[u]
    BY <2>1, <2>2 DEF AccIInv, AccTypeOK
  <2>4. Grounded(q)'
    BY <2>3 DEF Grounded, Saving
  <2> QED BY <1>1, <2>1, <2>3, <2>4, LocalStep
<1> QED BY <1>2, <1>3

LEMMA RereadStep ==
  ASSUME AccIInv, NEW q \in AccReqs, AccReread(q)
  PROVE  AccIInv'
<1>1. /\ accReqs[q].phase = "mutated"
      /\ UNCHANGED <<users, announced, approvals, stale, untold>>
  BY DEF AccReread
<1>2. /\ accReqs[q].id \in Accounts /\ users[accReqs[q].id] \in User
      /\ accReqs[q] \in AccReq /\ Grounded(q)
  BY <1>1 DEF AccIInv, AccTypeOK, Accounts, Grounded, Saving
<1>3. /\ accReqs' \in [AccReqs -> AccReq]
      /\ \A u \in AccReqs \ {q} : accReqs'[u] = accReqs[u]
  BY <1>2 DEF AccReread, AccIInv, AccTypeOK, AccReq
<1>4. /\ accReqs'[q].phase = "reread" /\ accReqs'[q].basis = users[accReqs[q].id]
      /\ accReqs'[q].op = accReqs[q].op /\ accReqs'[q].id = accReqs[q].id
      /\ accReqs'[q].loaded = accReqs[q].loaded /\ accReqs'[q].copy = accReqs[q].copy
      /\ accReqs'[q].requested = accReqs[q].requested
  BY <1>2 DEF AccReread, AccIInv, AccTypeOK, AccReq
<1>5. Grounded(q)'
  BY <1>1, <1>2, <1>4 DEF Grounded, Saving, Derived, Accounts
<1> QED BY <1>1, <1>3, <1>5, LocalStep

(* A commit: the row of one user, and what the histories say of it.        *)
LEMMA CommitStep ==
  ASSUME AccIInv, NEW q \in AccReqs, AccCommit(q)
  PROVE  AccIInv'
<1> DEFINE r == accReqs[q]
           row == AccMerged(r.copy, r.basis, users[r.id])
<1>1. /\ r.phase = "reread" /\ r.id \in Accounts /\ r.id \in AccReqs
      /\ r.op \in Ops
      /\ r.copy \in User /\ r.loaded \in User /\ r.basis \in User
      /\ users[r.id] \in User /\ users[r.id] # None
      /\ r.copy.sub = users[r.id].sub
      /\ Derived(r)
  BY DEF AccCommit, AccIInv, AccTypeOK, Grounded, Saving, Accounts
<1>2. row \in User /\ row.sub = users[r.id].sub /\ row # None
  BY <1>1, MergedIsUser, AccountsAssumption
<1>3. /\ users' = [users EXCEPT ![r.id] = row]
      /\ accReqs' = [accReqs EXCEPT ![q].phase = "committed"]
      /\ approvals' = IF r.op = "APPROVE" THEN approvals \cup {r.id} ELSE approvals
      /\ stale' = IF r.loaded = r.basis /\ r.basis = users[r.id] THEN stale ELSE stale \cup {r.id}
      /\ announced' = IF IsPendingTechnician(row) /\ IsPendingTechnician(users[r.id])
                      THEN announced ELSE announced \ {r.id}
      /\ untold' = untold
  BY DEF AccCommit
<1> HIDE DEF row
<1> PICK i \in AccReqs : i = r.id
  BY <1>1
<1>4. /\ users'[i] = row
      /\ \A j \in AccReqs \ {i} : users'[j] = users[j]
      /\ Accounts' = Accounts
  BY <1>1, <1>2, <1>3 DEF AccIInv, AccTypeOK, Accounts
<1>5. /\ accReqs' \in [AccReqs -> AccReq]
      /\ accReqs'[q].phase = "committed" /\ accReqs'[q].id = i
      /\ accReqs'[q].requested = r.requested
      /\ \A u \in AccReqs \ {q} : accReqs'[u] = accReqs[u]
  BY <1>3 DEF AccIInv, AccTypeOK, AccReq
<1>6. AccTypeOK'
  <2>1. users' \in [AccReqs -> User \cup {None}]
    BY <1>1, <1>2, <1>3 DEF AccIInv, AccTypeOK
  <2>2. /\ announced' \subseteq Accounts /\ approvals' \subseteq Accounts
        /\ stale' \subseteq Accounts /\ untold' \subseteq Accounts
    BY <1>1, <1>3 DEF AccIInv, AccTypeOK
  <2>3. \A j \in Accounts : users'[j].sub = users[j].sub
    BY <1>2, <1>4 DEF Accounts
  <2>4. OneAccountPerPerson'
    BY <1>4, <2>3 DEF AccIInv, AccTypeOK, OneAccountPerPerson
  <2> QED BY <1>4, <1>5, <2>1, <2>2, <2>4 DEF AccTypeOK
<1>7. ASSUME NEW u \in AccReqs PROVE Grounded(u)'
  <2>1. \A j \in Accounts : users'[j].sub = users[j].sub /\ j \in Accounts'
    BY <1>2, <1>4 DEF Accounts
  <2>2. users'[u] # None => users[u] # None
    BY <1>1, <1>4
  <2>3. CASE u = q
    BY <1>1, <1>4, <1>5, <2>3 DEF Grounded, Saving
  <2>4. CASE u # q
    <3>1. accReqs'[u] = accReqs[u]
      BY <1>5, <2>4
    <3> QED BY <2>1, <2>2, <3>1 DEF AccIInv, Grounded, Saving, Derived
  <2> QED BY <2>3, <2>4
<1>8. ASSUME NEW j \in Accounts PROVE Announcing(j) => Announcing(j)'
  BY <1>1, <1>5 DEF Announcing
<1>9. ASSUME NEW j \in Accounts' PROVE Sound(j)'
  <2>1. j \in Accounts /\ j \in AccReqs /\ Sound(j)
    BY <1>4 DEF AccIInv, Accounts
  <2>2. CASE j # i
    <3>1. users'[j] = users[j]
      BY <1>4, <2>1, <2>2
    <3>2. /\ j \in stale' <=> j \in stale
          /\ j \in approvals => j \in approvals'
          /\ j \in announced => j \in announced'
          /\ j \in untold => j \in untold'
      BY <1>3, <2>2
    <3> QED BY <1>8, <2>1, <3>1, <3>2 DEF Sound
  <2>3. CASE j = i
    <3> SUFFICES ASSUME i \notin stale'
                 PROVE  /\ IsApprovedTechnician(row) => i \in approvals'
                        /\ IsPendingTechnician(row) =>
                             /\ row.by = None
                             /\ i \in announced' \cup untold' \/ Announcing(i)'
      BY <1>4, <2>3 DEF Sound
    <3>1. r.loaded = users[i] /\ r.basis = users[i] /\ i \notin stale
      BY <1>3
    <3>2. row.role = r.copy.role /\ row.status = r.copy.status /\ row.by = r.copy.by
      BY <1>1, <3>1, MergedFresh DEF row
    <3>3. IsApprovedTechnician(row) => i \in approvals'
      BY <1>1, <1>3, <2>1, <2>3, <3>1, <3>2 DEF Derived, Sound, IsApprovedTechnician
    <3>4. ASSUME IsPendingTechnician(row)
          PROVE  row.by = None /\ (i \in announced' \cup untold' \/ Announcing(i)')
      <4>1. CASE r.requested /\ r.copy.by = None
        BY <1>5, <3>2, <4>1 DEF Announcing
      <4>2. CASE IsPendingTechnician(r.loaded) /\ r.copy.by = r.loaded.by
        <5>1. IsPendingTechnician(users[i]) /\ announced' = announced /\ untold' = untold
          BY <1>3, <3>1, <3>4, <4>2
        <5> QED BY <1>8, <2>1, <2>3, <3>1, <3>2, <4>2, <5>1 DEF Sound
      <4> QED BY <1>1, <3>2, <3>4, <4>1, <4>2 DEF Derived, IsPendingTechnician
    <3> QED BY <3>3, <3>4
  <2> QED BY <2>2, <2>3
<1> QED BY <1>6, <1>7, <1>9 DEF AccIInv

(* The end of a request: nothing is left of its local state.               *)
LEMMA OverStep ==
  ASSUME AccIInv, NEW q \in AccReqs, NEW phase \in {"done", "failed"},
         accReqs[q].phase \in {"new", "mutated", "reread", "committed"},
         accReqs' = [accReqs EXCEPT ![q] = [AccBlank EXCEPT !.phase = phase]],
         UNCHANGED <<users, approvals, stale>>,
         announced \subseteq announced', announced' \subseteq Accounts,
         untold \subseteq untold', untold' \subseteq Accounts,
         accReqs[q].phase = "committed" /\ accReqs[q].requested =>
           accReqs[q].id \in announced' \cup untold'
  PROVE  AccIInv'
<1> DEFINE r == [AccBlank EXCEPT !.phase = phase]
<1>1. r \in AccReq /\ r.phase = phase
  BY BlankIsReq DEF AccReq
<1> HIDE DEF r
<1>2. /\ accReqs' \in [AccReqs -> AccReq] /\ accReqs'[q].phase = phase
      /\ \A u \in AccReqs \ {q} : accReqs'[u] = accReqs[u]
  BY <1>1 DEF AccIInv, AccTypeOK, r
<1>3. AccTypeOK' /\ Accounts' = Accounts
  BY <1>2 DEF AccIInv, AccTypeOK, Accounts, OneAccountPerPerson
<1>4. ASSUME NEW u \in AccReqs PROVE Grounded(u)'
  <2>1. CASE u = q
    BY <1>2, <2>1 DEF Grounded, Saving
  <2>2. CASE u # q
    BY <1>2, <1>3, <2>2 DEF AccIInv, Grounded, Saving, Derived
  <2> QED BY <2>1, <2>2
<1>5. ASSUME NEW i \in Accounts' PROVE Sound(i)'
  <2>1. i \in Accounts /\ Sound(i)
    BY <1>3, <1>5 DEF AccIInv
  <2>2. Announcing(i) => i \in announced' \cup untold' \/ Announcing(i)'
    BY <1>2 DEF Announcing
  <2> QED BY <2>1, <2>2 DEF Sound
<1> QED BY <1>3, <1>4, <1>5 DEF AccIInv

LEMMA PublishStep ==
  ASSUME AccIInv, NEW q \in AccReqs, Publish(q)
  PROVE  AccIInv'
<1>1. /\ accReqs[q].phase = "committed" /\ accReqs[q].id \in Accounts
      /\ announced \subseteq Accounts /\ untold \subseteq Accounts
  BY DEF Publish, AccIInv, AccTypeOK, Grounded
<1>2. /\ announced \subseteq announced' /\ announced' \subseteq Accounts
      /\ accReqs[q].requested => accReqs[q].id \in announced'
      /\ untold' = untold
  BY <1>1 DEF Publish
<1>3. /\ accReqs' = [accReqs EXCEPT ![q] = [AccBlank EXCEPT !.phase = "done"]]
      /\ UNCHANGED <<users, approvals, stale>>
  BY DEF Publish
<1> QED BY <1>1, <1>2, <1>3, OverStep

LEMMA DieStep ==
  ASSUME AccIInv, NEW q \in AccReqs, Die(q)
  PROVE  AccIInv'
<1>1. /\ accReqs[q].phase \in {"new", "mutated", "reread", "committed"}
      /\ accReqs[q].phase = "committed" => accReqs[q].id \in Accounts
      /\ announced \subseteq Accounts /\ untold \subseteq Accounts
  BY DEF Die, AccIInv, AccTypeOK, Grounded
<1>2. /\ untold \subseteq untold' /\ untold' \subseteq Accounts
      /\ accReqs[q].phase = "committed" /\ accReqs[q].requested =>
           accReqs[q].id \in untold'
      /\ announced' = announced
  BY <1>1 DEF Die
<1>3. /\ accReqs' = [accReqs EXCEPT ![q] = [AccBlank EXCEPT !.phase = "failed"]]
      /\ UNCHANGED <<users, approvals, stale>>
  BY DEF Die
<1> QED BY <1>1, <1>2, <1>3, OverStep

----------------------------------------------------------------------------
(* The invariant holds, and what follows from it.                          *)

LEMMA AccInvariant == AccSpec => []AccIInv
<1>1. AccInit => AccIInv
  <2> SUFFICES ASSUME AccInit PROVE AccIInv
    OBVIOUS
  <2>1. Accounts = {}
    BY DEF AccInit, Accounts
  <2>2. AccTypeOK
    BY <2>1, BlankIsReq DEF AccInit, AccTypeOK, OneAccountPerPerson
  <2>3. ASSUME NEW q \in AccReqs PROVE Grounded(q)
    <3>1. users[q] = None /\ accReqs[q].phase = "idle"
      BY DEF AccInit, AccBlank
    <3> QED BY <3>1 DEF Grounded, Saving
  <2> QED BY <2>1, <2>2, <2>3 DEF AccIInv
<1>2. AccIInv /\ [AccNext]_accVars => AccIInv'
  <2> SUFFICES ASSUME AccIInv, [AccNext]_accVars PROVE AccIInv'
    OBVIOUS
  <2>1. CASE UNCHANGED accVars
    BY <2>1 DEF accVars, AccIInv, AccTypeOK, Accounts, OneAccountPerPerson, Grounded, Saving,
       Derived, Sound, Announcing
  <2>2. ASSUME NEW q \in AccReqs,
               \/ \E p \in People, email \in Emails, host \in Hosts : SignInNew(q, p, email, host)
               \/ \E i \in AccReqs, email \in Emails, host \in Hosts : SignInKnown(q, i, email, host)
               \/ \E i \in AccReqs, admin \in Admins, approve \in BOOLEAN :
                    DecideLoad(q, i, admin, approve)
               \/ \E i \in AccReqs : UpdateMe(q, i) \/ AcceptAssistDisclaimer(q, i)
               \/ SignInAdd(q) \/ AccReread(q) \/ AccCommit(q) \/ Publish(q) \/ Die(q)
        PROVE  AccIInv'
    <3>1. CASE \E p \in People, email \in Emails, host \in Hosts : SignInNew(q, p, email, host)
      BY <3>1, SignInNewStep
    <3>2. CASE \E i \in AccReqs, email \in Emails, host \in Hosts : SignInKnown(q, i, email, host)
      BY <3>2, SignInKnownStep
    <3>3. CASE \E i \in AccReqs, admin \in Admins, approve \in BOOLEAN :
                 DecideLoad(q, i, admin, approve)
      BY <3>3, DecideStep
    <3>4. CASE \E i \in AccReqs : UpdateMe(q, i) \/ AcceptAssistDisclaimer(q, i)
      BY <3>4, ProfileStep
    <3>5. CASE SignInAdd(q)
      BY <3>5, SignInAddStep
    <3>6. CASE AccReread(q)
      BY <3>6, RereadStep
    <3>7. CASE AccCommit(q)
      BY <3>7, CommitStep
    <3>8. CASE Publish(q)
      BY <3>8, PublishStep
    <3>9. CASE Die(q)
      BY <3>9, DieStep
    <3> QED BY <2>2, <3>1, <3>2, <3>3, <3>4, <3>5, <3>6, <3>7, <3>8, <3>9
  <2> QED BY <2>1, <2>2 DEF AccNext
<1> QED BY <1>1, <1>2, PTL DEF AccSpec

(* Every variable keeps its type, and racing first sign-ins leave a person *)
(* one account: uq_app_user_google_sub, and saves that never change whose  *)
(* row it is.                                                              *)
THEOREM AccountsTypeCorrect == AccSpec => []AccTypeOK
<1>1. AccIInv => AccTypeOK
  BY DEF AccIInv
<1> QED BY <1>1, AccInvariant, PTL

(* Nobody is an approved technician without an administrator's approval,   *)
(* on a row that no stale save of SqlAlchemyUserRepository has written.    *)
THEOREM ApprovalIsAnAdmins == AccSpec => []ApprovedByAnAdmin
<1>1. AccIInv => ApprovedByAnAdmin
  BY DEF AccIInv, Sound, ApprovedByAnAdmin
<1> QED BY <1>1, AccInvariant, PTL

(* Once every request has ended the back office was told of everybody who  *)
(* waits for approval, but for stale saves and deaths before the telling.  *)
THEOREM WaitingIsKnown == AccSpec => []PendingIsAnnounced
<1>1. AccIInv => PendingIsAnnounced
  <2> SUFFICES ASSUME AccIInv,
                      \A q \in AccReqs : accReqs[q].phase \in {"idle", "done", "failed"},
                      NEW i \in Accounts \ (stale \cup untold), IsPendingTechnician(users[i])
               PROVE  i \in announced
    BY DEF PendingIsAnnounced
  <2>1. ~Announcing(i)
    BY DEF Announcing
  <2> QED BY <2>1 DEF AccIInv, Sound
<1> QED BY <1>1, AccInvariant, PTL

(* A save of a copy that was current when its request re-read the row, or  *)
(* is at the commit, takes a decision back only as a sign-in or as another *)
(* decision on an older row, and an acceptance of the disclaimer only as   *)
(* one that had loaded the row before it.                                  *)
THEOREM FreshSavesKeepDecisions == AccSpec => OnlyStaleSavesRevert
<1> DEFINE Keeps(i, q, r) ==
      /\ r.phase = "reread" /\ accReqs'[q].phase = "committed" /\ r.id = i
      /\ r.loaded \in {r.basis, users[i]}
      => /\ (r.op = "DISCLAIMER" => r.loaded = users[i]) =>
              (users[i].accepted # None => users'[i].accepted = users[i].accepted)
         /\ /\ StandingDecision(users[i]) /\ r.op # "SIGNIN"
            /\ r.op \in {"APPROVE", "REJECT"} => r.loaded = users[i] /\ i \notin stale
            => users'[i].status = users[i].status /\ users'[i].by = users[i].by
<1>1. AccIInv /\ [AccNext]_accVars => [\A i \in Accounts, q \in AccReqs : Keeps(i, q, accReqs[q])]_accVars
  <2> SUFFICES ASSUME AccIInv, AccNext, NEW i \in Accounts, NEW q \in AccReqs
               PROVE  Keeps(i, q, accReqs[q])
    OBVIOUS
  <2> DEFINE r == accReqs[q]
  <2> SUFFICES ASSUME r.phase = "reread", accReqs'[q].phase = "committed", r.id = i,
                      r.loaded \in {r.basis, users[i]}
               PROVE  /\ (r.op = "DISCLAIMER" => r.loaded = users[i]) =>
                           (users[i].accepted # None => users'[i].accepted = users[i].accepted)
                      /\ /\ StandingDecision(users[i]) /\ r.op # "SIGNIN"
                         /\ r.op \in {"APPROVE", "REJECT"} => r.loaded = users[i] /\ i \notin stale
                         => users'[i].status = users[i].status /\ users'[i].by = users[i].by
    OBVIOUS
  <2>1. AccCommit(q)
    <3>1. PICK u \in AccReqs :
            \/ \E p \in People, email \in Emails, host \in Hosts : SignInNew(u, p, email, host)
            \/ \E j \in AccReqs, email \in Emails, host \in Hosts : SignInKnown(u, j, email, host)
            \/ \E j \in AccReqs, admin \in Admins, approve \in BOOLEAN :
                 DecideLoad(u, j, admin, approve)
            \/ \E j \in AccReqs : UpdateMe(u, j) \/ AcceptAssistDisclaimer(u, j)
            \/ SignInAdd(u) \/ AccReread(u) \/ AccCommit(u) \/ Publish(u) \/ Die(u)
      BY DEF AccNext
    <3>2. u = q
      BY <3>1 DEF SignInNew, SignInKnown, DecideLoad, UpdateMe, AcceptAssistDisclaimer, Loaded,
         SignInAdd, AccReread, AccCommit, Publish, Die, AccIInv, AccTypeOK
    <3>3. accReqs[u].phase = "reread" /\ accReqs'[u].phase = "committed"
      BY <3>2
    <3>4. ~Publish(u) /\ ~AccReread(u) /\ ~SignInAdd(u)
      BY <3>3 DEF Publish, AccReread, SignInAdd
    <3>5. ~Die(u)
      <4>1. [AccBlank EXCEPT !.phase = "failed"].phase = "failed"
        BY BlankIsReq DEF AccReq
      <4> QED BY <3>3, <4>1 DEF Die, AccIInv, AccTypeOK
    <3> QED
      BY <3>1, <3>2, <3>3, <3>4, <3>5 DEF SignInNew, SignInKnown, DecideLoad, UpdateMe,
         AcceptAssistDisclaimer, Loaded
  <2>2. /\ r.copy \in User /\ r.basis \in User /\ users[i] \in User
        /\ r.copy.sub = users[i].sub /\ r.op \in Ops /\ Derived(r) /\ Sound(i)
    BY DEF AccIInv, AccTypeOK, Grounded, Saving, Accounts
  <2>3. users'[i] = AccMerged(r.copy, r.basis, users[i])
    BY <2>1 DEF AccCommit, AccIInv, AccTypeOK, Accounts
  <2>4. ASSUME users[i].accepted # None, r.op = "DISCLAIMER" => r.loaded = users[i]
        PROVE  users'[i].accepted = users[i].accepted
    <3>1. r.copy.accepted \in {r.basis.accepted, users[i].accepted}
      BY <2>2, <2>4 DEF Derived
    <3> QED BY <2>2, <2>3, <3>1, MergedIsUser
  <2>5. ASSUME StandingDecision(users[i]), r.op # "SIGNIN",
               r.op \in {"APPROVE", "REJECT"} => r.loaded = users[i] /\ i \notin stale
        PROVE  users'[i].status = users[i].status /\ users'[i].by = users[i].by
    <3>1. r.op \in {"PROFILE", "DISCLAIMER"}
      BY <2>2, <2>5 DEF StandingDecision, Sound, Derived, Ops
    <3>2. /\ r.copy.status \in {r.basis.status, users[i].status}
          /\ r.copy.by \in {r.basis.by, users[i].by}
      BY <2>2, <3>1 DEF Derived
    <3> QED BY <2>2, <2>3, <3>2, MergedIsUser
  <2> QED BY <2>4, <2>5
<1>2. AccSpec => [][\A i \in Accounts, q \in AccReqs : Keeps(i, q, accReqs[q])]_accVars
  BY <1>1, AccInvariant, PTL DEF AccSpec
<1> QED BY <1>2 DEF OnlyStaleSavesRevert

=============================================================================
