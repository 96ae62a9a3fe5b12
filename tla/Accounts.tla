------------------------------ MODULE Accounts ------------------------------
(***************************************************************************)
(* User accounts and their roles: sign-in on the host of one of the three  *)
(* processes, the back office's decisions on technicians, the user's own   *)
(* profile and the acceptance of the assistant's disclaimer.  Every        *)
(* request loads the row, changes its copy, re-reads the row and writes    *)
(* the columns in which the two differ; nothing locks or versions the row. *)
(* A request names the row it creates, the profile it stores and the time  *)
(* it accepts at.  The administrators are given: the role of the caller is *)
(* resolved in a session of its own before the request begins.             *)
(***************************************************************************)
EXTENDS FiniteSets, TLC, Absence

CONSTANTS
  AccReqs,     (* HTTP requests                                            *)
  People,      (* Google subjects                                          *)
  Emails,      (* what their claims may say                                *)
  AdminEmails, (* the allowlist of the back office                         *)
  Admins       (* administrators who decide                                *)

Roles == {"CUSTOMER", "TECHNICIAN", "ADMIN"}
RoleStatuses == {"APPROVED", "PENDING", "REJECTED"}
Hosts == {"CUSTOMER", "TECHNICIAN", "BACKOFFICE"}

(* app_user.                                                               *)
User == [sub : People, email : Emails, role : Roles, status : RoleStatuses,
         by : Admins \cup {None}, profile : AccReqs \cup {None},
         accepted : AccReqs \cup {None}]

ASSUME AccountsAssumption ==
  /\ AdminEmails \subseteq Emails
  /\ None \notin AccReqs \cup Admins \cup User

VARIABLES
  users,       (* id -> the committed row, or None                         *)
  accReqs,     (* request -> its phase and local state                     *)
  announced,   (* users whose request for access reached the back office   *)
  approvals,   (* users an administrator approved (history)                *)
  stale,       (* users a save wrote whose row had changed since its       *)
               (* request loaded it (history)                              *)
  untold       (* users the announcement of whose request died (history)   *)

accVars == <<users, accReqs, announced, approvals, stale, untold>>

Ops == {"SIGNIN", "APPROVE", "REJECT", "PROFILE", "DISCLAIMER"}

AccReq == [phase : {"idle", "new", "mutated", "reread", "committed", "done", "failed"},
           op : Ops \cup {None}, id : AccReqs \cup {None}, loaded : User \cup {None},
           copy : User \cup {None}, basis : User \cup {None}, requested : BOOLEAN]

AccBlank == [phase |-> "idle", op |-> None, id |-> None, loaded |-> None, copy |-> None,
             basis |-> None, requested |-> FALSE]

Accounts == {i \in AccReqs : users[i] # None}

----------------------------------------------------------------------------
(* The user.                                                               *)

GrantRole(row, role) == [row EXCEPT !.role = role, !.status = "APPROVED", !.by = None]

RequestRole(row, role) == [row EXCEPT !.role = role, !.status = "PENDING", !.by = None]

Approved(row, admin) == [row EXCEPT !.status = "APPROVED", !.by = admin]

Rejected(row, admin) == [row EXCEPT !.status = "REJECTED", !.by = admin]

(* Mutant: every acceptance is stored.                                     *)
AcceptedAnew(row, q) == [row EXCEPT !.accepted = q]

AcceptDisclaimer(row, q) ==
  IF row.accepted = None THEN [row EXCEPT !.accepted = q] ELSE row

NewUser(p, email) ==
  [sub |-> p, email |-> email, role |-> "CUSTOMER", status |-> "APPROVED", by |-> None,
   profile |-> None, accepted |-> None]

IsPendingTechnician(row) == row.role = "TECHNICIAN" /\ row.status = "PENDING"

IsApprovedTechnician(row) == row.role = "TECHNICIAN" /\ row.status = "APPROVED"

(* Mutant: the technician host grants the role at once.                    *)
HostGrants(row, host) ==
  CASE host = "CUSTOMER"   -> GrantRole(row, "CUSTOMER")
    [] host = "TECHNICIAN" -> GrantRole(row, "TECHNICIAN")
    [] host = "BACKOFFICE" -> GrantRole(row, "ADMIN")

(* _apply_host, where it does not refuse.                                  *)
ApplyHost(row, host) ==
  CASE host = "CUSTOMER"   -> GrantRole(row, "CUSTOMER")
    [] host = "TECHNICIAN" -> IF row.role = "TECHNICIAN" THEN row
                              ELSE RequestRole(row, "TECHNICIAN")
    [] host = "BACKOFFICE" -> GrantRole(row, "ADMIN")

Refused(email, host) == host = "BACKOFFICE" /\ email \notin AdminEmails

(* Mutant: the outcome is taken after the host was applied.                *)
OutcomeTooLate(before, after) == FALSE

(* requested_pending of the outcome: newly waiting for approval.           *)
RequestedPending(before, after) ==
  IsPendingTechnician(after) /\ (before # None => ~IsPendingTechnician(before))

----------------------------------------------------------------------------
(* The repository.                                                         *)

GetByGoogleSub(p) == {i \in Accounts : users[i].sub = p}

AccColumn(new, read, current) == IF new # read THEN new ELSE current

(* save(): the columns that differ from the re-read row.                   *)
AccMerged(copy, basis, row) ==
  [sub      |-> AccColumn(copy.sub, basis.sub, row.sub),
   email    |-> AccColumn(copy.email, basis.email, row.email),
   role     |-> AccColumn(copy.role, basis.role, row.role),
   status   |-> AccColumn(copy.status, basis.status, row.status),
   by       |-> AccColumn(copy.by, basis.by, row.by),
   profile  |-> AccColumn(copy.profile, basis.profile, row.profile),
   accepted |-> AccColumn(copy.accepted, basis.accepted, row.accepted)]

(* Mutant: two rows may hold one google_sub.                               *)
SubUnchecked(p) == TRUE

(* uq_app_user_google_sub.                                                 *)
SubIsFree(p) == GetByGoogleSub(p) = {}

AccInit ==
  /\ users = [i \in AccReqs |-> None]
  /\ accReqs = [q \in AccReqs |-> AccBlank]
  /\ announced = {} /\ approvals = {} /\ stale = {} /\ untold = {}

Loaded(q, op, i, copy) ==
  /\ accReqs[q].phase = "idle"
  /\ accReqs' = [accReqs EXCEPT ![q] =
       [AccBlank EXCEPT !.phase = "mutated", !.op = op, !.id = i, !.loaded = users[i],
                        !.copy = copy]]
  /\ UNCHANGED <<users, announced, approvals, stale, untold>>

(* sign_in() of someone unknown.                                           *)
SignInNew(q, p, email, host) ==
  LET new == ApplyHost(NewUser(p, email), host) IN
  /\ accReqs[q].phase = "idle"
  /\ GetByGoogleSub(p) = {}
  /\ ~Refused(email, host)
  /\ accReqs' = [accReqs EXCEPT ![q] =
       [AccBlank EXCEPT !.phase = "new", !.op = "SIGNIN", !.id = q, !.copy = new,
                        !.requested = RequestedPending(None, new)]]
  /\ UNCHANGED <<users, announced, approvals, stale, untold>>

(* add().  When another first sign-in won, the flush fails, and the read   *)
(* that is meant to find the winner's row raises on the broken session.    *)
SignInAdd(q) ==
  LET new == accReqs[q].copy IN
  /\ accReqs[q].phase = "new"
  /\ IF SubIsFree(new.sub)
     THEN /\ users' = [users EXCEPT ![q] = new]
          /\ accReqs' = [accReqs EXCEPT ![q].phase = "committed"]
     ELSE /\ accReqs' = [accReqs EXCEPT ![q] = [AccBlank EXCEPT !.phase = "failed"]]
          /\ UNCHANGED users
  /\ UNCHANGED <<announced, approvals, stale, untold>>

(* What _reconcile_existing() compares before and after.                   *)
Synced(row) == <<row.email, row.role, row.status>>

(* _reconcile_existing: saved only when one of these changed.              *)
SignInKnown(q, i, email, host) ==
  LET synced == [users[i] EXCEPT !.email = email]
      after == ApplyHost(synced, host)
  IN
  /\ i \in Accounts
  /\ ~Refused(email, host)
  /\ Synced(after) # Synced(users[i])
  /\ accReqs[q].phase = "idle"
  /\ accReqs' = [accReqs EXCEPT ![q] =
       [AccBlank EXCEPT !.phase = "mutated", !.op = "SIGNIN", !.id = i, !.loaded = users[i],
                        !.copy = after, !.requested = RequestedPending(users[i], after)]]
  /\ UNCHANGED <<users, announced, approvals, stale, untold>>

AssertPendingTechnician(row) == IsPendingTechnician(row)

DecideLoad(q, i, admin, approve) ==
  /\ i \in Accounts
  /\ AssertPendingTechnician(users[i])
  /\ IF approve THEN Loaded(q, "APPROVE", i, Approved(users[i], admin))
                ELSE Loaded(q, "REJECT", i, Rejected(users[i], admin))

(* PATCH /auth/me.                                                         *)
UpdateMe(q, i) ==
  /\ i \in Accounts
  /\ Loaded(q, "PROFILE", i, [users[i] EXCEPT !.profile = q])

(* POST /auth/me/assist-disclaimer.                                        *)
AcceptAssistDisclaimer(q, i) ==
  /\ i \in Accounts
  /\ Loaded(q, "DISCLAIMER", i, AcceptDisclaimer(users[i], q))

AccReread(q) ==
  /\ accReqs[q].phase = "mutated"
  /\ accReqs' = [accReqs EXCEPT ![q].phase = "reread", ![q].basis = users[accReqs[q].id]]
  /\ UNCHANGED <<users, announced, approvals, stale, untold>>

AccCommit(q) ==
  LET r == accReqs[q]
      row == AccMerged(r.copy, r.basis, users[r.id])
  IN
  /\ r.phase = "reread"
  /\ users' = [users EXCEPT ![r.id] = row]
  /\ approvals' = IF r.op = "APPROVE" THEN approvals \cup {r.id} ELSE approvals
  /\ stale' = IF r.loaded = r.basis /\ r.basis = users[r.id] THEN stale ELSE stale \cup {r.id}
  /\ announced' = IF IsPendingTechnician(row) /\ IsPendingTechnician(users[r.id])
                  THEN announced ELSE announced \ {r.id}
  /\ accReqs' = [accReqs EXCEPT ![q].phase = "committed"]
  /\ UNCHANGED untold

(* After the commit a new request is published and mailed to the admins,   *)
(* a decision to the user.                                                 *)
Publish(q) ==
  LET r == accReqs[q] IN
  /\ r.phase = "committed"
  /\ announced' = IF r.requested THEN announced \cup {r.id} ELSE announced
  /\ accReqs' = [accReqs EXCEPT ![q] = [AccBlank EXCEPT !.phase = "done"]]
  /\ UNCHANGED <<users, approvals, stale, untold>>

(* The process dies; after the commit only the announcement is lost.       *)
Die(q) ==
  LET r == accReqs[q] IN
  /\ r.phase \in {"new", "mutated", "reread", "committed"}
  /\ untold' = IF r.phase = "committed" /\ r.requested THEN untold \cup {r.id} ELSE untold
  /\ accReqs' = [accReqs EXCEPT ![q] = [AccBlank EXCEPT !.phase = "failed"]]
  /\ UNCHANGED <<users, announced, approvals, stale>>

AccNext ==
  \E q \in AccReqs :
    \/ \E p \in People, email \in Emails, host \in Hosts : SignInNew(q, p, email, host)
    \/ \E i \in AccReqs, email \in Emails, host \in Hosts : SignInKnown(q, i, email, host)
    \/ \E i \in AccReqs, admin \in Admins, approve \in BOOLEAN : DecideLoad(q, i, admin, approve)
    \/ \E i \in AccReqs : UpdateMe(q, i) \/ AcceptAssistDisclaimer(q, i)
    \/ SignInAdd(q) \/ AccReread(q) \/ AccCommit(q) \/ Publish(q) \/ Die(q)

AccSpec == AccInit /\ [][AccNext]_accVars

----------------------------------------------------------------------------
(* Properties.                                                             *)

(* Sign-ins of one new person race: the person gets one account.           *)
OneAccountPerPerson ==
  \A i, j \in Accounts : users[i].sub = users[j].sub => i = j

(* Every variable keeps its type, and a Google subject one account.        *)
AccTypeOK ==
  /\ users \in [AccReqs -> User \cup {None}]
  /\ accReqs \in [AccReqs -> AccReq]
  /\ announced \subseteq Accounts /\ approvals \subseteq Accounts
  /\ stale \subseteq Accounts /\ untold \subseteq Accounts
  /\ OneAccountPerPerson

(* Whatever sign-ins, decisions and profile saves do to each other, nobody *)
(* becomes an approved technician whom no administrator approved, unless a *)
(* save merged the columns of several versions of the user's row           *)
(* (approve_technician(), _apply_host(), SqlAlchemyUserRepository.save()). *)
ApprovedByAnAdmin ==
  \A i \in Accounts \ stale : IsApprovedTechnician(users[i]) => i \in approvals

(* Who last claimed technician access and waits is known to the back       *)
(* office, unless a save on a stale row put the claim there or the process *)
(* died before it told (google_callback(), after the commit).              *)
PendingIsAnnounced ==
  (\A q \in AccReqs : accReqs[q].phase \in {"idle", "done", "failed"}) =>
    \A i \in Accounts \ (stale \cup untold) :
      IsPendingTechnician(users[i]) => i \in announced

StandingDecision(row) == row.by # None

(* A save whose request had loaded the row as the save read it again, or   *)
(* as it is at the commit, whatever committed in between:                  *)
(*   - keeps the first acceptance of the disclaimer, unless it accepts     *)
(*     itself and loaded the row before another acceptance;                *)
(*   - keeps a decision, unless it is the user's sign-in, or a decision    *)
(*     itself, made on an older row or on one a stale save wrote           *)
(* (accept_assist_disclaimer(), _apply_host(), save()).                    *)
OnlyStaleSavesRevert ==
  [][\A i \in Accounts, q \in AccReqs :
       LET r == accReqs[q] IN
       /\ r.phase = "reread" /\ accReqs'[q].phase = "committed" /\ r.id = i
       /\ r.loaded \in {r.basis, users[i]}
       => /\ (r.op = "DISCLAIMER" => r.loaded = users[i]) =>
               (users[i].accepted # None => users'[i].accepted = users[i].accepted)
          /\ /\ StandingDecision(users[i]) /\ r.op # "SIGNIN"
             /\ r.op \in {"APPROVE", "REJECT"} => r.loaded = users[i] /\ i \notin stale
             => users'[i].status = users[i].status /\ users'[i].by = users[i].by]_accVars

----------------------------------------------------------------------------
(* What the repository says and the code does not keep.                    *)

(* identity_service.py: technician access is sticky; rejected is not       *)
(* re-queued.                                                              *)
RejectedIsNotRequeued ==
  [][\A i \in Accounts :
       users[i].role = "TECHNICIAN" /\ users[i].status = "REJECTED"
         => ~IsPendingTechnician(users'[i])]_accVars

(* auth_routes.py: a reload or a second tab cannot restate when they       *)
(* agreed.                                                                 *)
AcceptanceStands ==
  [][\A i \in Accounts :
       users[i].accepted # None => users'[i].accepted = users[i].accepted]_accVars

=============================================================================
