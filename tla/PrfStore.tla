------------------------------ MODULE PrfStore ------------------------------
(***************************************************************************)
(* The data layer of the Purchase Request Hub (src/lib/store.ts): every    *)
(* rule about who may create, edit, submit, sign, clear, return or delete  *)
(* a purchase request, and everything those operations write - the record, *)
(* its approvals list and audit trail, the notifications, the account log. *)
(*                                                                         *)
(* One action is one committed transaction; what happens inside the        *)
(* transaction engine is the business of another module.  A refused call   *)
(* throws and commits nothing, so a refusal is a disabled action.          *)
(*                                                                         *)
(* Operations are performed by an Actor, the copy of the account that the  *)
(* signed session cookie carries.  It is taken at sign-in and never        *)
(* refreshed from the store, so an actor may be stale.                     *)
(***************************************************************************)
EXTENDS PrfAuthority, Sequences, SequencesExt

CONSTANTS
  Users,            \* account ids
  NoUser,           \* "nobody", for the optional ids of a record
  System,           \* the actor id of entries the store writes on its own
  InitialUsers,     \* the seeded accounts: role and band of every user
  Contents,         \* what a requester can type into the form
  Files,            \* ids of uploaded files
  MaxAttachments,   \* the limit on attachments per request (20 in the code)
  MaxNotifications, \* the tail of the bell that is kept (2000 in the code)
  MaxPrf,           \* bound: highest PRF number a behaviour may reach
  MaxAudit,         \* bound: length of one request's audit trail
  MaxLog            \* bound: length of the account log

VARIABLES
  users,            \* database.users, reduced to role and band
  sessions,         \* the live sessions' snapshots of an account
  requests,         \* database.requests, by PRF number
  notifications,    \* database.notifications, oldest first
  accountLog        \* database.accountLog, oldest first

vars == <<users, sessions, requests, notifications, accountLog>>

-----------------------------------------------------------------------------
(* Data.                                                                   *)

Account == [role : Roles, tier : Tiers \cup {NoTier}]
Actor   == [userId : Users, role : Roles, tier : Tiers \cup {NoTier}]

Status == {"Draft", "Pending Supervisor Approval", "Pending Finance Review",
           "Needs Revision", "Approved"}

\* What the form holds: the total of its lines in cents, whether the fields
\* a submission requires are all filled in, and the copied colleague.
Content == [amount : {c \in Nat : c < Infinity}, complete : BOOLEAN, copy : Users \cup {NoUser}]

AuditAction == {"Draft created", "Draft saved", "Attached", "Removed",
                "Submitted", "Routed", "Approved", "Sent to Finance",
                "Cleared", "Returned", "Returned by Finance"}

\* The band an entry mentions is in its detail: the one required at
\* "Routed", the one the signer held at "Approved".
AuditEntry == [action : AuditAction, actorId : Users \cup {System}, tier : Tiers \cup {NoTier}]

ApprovalGate   == {"Requester", "Finance"} \cup Tiers
ApprovalStatus == {"Signed", "Pending", "Cleared for payment", "Returned"}
Approval == [gate : ApprovalGate, name : Users \cup {NoUser}, status : ApprovalStatus]

Request ==
  [ ownerId : Users, status : Status, content : Content, attachments : SUBSET Files,
    requesterSigned : BOOLEAN, approverSigned : BOOLEAN, financeSigned : BOOLEAN,
    approverId : Users \cup {NoUser}, financeId : Users \cup {NoUser},
    requiredTier : Tiers \cup {NoTier}, returnedBy : Users \cup {NoUser},
    approvals : Seq(Approval), audit : Seq(AuditEntry) ]

Notice == [kind : {"submitted", "approved", "returned"}, requestId : Nat,
           to : Users, read : BOOLEAN]

LogEntry == [actorId : Users, subjectId : Users, from : Roles, to : Roles]

ASSUME StoreAssumption ==
  /\ NoUser \notin Users /\ System \notin Users
  /\ InitialUsers \in [Users -> Account]
  /\ Contents \subseteq Content
  /\ MaxPrf \in Nat /\ MaxAudit \in Nat /\ MaxLog \in Nat
  /\ MaxAttachments \in Nat /\ MaxNotifications \in Nat
  /\ IsFiniteSet(Users)

-----------------------------------------------------------------------------
(* Helpers.                                                                *)

\* Fault: an approved request can still be returned.
TRANSITIONS_Reopen ==
  [s \in Status |->
     CASE s \in {"Draft", "Needs Revision"}     -> {"Pending Supervisor Approval"}
       [] s = "Pending Supervisor Approval"     -> {"Pending Finance Review", "Needs Revision"}
       [] s \in {"Pending Finance Review", "Approved"} -> {"Approved", "Needs Revision"}]

TRANSITIONS ==
  [s \in Status |->
     CASE s \in {"Draft", "Needs Revision"}     -> {"Pending Supervisor Approval"}
       [] s = "Pending Supervisor Approval"     -> {"Pending Finance Review", "Needs Revision"}
       [] s = "Pending Finance Review"          -> {"Approved", "Needs Revision"}
       [] s = "Approved"                        -> {}]

assertTransition(from, to) == to \in TRANSITIONS[from]

\* Fault: the owner may edit until the supervisor has decided.
EDITABLE_Pending == {"Draft", "Needs Revision", "Pending Supervisor Approval"}

EDITABLE == {"Draft", "Needs Revision"}

assertCanMutateRequests(actor) == actor.role # "VIEW_ONLY"

auditEntry(actor, action) == [action |-> action, actorId |-> actor.userId, tier |-> NoTier]

systemEntry(action, tier) == [action |-> action, actorId |-> System, tier |-> tier]

\* The number after the highest one in the store.
nextPrfNumber(id) ==
  /\ \A other \in DOMAIN requests : other < id
  /\ id = 1 \/ id - 1 \in DOMAIN requests

\* Each role sees the stage it is responsible for; a draft is its author's.
visibleTo(actor, request) ==
  \/ request.ownerId = actor.userId
  \/ /\ request.status # "Draft"
     /\ isAdmin(actor.role) \/ actor.role = "VIEW_ONLY"
  \/ /\ actor.role = "FINANCE_REVIEWER"
     /\ \/ request.status \in {"Pending Finance Review", "Approved"}
        \/ request.status = "Needs Revision" /\ request.returnedBy = actor.userId
  \/ /\ isApprover(actor.role)
     /\ \/ request.status = "Pending Supervisor Approval"
        \/ request.status = "Needs Revision" /\ request.returnedBy = actor.userId
        \/ request.status \in {"Pending Finance Review", "Approved"} /\ request.approverId = actor.userId

\* A request the actor is not entitled to know of is Not Found.
locate(actor, id) == id \in DOMAIN requests /\ visibleTo(actor, requests[id])

requiredAuthority(request) ==
  IF request.requiredTier = NoTier THEN tierForAmount(request.content.amount)
  ELSE request.requiredTier

\* Fault: the author is told of their own request.
approversFor_Author(request) ==
  {u \in Users : /\ isApprover(users[u].role)
                 /\ tierLimit(users[u].tier) >= tierLimit(requiredAuthority(request))}

approversFor(request) ==
  {u \in Users : /\ isApprover(users[u].role)
                 /\ u # request.ownerId
                 /\ tierLimit(users[u].tier) >= tierLimit(requiredAuthority(request))}

notice(kind, id, to) == [kind |-> kind, requestId |-> id, to |-> to, read |-> FALSE]

\* One notice for each recipient, in the order of the users array.
noticesTo(kind, id, recipients) == SetToSeq({notice(kind, id, u) : u \in recipients})

\* Fault: a copy is sent even when nobody was copied in.
outcomeNotices_NoCopy(kind, id, request) ==
  <<notice(kind, id, request.ownerId), notice(kind, id, request.content.copy)>>

\* The colleague copied in by address hears what the owner hears.
outcomeNotices(kind, id, request) ==
  <<notice(kind, id, request.ownerId)>> \o
  (IF request.content.copy = NoUser THEN <<>> ELSE <<notice(kind, id, request.content.copy)>>)

\* Only the newest MaxNotifications are kept.
notification(new) ==
  LET all == notifications \o new
      cut == Len(all) - MaxNotifications
  IN  notifications' = IF cut > 0 THEN SubSeq(all, cut + 1, Len(all)) ELSE all

\* Fault: the first entry is rewritten, not the last.
signLast_First(approvals, actor, status) ==
  [approvals EXCEPT ![1] = [gate |-> @.gate, name |-> actor.userId, status |-> status]]

\* Rewrites the entry of the gate the request is waiting at, the last one.
signLast(approvals, actor, status) ==
  [approvals EXCEPT ![Len(approvals)] =
    [gate |-> @.gate, name |-> actor.userId, status |-> status]]

Put(id, request) == requests' = [requests EXCEPT ![id] = request]

\* Bound on the state space: room for n more audit entries.
Room(id, n) == Len(requests[id].audit) + n <= MaxAudit

-----------------------------------------------------------------------------
Init ==
  /\ users = InitialUsers
  /\ sessions = {}
  /\ requests = <<>>
  /\ notifications = <<>>
  /\ accountLog = <<>>

(***************************************************************************)
(* Accounts and sessions.                                                  *)
(***************************************************************************)

\* startSession copies the account's role and band into the token.
SignIn(u) ==
  /\ sessions' = sessions \cup {[userId |-> u, role |-> users[u].role, tier |-> users[u].tier]}
  /\ UNCHANGED <<users, requests, notifications, accountLog>>

\* Signing out, an hour idle, or twelve hours.
EndSession(actor) ==
  /\ sessions' = sessions \ {actor}
  /\ UNCHANGED <<users, requests, notifications, accountLog>>

\* Fault: administrators may move themselves.
MayAssign_Self(actor, u) == isAdmin(actor.role)

MayAssign(actor, u) == isAdmin(actor.role) /\ u # actor.userId

\* An administrator moves somebody else to another role.  The band stays.
assignRole(actor, u, role) ==
  /\ MayAssign(actor, u)
  /\ users' = [users EXCEPT ![u].role = role]
  /\ IF users[u].role = role THEN UNCHANGED accountLog
     ELSE /\ Len(accountLog) < MaxLog
          /\ accountLog' = Append(accountLog, [actorId |-> actor.userId, subjectId |-> u,
                                               from |-> users[u].role, to |-> role])
  /\ UNCHANGED <<sessions, requests, notifications>>

\* A new process reads the file, and gives a band to an approver without one.
Restart ==
  /\ users' = [u \in Users |->
                 IF isApprover(users[u].role) /\ users[u].tier = NoTier
                 THEN [users[u] EXCEPT !.tier = "DIRECTOR"] ELSE users[u]]
  /\ UNCHANGED <<sessions, requests, notifications, accountLog>>

markNotificationsRead(actor) ==
  /\ notifications' = [i \in 1..Len(notifications) |->
                         IF notifications[i].to = actor.userId
                         THEN [notifications[i] EXCEPT !.read = TRUE] ELSE notifications[i]]
  /\ UNCHANGED <<users, sessions, requests, accountLog>>

(***************************************************************************)
(* The requester's operations.                                             *)
(***************************************************************************)

NewDraft(actor, content) ==
  [ ownerId |-> actor.userId, status |-> "Draft", content |-> content, attachments |-> {},
    requesterSigned |-> FALSE, approverSigned |-> FALSE, financeSigned |-> FALSE,
    approverId |-> NoUser, financeId |-> NoUser, requiredTier |-> NoTier,
    returnedBy |-> NoUser, approvals |-> <<>>,
    audit |-> <<auditEntry(actor, "Draft created")>> ]

createDraft(actor, content) ==
  /\ assertCanMutateRequests(actor)
  /\ \E id \in 1..MaxPrf :
       /\ nextPrfNumber(id)
       /\ requests' = [other \in DOMAIN requests \cup {id} |->
                         IF other = id THEN NewDraft(actor, content) ELSE requests[other]]
  /\ UNCHANGED <<users, sessions, notifications, accountLog>>

\* What update, attach and detach share: the owner, a located record, a
\* status whose content may change, and one audit entry.
Edit(actor, id, action, edited) ==
  /\ assertCanMutateRequests(actor)
  /\ locate(actor, id)
  /\ requests[id].ownerId = actor.userId
  /\ requests[id].status \in EDITABLE
  /\ Room(id, 1)
  /\ Put(id, [edited EXCEPT !.audit = Append(@, auditEntry(actor, action))])
  /\ UNCHANGED <<users, sessions, notifications, accountLog>>

\* Fault: saving rebuilds the record and drops its history.
updateDraft_Rebuild(actor, id, content) ==
  Edit(actor, id, "Draft saved", [requests[id] EXCEPT !.content = content, !.audit = <<>>])

updateDraft(actor, id, content) ==
  Edit(actor, id, "Draft saved", [requests[id] EXCEPT !.content = content])

\* Fault: the limit was checked before the file was received.
attachToRequest_Unlimited(actor, id, file) ==
  /\ file \notin requests[id].attachments
  /\ Edit(actor, id, "Attached", [requests[id] EXCEPT !.attachments = @ \cup {file}])

attachToRequest(actor, id, file) ==
  /\ file \notin requests[id].attachments
  /\ Cardinality(requests[id].attachments) < MaxAttachments
  /\ Edit(actor, id, "Attached", [requests[id] EXCEPT !.attachments = @ \cup {file}])

detachFromRequest(actor, id, file) ==
  /\ file \in requests[id].attachments
  /\ Edit(actor, id, "Removed", [requests[id] EXCEPT !.attachments = @ \ {file}])

\* Fault: whatever can be edited can be deleted.
Unsubmitted_Editable(request) == request.status \in EDITABLE

\* A request that was ever submitted keeps its history and cannot go.
Unsubmitted(request) == request.status = "Draft"

deleteDraft(actor, id) ==
  /\ assertCanMutateRequests(actor)
  /\ locate(actor, id)
  /\ requests[id].ownerId = actor.userId
  /\ Unsubmitted(requests[id])
  /\ requests' = [other \in DOMAIN requests \ {id} |-> requests[other]]
  /\ UNCHANGED <<users, sessions, notifications, accountLog>>

\* Fault: no escalation past the author.
requiredAtSubmission_ByAmount(actor, amount) == tierForAmount(amount)

\* The tier a submission must reach: by amount, or one above an approver
\* who could have signed it for somebody else.
requiredAtSubmission(actor, amount) ==
  LET byAmount == tierForAmount(amount)
  IN  IF /\ isApprover(actor.role)
         /\ actor.tier # NoTier
         /\ tierLimit(actor.tier) >= tierLimit(byAmount)
      THEN nextTierAbove(actor.tier) ELSE byAmount

Submitted(request, actor) ==
  LET required == requiredAtSubmission(actor, request.content.amount)
  IN  [request EXCEPT
        !.status = "Pending Supervisor Approval",
        !.requesterSigned = TRUE,
        !.requiredTier = required,
        !.approvals = <<[gate |-> "Requester", name |-> actor.userId, status |-> "Signed"],
                        [gate |-> required, name |-> NoUser, status |-> "Pending"]>>,
        !.audit = @ \o <<auditEntry(actor, "Submitted"), systemEntry("Routed", required)>>]

submitRequest(actor, id) ==
  /\ assertCanMutateRequests(actor)
  /\ locate(actor, id)
  /\ requests[id].ownerId = actor.userId
  /\ assertTransition(requests[id].status, "Pending Supervisor Approval")
  /\ requests[id].content.complete
  /\ Room(id, 2)
  /\ LET submitted == Submitted(requests[id], actor)
     IN  /\ Put(id, submitted)
         /\ notification(noticesTo("submitted", id, approversFor(submitted)))
  /\ UNCHANGED <<users, sessions, accountLog>>

(***************************************************************************)
(* Gate 1, the supervisor's decision.                                      *)
(***************************************************************************)

\* Fault: a request already past gate 1 is not refused.
MayDecide_AnyGate(actor, id) ==
  /\ assertCanMutateRequests(actor)
  /\ isApprover(actor.role)
  /\ locate(actor, id)
  /\ requests[id].ownerId # actor.userId

\* The checks both answers go through.
MayDecide(actor, id) ==
  /\ assertCanMutateRequests(actor)
  /\ isApprover(actor.role)
  /\ locate(actor, id)
  /\ requests[id].status # "Pending Finance Review"
  /\ requests[id].ownerId # actor.userId

\* Fault: being an approver is enough.
MaySign_AnyBand(actor, request) == request.requesterSigned

\* Authority is measured against the tier the request must reach.
MaySign(actor, request) ==
  /\ request.requesterSigned
  /\ tierLimit(actor.tier) >= tierLimit(requiredAuthority(request))

\* The entry of a signature also tells the band it was given under.
signatureEntry(actor) ==
  [action |-> "Approved", actorId |-> actor.userId,
   tier |-> IF actor.tier = NoTier THEN "MANAGER" ELSE actor.tier]

Signed(request, actor) ==
  [request EXCEPT
    !.status = "Pending Finance Review",
    !.approverSigned = TRUE,
    !.approverId = actor.userId,
    !.approvals = Append(signLast(@, actor, "Signed"),
                         [gate |-> "Finance", name |-> NoUser, status |-> "Pending"]),
    !.audit = @ \o <<signatureEntry(actor), systemEntry("Sent to Finance", NoTier)>>]

decideApprove(actor, id) ==
  /\ MayDecide(actor, id)
  /\ assertTransition(requests[id].status, "Pending Finance Review")
  /\ MaySign(actor, requests[id])
  /\ Room(id, 2)
  /\ Put(id, Signed(requests[id], actor))
  /\ notification(noticesTo("submitted", id, {u \in Users : isFinance(users[u].role)})
                  \o <<notice("approved", id, requests[id].ownerId)>>)
  /\ UNCHANGED <<users, sessions, accountLog>>

\* Sending a request back, from either gate.
returnToRequester(request, actor, action) ==
  [request EXCEPT
    !.status = "Needs Revision",
    !.returnedBy = actor.userId,
    !.approvals = signLast(@, actor, "Returned"),
    !.audit = Append(@, auditEntry(actor, action))]

decideReject(actor, id) ==
  /\ MayDecide(actor, id)
  /\ assertTransition(requests[id].status, "Needs Revision")
  /\ Room(id, 1)
  /\ Put(id, returnToRequester(requests[id], actor, "Returned"))
  /\ notification(outcomeNotices("returned", id, requests[id]))
  /\ UNCHANGED <<users, sessions, accountLog>>

(***************************************************************************)
(* Gate 2, Finance's compliance review.                                    *)
(***************************************************************************)

MayReview(actor, id) ==
  /\ assertCanMutateRequests(actor)
  /\ isFinance(actor.role)
  /\ locate(actor, id)
  /\ requests[id].status # "Pending Supervisor Approval"

Cleared(request, actor) ==
  [request EXCEPT
    !.status = "Approved",
    !.financeSigned = TRUE,
    !.financeId = actor.userId,
    !.approvals = signLast(@, actor, "Cleared for payment"),
    !.audit = Append(@, auditEntry(actor, "Cleared"))]

financeApprove(actor, id) ==
  /\ MayReview(actor, id)
  /\ assertTransition(requests[id].status, "Approved")
  /\ Room(id, 1)
  /\ Put(id, Cleared(requests[id], actor))
  /\ notification(outcomeNotices("approved", id, requests[id]))
  /\ UNCHANGED <<users, sessions, accountLog>>

financeReject(actor, id) ==
  /\ MayReview(actor, id)
  /\ assertTransition(requests[id].status, "Needs Revision")
  /\ Room(id, 1)
  /\ Put(id, returnToRequester(requests[id], actor, "Returned by Finance"))
  /\ notification(outcomeNotices("returned", id, requests[id]))
  /\ UNCHANGED <<users, sessions, accountLog>>

-----------------------------------------------------------------------------
AccountStep ==
  \/ \E u \in Users : SignIn(u)
  \/ \E actor \in sessions : EndSession(actor) \/ markNotificationsRead(actor)
  \/ \E actor \in sessions, u \in Users, role \in Roles : assignRole(actor, u, role)
  \/ Restart

RequesterStep(actor) ==
  \/ \E content \in Contents : createDraft(actor, content)
  \/ \E id \in DOMAIN requests :
       \/ \E content \in Contents : updateDraft(actor, id, content)
       \/ \E file \in Files : attachToRequest(actor, id, file) \/ detachFromRequest(actor, id, file)
       \/ deleteDraft(actor, id)
       \/ submitRequest(actor, id)

ReviewerStep(actor) ==
  \E id \in DOMAIN requests :
    \/ decideApprove(actor, id)
    \/ decideReject(actor, id)
    \/ financeApprove(actor, id)
    \/ financeReject(actor, id)

Next ==
  \/ AccountStep
  \/ \E actor \in sessions : RequesterStep(actor) \/ ReviewerStep(actor)

Spec == Init /\ [][Next]_vars
=============================================================================
