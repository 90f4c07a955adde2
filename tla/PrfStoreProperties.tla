------------------------- MODULE PrfStoreProperties -------------------------
(***************************************************************************)
(* What the data layer promises about a purchase request, from its first   *)
(* draft to the day Finance clears it.                                     *)
(***************************************************************************)
EXTENDS PrfStore

\* Every variable holds what the Database type of store.ts says it holds.
TypeOK ==
  /\ users \in [Users -> Account]
  /\ sessions \subseteq Actor
  /\ DOMAIN requests \subseteq 1..MaxPrf
  /\ requests \in [DOMAIN requests -> Request]
  /\ notifications \in Seq(Notice)
  /\ accountLog \in Seq(LogEntry)

-----------------------------------------------------------------------------
(* The audit trail and the record tell the same story.                     *)

Edits == {"Draft created", "Draft saved", "Attached", "Removed"}

\* The entry k places before the last one.
At(request, k) == request.audit[Len(request.audit) - k]

\* The entry a person leaves, as auditEntry writes it.
entryBy(action, u) == [action |-> action, actorId |-> u, tier |-> NoTier]

\* The owner's submission ends k entries before the end of the trail, and
\* the tier it was routed to is the one the record still requires.
SubmissionAt(request, k) ==
  /\ Len(request.audit) >= k + 3
  /\ At(request, k + 1) = entryBy("Submitted", request.ownerId)
  /\ At(request, k) = systemEntry("Routed", request.requiredTier)
  /\ request.requiredTier # NoTier
  /\ request.content.amount <= tierLimit(request.requiredTier)
  /\ request.requesterSigned
  /\ request.content.complete

\* A signature ends k entries before the end, by somebody other than the
\* owner, who held a band that reaches the required tier, and who is the
\* approver the record names.
SignatureAt(request, k) ==
  /\ At(request, k + 1).action = "Approved"
  /\ At(request, k + 1).actorId = request.approverId
  /\ tierLimit(At(request, k + 1).tier) >= tierLimit(request.requiredTier)
  /\ At(request, k) = systemEntry("Sent to Finance", NoTier)
  /\ request.approverSigned
  /\ request.approverId \in Users \ {request.ownerId}

\* Nothing has happened in the last k entries but the owner's own edits.
OnlyEditedSince(request, k) ==
  \A j \in 0..(k - 1) : /\ At(request, j).action \in Edits
                        /\ At(request, j).actorId = request.ownerId

\* A trail starts with its owner's first draft.
BegunByOwner(request) ==
  /\ Len(request.audit) > 0
  /\ request.audit[1] = entryBy("Draft created", request.ownerId)

\* In every status the trail ends in exactly the steps that lead there.  A
\* request Finance holds or has cleared was signed, after its latest
\* submission and with no edit since, by somebody else with authority over
\* its amount; a cleared one was then cleared by the person it names.
TrailExplainsStatus(request) ==
  /\ BegunByOwner(request)
  /\ request.status = "Draft" => OnlyEditedSince(request, Len(request.audit))
  /\ request.status = "Pending Supervisor Approval" => SubmissionAt(request, 0)
  /\ request.status = "Pending Finance Review" =>
       SubmissionAt(request, 2) /\ SignatureAt(request, 0)
  /\ request.status = "Approved" =>
       /\ SubmissionAt(request, 3) /\ SignatureAt(request, 1)
       /\ At(request, 0) = entryBy("Cleared", request.financeId)
       /\ request.financeSigned
  /\ request.status = "Needs Revision" =>
       \E k \in 0..(Len(request.audit) - 1) :
         /\ At(request, k).action \in {"Returned", "Returned by Finance"}
         /\ At(request, k).actorId = request.returnedBy
         /\ OnlyEditedSince(request, k)

\* The audit trail of every request explains the status it is in
\* (submitRequest, decideRequest, financeReview and the editing rules).
TrailIsTrue == \A id \in DOMAIN requests : TrailExplainsStatus(requests[id])

\* The approvals list of a record in each status: who asked, who stands at
\* gate 1 and, once the request got there, who stands at gate 2.
ApprovalsFit(r) ==
  LET asked == [gate |-> "Requester", name |-> r.ownerId, status |-> "Signed"]
      gate1(name, status) == [gate |-> r.requiredTier, name |-> name, status |-> status]
      gate2(name, status) == [gate |-> "Finance", name |-> name, status |-> status]
  IN  /\ r.status = "Draft" => r.approvals = <<>>
      /\ r.status = "Pending Supervisor Approval" =>
           r.approvals = <<asked, gate1(NoUser, "Pending")>>
      /\ r.status = "Pending Finance Review" =>
           r.approvals = <<asked, gate1(r.approverId, "Signed"), gate2(NoUser, "Pending")>>
      /\ r.status = "Approved" =>
           r.approvals = <<asked, gate1(r.approverId, "Signed"),
                           gate2(r.financeId, "Cleared for payment")>>
      /\ r.status = "Needs Revision" =>
           \/ r.approvals = <<asked, gate1(r.returnedBy, "Returned")>>
           \/ r.approvals = <<asked, gate1(r.approverId, "Signed"),
                              gate2(r.returnedBy, "Returned")>>

\* The approvals list that a reader of the form sees names the people of the
\* record, gate by gate.  store.ts rebuilds it by index in four places.
ApprovalsAgree == \A id \in DOMAIN requests : ApprovalsFit(requests[id])

-----------------------------------------------------------------------------
(* What a step may never do.                                               *)

Kept(id) == id \in DOMAIN requests /\ id \in DOMAIN requests'

\* Every change to a record is told in its trail, and the trail only grows
\* (the rule assertAppendOnly enforces before a transaction commits).
EveryChangeIsAudited ==
  [][\A id \in 1..MaxPrf : Kept(id) /\ requests'[id] # requests[id] =>
       IsStrictPrefix(requests[id].audit, requests'[id].audit)]_vars

\* A submitted request never disappears, never changes hands and never
\* becomes a draft again, and once Approved it does not change at all.
SubmittedIsPermanent ==
  [][\A id \in DOMAIN requests : requests[id].status # "Draft" =>
       /\ id \in DOMAIN requests'
       /\ requests'[id].ownerId = requests[id].ownerId
       /\ requests'[id].status # "Draft"
       /\ requests[id].status = "Approved" => requests'[id] = requests[id]]_vars

\* The step submits the request.
Arrives(id) ==
  /\ requests[id].status \in EDITABLE
  /\ id \in DOMAIN requests'
  /\ requests'[id].status = "Pending Supervisor Approval"

\* Somebody who could sign in now and sign this request.
CouldSign(u, id) ==
  LET actor == [userId |-> u, role |-> users[u].role, tier |-> users[u].tier]
  IN  MayDecide(actor, id) /\ MaySign(actor, requests[id])

\* When a request arrives at gate 1 the people told about it are exactly the
\* people whose accounts could sign it: approversFor, which picks the
\* recipients, and decideRequest, which checks the signer, agree.  The
\* notices are the newest of the bell, and nothing else is added to it.
SubmissionReachesItsSigners ==
  [][\A id \in DOMAIN requests :
       Arrives(id) =>
         LET signers == {u \in Users : CouldSign(u, id)'}
             older   == Len(notifications') - Cardinality(signers)
         IN  /\ IsSuffix(SubSeq(notifications', 1, older), notifications)
             /\ {notifications'[i] : i \in older + 1 .. Len(notifications')}
                = {notice("submitted", id, u) : u \in signers}]_vars

\* A submitted request of an approver who could have signed it for somebody
\* else needs more authority than its author's, unless that is unlimited.
EscalatedPastItsAuthor ==
  [][\A id \in DOMAIN requests :
       Arrives(id) =>
         \E actor \in sessions :
            /\ actor.userId = requests[id].ownerId
            /\ \/ ~isApprover(actor.role)
               \/ tierLimit(actor.tier) < requests[id].content.amount
               \/ tierLimit(actor.tier) = Infinity
               \/ tierLimit(requests'[id].requiredTier) > tierLimit(actor.tier)]_vars

-----------------------------------------------------------------------------
(* Notices and accounts.                                                   *)

\* No notice is ever about a draft: a draft is private to its author, and a
\* number a deleted draft gave back was never heard of.
NoNoticeOfADraft ==
  \A i \in DOMAIN notifications :
    /\ notifications[i].requestId \in DOMAIN requests
    /\ requests[notifications[i].requestId].status # "Draft"

\* The role the first n entries of the log leave a user in.
RoleAfter(log, u, n) ==
  LET about == {i \in 1..n : log[i].subjectId = u}
  IN  IF about = {} THEN InitialUsers[u].role
      ELSE log[CHOOSE i \in about : \A j \in about : j <= i].to

\* An administrator by seed, or by one of the first n entries.
WasAdmin(log, u, n) ==
  \/ isAdmin(InitialUsers[u].role)
  \/ \E j \in 1..n : log[j].subjectId = u /\ isAdmin(log[j].to)

\* Every position is explained by the log, entry by entry: each starts from
\* the role the ones before it left and changes it, nobody moved themselves,
\* and whoever moved somebody was an administrator by seed or by an earlier
\* entry.
LogExplainsPositions ==
  /\ \A u \in Users : users[u].role = RoleAfter(accountLog, u, Len(accountLog))
  /\ \A i \in DOMAIN accountLog :
       LET entry == accountLog[i]
       IN  /\ entry.from = RoleAfter(accountLog, entry.subjectId, i - 1)
           /\ entry.to # entry.from
           /\ entry.actorId # entry.subjectId
           /\ WasAdmin(accountLog, entry.actorId, i - 1)

-----------------------------------------------------------------------------
(* The store implements the promise of TwoGates.  A record keeps the id of *)
(* whoever signed it last even while it is being revised, so the signature *)
(* counts as given only while the record is past gate 1.                   *)

stageOf(id) ==
  IF id \notin DOMAIN requests THEN "absent"
  ELSE CASE requests[id].status = "Draft"                       -> "draft"
         [] requests[id].status = "Pending Supervisor Approval" -> "gate 1"
         [] requests[id].status = "Pending Finance Review"      -> "gate 2"
         [] requests[id].status = "Needs Revision"              -> "revision"
         [] requests[id].status = "Approved"                    -> "approved"

PastGate1(id) == stageOf(id) \in {"gate 2", "approved"}

\* The audit entry of the signature a record past gate 1 stands on.
signature(id) == At(requests[id], IF stageOf(id) = "gate 2" THEN 1 ELSE 2)

authorOf(id)    == IF id \in DOMAIN requests THEN requests[id].ownerId ELSE NoUser
worthOf(id)     == IF id \in DOMAIN requests THEN requests[id].content.amount ELSE 0
signerOf(id)    == IF PastGate1(id) THEN requests[id].approverId ELSE NoUser
authorityOf(id) == IF PastGate1(id) THEN tierLimit(signature(id).tier) ELSE 0
clearerOf(id)   == IF id \in DOMAIN requests THEN requests[id].financeId ELSE NoUser

Gates == INSTANCE TwoGates WITH
  Ids       <- 1..MaxPrf,
  People    <- Users,
  Nobody    <- NoUser,
  Amounts   <- {content.amount : content \in Contents},
  Limits    <- {tierLimit(tier) : tier \in Tiers},
  stage     <- [id \in 1..MaxPrf |-> stageOf(id)],
  author    <- [id \in 1..MaxPrf |-> authorOf(id)],
  worth     <- [id \in 1..MaxPrf |-> worthOf(id)],
  signer    <- [id \in 1..MaxPrf |-> signerOf(id)],
  authority <- [id \in 1..MaxPrf |-> authorityOf(id)],
  clearer   <- [id \in 1..MaxPrf |-> clearerOf(id)]

\* Every behaviour of the store is one TwoGates allows.
ImplementsTwoGates == Gates!Spec

-----------------------------------------------------------------------------
(* Statements of the repository that the store does not keep.              *)

\* README.md: "A request passes two independent reviews".  Nothing compares
\* the reviewer of gate 2 with the approver of gate 1.
IndependentReviews ==
  \A id \in DOMAIN requests :
    requests[id].status = "Approved" => requests[id].financeId # requests[id].approverId

\* store.ts, readDatabase: an approver without a band would have an authority
\* limit of zero, so one is defaulted.  assignRole makes approvers without.
EveryApproverHasABand ==
  \A u \in Users : isApprover(users[u].role) => users[u].tier # NoTier

\* The form prints "Electronically signed" under Supervisor Approval when
\* approverSigned is set; it should say so only of a purchase that carries a
\* supervisor's signature, and a request waiting at gate 1 carries none.
SignedMeansSigned ==
  \A id \in DOMAIN requests :
    requests[id].status = "Pending Supervisor Approval" => ~requests[id].approverSigned
=============================================================================
