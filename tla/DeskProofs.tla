----------------------------- MODULE DeskProofs ------------------------------
(***************************************************************************)
(* Proofs about the reviewer's page: what it shows is a copy, a decision   *)
(* sent from it carries a number and an answer, and the request may have   *)
(* moved on any number of times before the decision arrives.               *)
(***************************************************************************)
EXTENDS Desk, PrfStoreProofs

-----------------------------------------------------------------------------
(* The page acts through the store.                                        *)

\* Whatever happens at the page is a step of the store, or none.
LEMMA DeskStepIsStoreStep == [DNext]_dvars => [Next]_vars
<1>. SUFFICES ASSUME [DNext]_dvars  PROVE [Next]_vars
  OBVIOUS
<1>1. CASE Elsewhere
  <2>1. CASE \/ \E u \in Users : SignIn(u)
             \/ \E actor \in atReview : EndSession(actor) \/ markNotificationsRead(actor)
    BY <2>1 DEF atReview, Next, AccountStep
  <2>2. ASSUME NEW actor \in sessions, buys(actor)
        PROVE  [Next]_vars
    BY <2>2 DEF buys, Next, RequesterStep
  <2>3. ASSUME NEW actor \in atReview, ReviewerStep(actor)
        PROVE  [Next]_vars
    BY <2>3 DEF atReview, Next
  <2>. QED
    BY <1>1, <2>1, <2>2, <2>3 DEF Elsewhere
<1>2. ASSUME NEW call \in calls, arrives(call)
      PROVE  [Next]_vars
  <2>1. CASE listArrives(call)
    BY <2>1 DEF listArrives
  <2>2. CASE readArrives(call)
    BY <1>2, <2>2 DEF arrives, readArrives, Next, AccountStep
  <2>3. CASE decisionArrives(call)
    <3>1. \E id : \/ decideApprove(call.by, id) \/ decideReject(call.by, id)
                  \/ financeApprove(call.by, id) \/ financeReject(call.by, id)
      BY <2>3 DEF decisionArrives
    <3>2. \A id : \/ decideApprove(call.by, id) \/ decideReject(call.by, id)
                  \/ financeApprove(call.by, id) \/ financeReject(call.by, id)
                  => id \in DOMAIN requests
      BY DEF decideApprove, decideReject, financeApprove, financeReject, MayDecide, MayReview, locate
    <3>3. ReviewerStep(call.by)
      BY <3>1, <3>2 DEF ReviewerStep
    <3>. QED
      BY <1>2, <3>3 DEF arrives, Next
  <2>. QED
    BY <1>2, <2>1, <2>2, <2>3 DEF arrives
<1>3. CASE \/ \E actor \in atReview : adopt(actor)
           \/ \E id \in DOMAIN desk.rows : select(id)
           \/ close \/ toggleBell \/ signOut
           \/ \E action \in Decisions : decide(action)
           \/ \E call \in calls : answered(call) \/ fail(call)
  BY <1>3 DEF adopt, select, close, toggleBell, signOut, decide, answered, fail
<1>4. CASE UNCHANGED dvars
  BY <1>4 DEF dvars, vars
<1>. QED
  BY <1>1, <1>2, <1>3, <1>4 DEF DNext

\* The store with a page in front of it is the store: all that is proved of
\* the one holds of the other.
THEOREM DeskImplementsTheStore == DSpec => Spec
BY DeskStepIsStoreStep, PTL DEF DSpec, DInit, Spec

-----------------------------------------------------------------------------
(* How often a record was submitted.                                       *)

\* The submissions in a trail.
Submissions(trail) == {i \in DOMAIN trail : trail[i].action = "Submitted"}

\* The submissions of a trail are finitely many of its places.
LEMMA SubmissionsType ==
  ASSUME NEW trail \in Seq(AuditEntry)
  PROVE  /\ IsFiniteSet(Submissions(trail)) /\ Cardinality(Submissions(trail)) \in Nat
         /\ Submissions(trail) \subseteq 1..Len(trail)
<1>1. Submissions(trail) \subseteq 1..Len(trail) /\ Len(trail) \in Nat
  BY DEF Submissions
<1>2. IsFiniteSet(1..Len(trail))
  BY <1>1, FS_Interval
<1>. QED
  BY <1>1, <1>2, FS_Subset, FS_CardinalityType

\* An entry more is a submission more, or none.
LEMMA OneEntryMore ==
  ASSUME NEW trail \in Seq(AuditEntry), NEW e \in AuditEntry
  PROVE  Cardinality(Submissions(Append(trail, e)))
         = Cardinality(Submissions(trail)) + (IF e.action = "Submitted" THEN 1 ELSE 0)
<1>. DEFINE n == Len(trail)
            longer == Append(trail, e)
<1>1. /\ n \in Nat /\ DOMAIN longer = 1..(n + 1) /\ DOMAIN trail = 1..n
      /\ longer[n + 1] = e /\ \A i \in 1..n : longer[i] = trail[i]
  OBVIOUS
<1>2. /\ IsFiniteSet(Submissions(trail)) /\ Cardinality(Submissions(trail)) \in Nat
      /\ Submissions(trail) \subseteq 1..n
  BY SubmissionsType
<1>3. n + 1 \notin Submissions(trail)
  BY <1>1, <1>2
<1>. HIDE DEF longer
<1>4. CASE e.action = "Submitted"
  <2>1. Submissions(longer) = Submissions(trail) \cup {n + 1}
    BY <1>1, <1>4 DEF Submissions
  <2>. HIDE DEF n
  <2>2. Cardinality(Submissions(trail) \cup {n + 1}) = Cardinality(Submissions(trail)) + 1
    BY <1>2, <1>3, FS_AddElement
  <2>. QED
    BY <1>4, <2>1, <2>2 DEF longer
<1>5. CASE e.action # "Submitted"
  <2>1. Submissions(longer) = Submissions(trail)
    BY <1>1, <1>5 DEF Submissions
  <2>. QED
    BY <1>2, <1>5, <2>1 DEF longer
<1>. QED
  BY <1>4, <1>5

\* Two more entries, of which the second is no submission.
LEMMA TwoEntriesMore ==
  ASSUME NEW trail \in Seq(AuditEntry), NEW d \in AuditEntry, NEW e \in AuditEntry, e.action # "Submitted"
  PROVE  Cardinality(Submissions(trail \o <<d, e>>))
         = Cardinality(Submissions(trail)) + (IF d.action = "Submitted" THEN 1 ELSE 0)
<1>1. /\ Append(trail, d) \in Seq(AuditEntry)
      /\ trail \o <<d, e>> = Append(Append(trail, d), e)
  OBVIOUS
<1>. DEFINE mid == Append(trail, d)
            count(s) == Cardinality(Submissions(s))
<1>2. count(mid) = count(trail) + (IF d.action = "Submitted" THEN 1 ELSE 0)
  BY OneEntryMore
<1>. HIDE DEF mid
<1>3. count(Append(mid, e)) = count(mid) + (IF e.action = "Submitted" THEN 1 ELSE 0)
  BY <1>1, OneEntryMore DEF mid
<1>4. count(mid) \in Nat
  BY <1>1, SubmissionsType DEF mid
<1>5. trail \o <<d, e>> = Append(mid, e)
  BY <1>1 DEF mid
<1>. HIDE DEF count
<1>6. (IF e.action = "Submitted" THEN 1 ELSE 0) = 0
  OBVIOUS
<1>7. count(trail \o <<d, e>>) = count(mid) + 0
  BY <1>3, <1>5, <1>6, Zenon
<1>8. count(trail \o <<d, e>>) = count(mid)
  BY <1>4, <1>7
<1>. QED
  BY <1>2, <1>8, Zenon DEF count

\* The round of a record is the number of its submissions.
LEMMA RoundOf ==
  ASSUME NEW r \in Request
  PROVE  round(r) = Cardinality(Submissions(r.audit)) /\ round(r) \in Nat
BY SubmissionsType DEF round, Submissions, Request

\* What a step does to the round and to the content of a record.
Rounds(r, q) ==
  /\ r.status # "Draft" => q.status # "Draft"
  /\ \/ q.status = "Pending Supervisor Approval" /\ round(q) = round(r) + 1
     \/ q.status \in EDITABLE /\ round(q) = round(r)
     \/ r.status \notin EDITABLE /\ q.content = r.content /\ round(q) = round(r)

\* An operation begins a new round or stays in the one there was.
LEMMA RecordStepRounds ==
  ASSUME NEW r \in Request, NEW actor \in Actor, NEW q \in Request, RecordStep(actor, r, q)
  PROVE  Rounds(r, q)
<1>1. /\ r.audit \in Seq(AuditEntry) /\ round(r) \in Nat
      /\ round(r) = Cardinality(Submissions(r.audit))
      /\ round(q) = Cardinality(Submissions(q.audit))
  BY RoundOf DEF Request
<1>a. r.status # "Draft" => q.status # "Draft"
  BY RecordStepKeeps DEF Furthers
<1>2. ASSUME NEW action \in AuditAction, action # "Submitted", q.audit = Append(r.audit, auditEntry(actor, action))
      PROVE  round(q) = round(r)
  <2>1. auditEntry(actor, action) \in AuditEntry /\ auditEntry(actor, action).action # "Submitted"
    BY <1>2, EntryTypes DEF auditEntry
  <2>. QED
    BY <1>1, <1>2, <2>1, OneEntryMore
<1>3. CASE IsEdit(actor, r, q)
  <2>1. PICK action \in Edits, content \in Contents \cup {r.content}, files \in SUBSET (r.attachments \cup Files) :
          q = [r EXCEPT !.content = content, !.attachments = files,
                        !.audit = Append(@, auditEntry(actor, action))]
    BY <1>3 DEF IsEdit
  <2>2. q.status = r.status /\ q.audit = Append(r.audit, auditEntry(actor, action))
    BY <2>1 DEF Request
  <2>3. q.status \in EDITABLE
    BY <1>3, <2>2 DEF IsEdit
  <2>4. round(q) = round(r)
    BY <1>2, <2>2 DEF Edits, AuditAction
  <2>. QED
    BY <1>a, <2>3, <2>4 DEF Rounds
<1>4. CASE IsSubmission(actor, r, q)
  <2>. DEFINE required == requiredAtSubmission(actor, r.content.amount)
              d == auditEntry(actor, "Submitted")
              e == systemEntry("Routed", required)
  <2>1. r.content.amount \in Nat /\ r.content.amount < Infinity
    BY DEF Request, Content
  <2>2. required \in Tiers
    BY <2>1, RequiredCovers
  <2>3. d \in AuditEntry /\ e \in AuditEntry
    BY <2>2, EntryTypes DEF AuditAction
  <2>4. d.action = "Submitted" /\ e.action # "Submitted"
    BY DEF auditEntry, systemEntry
  <2>5. q.status = "Pending Supervisor Approval" /\ q.audit = r.audit \o <<d, e>>
    BY <1>4 DEF IsSubmission, Submitted, Request
  <2>. HIDE DEF d, e
  <2>6. round(q) = round(r) + 1
    BY <1>1, <2>3, <2>4, <2>5, TwoEntriesMore
  <2>. QED
    BY <1>a, <2>5, <2>6 DEF Rounds
<1>5. CASE IsSignature(actor, r, q)
  <2>. DEFINE d == signatureEntry(actor)
              e == systemEntry("Sent to Finance", NoTier)
  <2>1. e \in AuditEntry
    BY EntryTypes DEF AuditAction
  <2>2. d \in AuditEntry
    BY DEF signatureEntry, AuditEntry, AuditAction, Actor, Tiers
  <2>3. d.action # "Submitted" /\ e.action # "Submitted"
    BY DEF signatureEntry, systemEntry
  <2>4. /\ q.content = r.content /\ q.audit = r.audit \o <<d, e>>
        /\ r.status \notin EDITABLE
    BY <1>5 DEF IsSignature, Signed, Request, EDITABLE
  <2>. HIDE DEF d, e
  <2>5. round(q) = round(r)
    BY <1>1, <2>1, <2>2, <2>3, <2>4, TwoEntriesMore
  <2>. QED
    BY <1>a, <2>4, <2>5 DEF Rounds
<1>6. CASE IsClearance(actor, r, q)
  <2>1. /\ q.content = r.content /\ q.audit = Append(r.audit, auditEntry(actor, "Cleared"))
        /\ r.status \notin EDITABLE
    BY <1>6 DEF IsClearance, Cleared, Request, EDITABLE
  <2>2. round(q) = round(r)
    BY <1>2, <2>1 DEF AuditAction
  <2>. QED
    BY <1>a, <2>1, <2>2 DEF Rounds
<1>7. CASE IsReturn(actor, r, q)
  <2>1. PICK action \in {"Returned", "Returned by Finance"} : q = returnToRequester(r, actor, action)
    BY <1>7 DEF IsReturn
  <2>2. /\ q.status = "Needs Revision" /\ q.audit = Append(r.audit, auditEntry(actor, action))
    BY <2>1 DEF returnToRequester, Request
  <2>3. q.status \in EDITABLE
    BY <2>2 DEF EDITABLE
  <2>4. round(q) = round(r)
    BY <1>2, <2>2 DEF AuditAction
  <2>. QED
    BY <1>a, <2>3, <2>4 DEF Rounds
<1>. QED
  BY <1>3, <1>4, <1>5, <1>6, <1>7 DEF RecordStep

-----------------------------------------------------------------------------
(* What the page shows was true once, and what has become of it since.     *)

\* A row that shows a request under review, or approved, is about a request
\* that was submitted; since then it was submitted again, or sent back, or
\* its content is what the row shows.
Shows(records, id, row) ==
  row.status \notin EDITABLE =>
    /\ id \in DOMAIN records /\ records[id].status # "Draft"
    /\ row.round \in Nat /\ row.round <= round(records[id])
    /\ \/ row.round < round(records[id])
       \/ records[id].status \in EDITABLE
       \/ row.content = records[id].content

DeskShows(records, page) ==
  /\ page = [who |-> page.who, rows |-> page.rows, bell |-> page.bell, selected |-> page.selected]
  /\ \A id \in DOMAIN page.rows : Shows(records, id, page.rows[id])
  /\ page.selected # Nothing => Shows(records, page.selected.id, page.selected.row)

\* A decision is about a request that was waiting for its sender, and an
\* answer brings rows as true as any.
CallShows(records, call) ==
  /\ call.kind \in Decisions \cup {"list", "bell", "read"}
  /\ call.stage = "sent" /\ call.kind \in Decisions =>
       /\ call.about.row.status = actionable(call.by.role)
       /\ Shows(records, call.about.id, call.about.row)
  /\ call.stage = "answered" /\ call.kind = "list" =>
       \A id \in DOMAIN call.reply : Shows(records, id, call.reply[id])
  /\ call.stage = "answered" /\ call.kind \in Decisions =>
       Shows(records, call.reply.id, call.reply.row)

DeskInv ==
  /\ StoreInv /\ DeskShows(requests, desk)
  /\ \A call \in calls : CallShows(requests, call)

\* What is shown stays as true as it was, whatever the store does.
StaysTrue == \A id, row : Shows(requests, id, row) => Shows(requests', id, row)

\* What a page shows of a request stays true of its past.
LEMMA StoreKeepsShown ==
  ASSUME StoreInv, [Next]_vars
  PROVE  StaysTrue
<1>1. StepOf(Actor)
  BY NextIsStep DEF StepOf
<1>2. PermanentStep /\ RequestsStep(Actor) /\ StoreInv'
  BY <1>1, StepsKeep, StepShape, StepGood
<1>3. ASSUME NEW id, NEW row, Shows(requests, id, row), row.status \notin EDITABLE
      PROVE  /\ id \in DOMAIN requests' /\ requests'[id].status # "Draft"
             /\ row.round \in Nat /\ row.round <= round(requests'[id])
             /\ \/ row.round < round(requests'[id])
                \/ requests'[id].status \in EDITABLE
                \/ row.content = requests'[id].content
  <2>. DEFINE r == requests[id]
              q == requests'[id]
  <2>1. /\ id \in DOMAIN requests /\ r.status # "Draft" /\ row.round \in Nat /\ row.round <= round(r)
        /\ row.round < round(r) \/ r.status \in EDITABLE \/ row.content = r.content
    BY <1>3 DEF Shows
  <2>2. id \in DOMAIN requests' /\ q.status # "Draft"
    BY <1>2, <2>1 DEF PermanentStep
  <2>3. r \in Request /\ q \in Request
    BY <1>2, <2>1, <2>2 DEF StoreInv, RecordsGood
  <2>4. q = r \/ Rounds(r, q)
    BY <1>2, <2>1, <2>2, <2>3, OneRecord, RecordStepRounds
  <2>5. round(r) \in Nat /\ round(q) \in Nat
    BY <2>3, RoundOf
  <2>. HIDE DEF r, q
  <2>6. /\ row.round <= round(q)
        /\ row.round < round(q) \/ q.status \in EDITABLE \/ row.content = q.content
    <3>1. CASE round(q) = round(r) + 1
      BY <2>1, <2>5, <3>1
    <3>2. CASE q.status \in EDITABLE /\ round(q) = round(r)
      BY <2>1, <3>2, Zenon
    <3>3. CASE r.status \notin EDITABLE /\ q.content = r.content /\ round(q) = round(r)
      BY <2>1, <3>3, Zenon
    <3>4. CASE q = r
      BY <2>1, <3>4, Zenon
    <3>. QED
      BY <2>4, <3>1, <3>2, <3>3, <3>4, Zenon DEF Rounds
  <2>. QED
    BY <2>1, <2>2, <2>6 DEF q
<1>. QED
  BY <1>3 DEF StaysTrue, Shows

\* What the server lists, or answers a decision with, is true.
LEMMA ViewIsTrue ==
  ASSUME NEW records, NEW id \in DOMAIN records, records[id] \in Request
  PROVE  Shows(records, id, toViewRequest(records[id]))
<1>. DEFINE r == records[id]
            row == toViewRequest(r)
<1>1. round(r) \in Nat /\ round(r) <= round(r)
  BY RoundOf
<1>2. row.status = r.status /\ row.content = r.content /\ row.round = round(r)
  BY DEF toViewRequest
<1>3. r.status \notin EDITABLE => r.status # "Draft"
  BY DEF EDITABLE
<1>. HIDE DEF row
<1>4. Shows(records, id, row)
  BY <1>1, <1>2, <1>3, Zenon DEF Shows
<1>. QED
  BY <1>4 DEF row

\* What the list answers is true when it is answered.
LEMMA ListedIsTrue ==
  ASSUME StoreInv, NEW id \in DOMAIN requests
  PROVE  Shows(requests, id, toViewRequest(requests[id]))
BY ViewIsTrue DEF StoreInv, RecordsGood

\* The records of a step apply to what is on the page already.
LEMMA PageStaysTrue ==
  ASSUME DeskInv, StaysTrue
  PROVE  DeskShows(requests', desk) /\ \A call \in calls : CallShows(requests', call)
BY DEF DeskInv, StaysTrue, DeskShows, CallShows

\* A page on which only one thing changed.
LEMMA PageParts ==
  ASSUME NEW page, page = [who |-> page.who, rows |-> page.rows, bell |-> page.bell,
                           selected |-> page.selected], NEW x
  PROVE  /\ [page EXCEPT !.rows = x] =
              [who |-> page.who, rows |-> x, bell |-> page.bell, selected |-> page.selected]
         /\ [page EXCEPT !.bell = x] =
              [who |-> page.who, rows |-> page.rows, bell |-> x, selected |-> page.selected]
         /\ [page EXCEPT !.selected = x] =
              [who |-> page.who, rows |-> page.rows, bell |-> page.bell, selected |-> x]
OBVIOUS

-----------------------------------------------------------------------------
(* Every step keeps what is shown true.                                    *)

\* An empty page shows nothing.
LEMMA ClosedShows == \A records, x : DeskShows(records, Closed) /\ DeskShows(records, [Closed EXCEPT !.who = x])
BY DEF DeskShows, Closed

\* A call that is no decision yet, and no answer yet, says nothing.
LEMMA AskingSaysNothing ==
  ASSUME NEW kind \in {"list", "bell", "read"}, NEW slot, NEW by, NEW about
  PROVE  \A records : CallShows(records, Call(kind, slot, by, about))
BY DEF Call, CallShows, Decisions

\* The page sends, opens, closes or marks something.
LEMMA UseKeepsDesk ==
  ASSUME DeskInv, StoreInv', requests' = requests,
         \/ \E actor \in atReview : adopt(actor)
         \/ \E id \in DOMAIN desk.rows : select(id)
         \/ close \/ toggleBell \/ signOut
         \/ \E action \in Decisions : decide(action)
  PROVE  DeskInv'
<1>. SUFFICES DeskShows(requests, desk') /\ \A call \in calls' : CallShows(requests, call)
  BY DEF DeskInv
<1>. DEFINE page(who, rows, bell, selected) ==
              [who |-> who, rows |-> rows, bell |-> bell, selected |-> selected]
<1>1. /\ desk = page(desk.who, desk.rows, desk.bell, desk.selected)
      /\ \A id \in DOMAIN desk.rows : Shows(requests, id, desk.rows[id])
      /\ desk.selected # Nothing => Shows(requests, desk.selected.id, desk.selected.row)
      /\ \A call \in calls : CallShows(requests, call)
  BY DEF DeskInv, DeskShows
<1>2. ASSUME NEW actor \in atReview, adopt(actor)
      PROVE  DeskShows(requests, desk') /\ \A call \in calls' : CallShows(requests, call)
  <2>1. DeskShows(requests, desk')
    BY <1>2, ClosedShows DEF adopt
  <2>2. \A call \in calls' : call \in calls \/ \E slot : call = Call("list", slot, actor, Nothing)
    BY <1>2 DEF adopt, send
  <2>3. "list" \in {"list", "bell", "read"}
    OBVIOUS
  <2>. QED
    BY <1>1, <2>1, <2>2, <2>3, AskingSaysNothing
<1>3. ASSUME NEW id \in DOMAIN desk.rows, select(id)
      PROVE  DeskShows(requests, desk') /\ \A call \in calls' : CallShows(requests, call)
  <2>. DEFINE it == [id |-> id, row |-> desk.rows[id]]
  <2>1. desk' = page(desk.who, desk.rows, desk.bell, it) /\ calls' = calls
    BY <1>1, <1>3, PageParts DEF select
  <2>2. Shows(requests, it.id, it.row)
    BY <1>1
  <2>. HIDE DEF it
  <2>. QED
    BY <1>1, <2>1, <2>2 DEF DeskShows
<1>4. CASE close
  <2>1. desk' = page(desk.who, desk.rows, desk.bell, Nothing) /\ calls' = calls
    BY <1>1, <1>4, PageParts DEF close
  <2>. QED
    BY <1>1, <2>1 DEF DeskShows
<1>5. CASE toggleBell
  <2>1. PICK bell : desk' = page(desk.who, desk.rows, bell, desk.selected)
    BY <1>1, <1>5, PageParts DEF toggleBell
  <2>2. \A call \in calls' : call \in calls \/ \E slot : call = Call("read", slot, desk.who, Nothing)
    BY <1>5 DEF toggleBell, send
  <2>3. "read" \in {"list", "bell", "read"}
    OBVIOUS
  <2>4. \A call \in calls' : CallShows(requests, call)
    BY <1>1, <2>2, <2>3, AskingSaysNothing
  <2>. QED
    BY <1>1, <2>1, <2>4 DEF DeskShows
<1>6. CASE signOut
  BY <1>1, <1>6, ClosedShows DEF signOut
<1>7. ASSUME NEW action \in Decisions, decide(action)
      PROVE  DeskShows(requests, desk') /\ \A call \in calls' : CallShows(requests, call)
  <2>1. desk' = desk
    BY <1>7 DEF decide
  <2>2. \A call \in calls' : call \in calls \/ \E slot : call = Call(action, slot, desk.who, desk.selected)
    BY <1>7 DEF decide, send
  <2>3. /\ desk.selected.row.status = actionable(desk.who.role)
        /\ Shows(requests, desk.selected.id, desk.selected.row)
    BY <1>1, <1>7 DEF decide, reviewing
  <2>4. ASSUME NEW slot
        PROVE  CallShows(requests, Call(action, slot, desk.who, desk.selected))
    BY <2>3 DEF Call, CallShows
  <2>. QED
    BY <1>1, <2>1, <2>2, <2>4 DEF DeskInv
<1>. QED
  BY <1>2, <1>3, <1>4, <1>5, <1>6, <1>7

\* A decision changes the record it is about.
LEMMA DecisionStays ==
  ASSUME StoreInv, NEW actor, NEW id,
         \/ decideApprove(actor, id) \/ decideReject(actor, id)
         \/ financeApprove(actor, id) \/ financeReject(actor, id)
  PROVE  id \in DOMAIN requests /\ id \in DOMAIN requests'
<1>1. id \in DOMAIN requests
  BY DEF decideApprove, decideReject, financeApprove, financeReject, MayDecide, MayReview, locate
<1>2. \E q : Put(id, q)
  BY DEF decideApprove, decideReject, financeApprove, financeReject
<1>. QED
  BY <1>1, <1>2, PutChanges

\* The server answers a call with what it holds after serving it.
LEMMA ServingKeepsDesk ==
  ASSUME DeskInv, StoreInv', StaysTrue, NEW call \in calls, arrives(call)
  PROVE  DeskInv'
<1>1. DeskShows(requests', desk) /\ (\A c \in calls : CallShows(requests', c)) /\ desk' = desk
  BY PageStaysTrue DEF arrives
<1>. SUFFICES ASSUME NEW c \in calls', c \notin calls  PROVE CallShows(requests', c)
  BY <1>1 DEF DeskInv
<1>2. CASE decisionArrives(call)
  <2>. DEFINE id == call.about.id
              reply == [id |-> id, row |-> toViewRequest(requests'[id])]
  <2>1. \/ decideApprove(call.by, id) \/ decideReject(call.by, id)
        \/ financeApprove(call.by, id) \/ financeReject(call.by, id)
    BY <1>2 DEF decisionArrives
  <2>2. id \in DOMAIN requests'
    BY <2>1, DecisionStays DEF DeskInv
  <2>3. Shows(requests', id, toViewRequest(requests'[id]))
    <3>1. requests'[id] \in Request
      BY <2>2 DEF StoreInv, RecordsGood
    <3>. HIDE DEF id
    <3>. QED
      BY <2>2, <3>1, ViewIsTrue
  <2>4. c = [kind |-> call.kind, slot |-> call.slot, stage |-> "answered", reply |-> reply]
    BY <1>2 DEF decisionArrives, Leave, Answer
  <2>5. call.kind \in Decisions
    BY <1>2 DEF decisionArrives, Decisions
  <2>6. reply.id = id /\ reply.row = toViewRequest(requests'[id])
    OBVIOUS
  <2>. HIDE DEF reply, id
  <2>. QED
    BY <2>3, <2>4, <2>5, <2>6 DEF CallShows, Decisions
<1>3. CASE readArrives(call)
  BY <1>3 DEF readArrives, Leave, Answer, CallShows, Decisions
<1>4. CASE listArrives(call)
  <2>1. CASE call.kind = "list"
    <3>. DEFINE reply == listRequests(call.by)
    <3>1. c = [kind |-> "list", slot |-> call.slot, stage |-> "answered", reply |-> reply]
      BY <1>4, <2>1 DEF listArrives, Leave, Answer
    <3>2. \A i \in DOMAIN reply : i \in DOMAIN requests /\ reply[i] = toViewRequest(requests[i])
      BY DEF listRequests
    <3>3. \A i \in DOMAIN reply : Shows(requests, i, reply[i])
      BY <3>2, ListedIsTrue DEF DeskInv
    <3>4. \A i \in DOMAIN reply : Shows(requests', i, reply[i])
      BY <3>3 DEF StaysTrue
    <3>. HIDE DEF reply
    <3>. QED
      BY <3>1, <3>4 DEF CallShows, Decisions
  <2>2. CASE call.kind = "bell"
    BY <1>4, <2>2 DEF listArrives, Leave, Answer, CallShows, Decisions
  <2>. QED
    BY <1>4, <2>1, <2>2 DEF listArrives
<1>. QED
  BY <1>2, <1>3, <1>4 DEF arrives

\* What each kind of answer does to the page.
LEMMA ShownIs ==
  ASSUME NEW call
  PROVE  /\ call.kind = "list" => shown(call) = [desk EXCEPT !.rows = call.reply]
         /\ call.kind = "bell" => shown(call) = [desk EXCEPT !.bell = call.reply]
         /\ call.kind = "read" => shown(call) = desk
         /\ call.kind \in Decisions => shown(call) = decided(call.reply)
BY DEF shown, Decisions

\* The page takes up an answer, or learns that there is none.
LEMMA AnswersKeepDesk ==
  ASSUME DeskInv, StoreInv', requests' = requests, NEW call \in calls, answered(call) \/ fail(call)
  PROVE  DeskInv'
<1>. DEFINE page(who, rows, bell, selected) ==
              [who |-> who, rows |-> rows, bell |-> bell, selected |-> selected]
<1>1. /\ desk = page(desk.who, desk.rows, desk.bell, desk.selected)
      /\ \A id \in DOMAIN desk.rows : Shows(requests, id, desk.rows[id])
      /\ desk.selected # Nothing => Shows(requests, desk.selected.id, desk.selected.row)
      /\ \A c \in calls : CallShows(requests, c)
  BY DEF DeskInv, DeskShows
<1>2. \A c \in calls' : CallShows(requests, c)
  <2>1. calls' \subseteq calls \cup {Call("bell", call.slot, desk.who, Nothing)}
    BY DEF answered, fail, guard, endLocalSession, Leave, next
  <2>2. "bell" \in {"list", "bell", "read"}
    OBVIOUS
  <2>. QED
    BY <1>1, <2>1, <2>2, AskingSaysNothing
<1>3. DeskShows(requests, desk')
  <2>1. CASE desk' = desk \/ desk' = Closed
    BY <2>1, ClosedShows DEF DeskInv
  <2>2. CASE answered(call) /\ desk' = shown(call)
    <3>1. CASE call.kind = "list"
      <4>1. \A id \in DOMAIN call.reply : Shows(requests, id, call.reply[id])
        BY <1>1, <2>2, <3>1 DEF answered, CallShows
      <4>2. desk' = page(desk.who, call.reply, desk.bell, desk.selected)
        BY <1>1, <2>2, <3>1, PageParts, ShownIs
      <4>. QED
        BY <1>1, <4>1, <4>2 DEF DeskShows
    <3>2. CASE call.kind = "bell"
      <4>1. desk' = page(desk.who, desk.rows, call.reply, desk.selected)
        BY <1>1, <2>2, <3>2, PageParts, ShownIs
      <4>. QED
        BY <1>1, <4>1 DEF DeskShows
    <3>3. CASE call.kind = "read"
      BY <2>1, <2>2, <3>3, ShownIs
    <3>4. CASE call.kind \in Decisions
      <4>. DEFINE rows == [id \in DOMAIN desk.rows |-> IF id = call.reply.id THEN call.reply.row
                                                       ELSE desk.rows[id]]
      <4>1. Shows(requests, call.reply.id, call.reply.row)
        BY <1>1, <2>2, <3>4 DEF answered, CallShows
      <4>2. desk' = [desk EXCEPT !.selected = Nothing, !.rows = rows]
        BY <2>2, <3>4, ShownIs DEF decided
      <4>3. \A id \in DOMAIN rows : Shows(requests, id, rows[id])
        BY <1>1, <4>1
      <4>. HIDE DEF rows
      <4>4. desk' = page(desk.who, rows, desk.bell, Nothing)
        BY <1>1, <4>2
      <4>. QED
        BY <4>3, <4>4 DEF DeskShows
    <3>. QED
      BY <2>2, <3>1, <3>2, <3>3, <3>4, <1>1 DEF CallShows
  <2>. QED
    BY <2>1, <2>2 DEF answered, fail, guard, endLocalSession
<1>. QED
  BY <1>2, <1>3 DEF DeskInv

\* The invariant holds to begin with,
LEMMA DeskInitGood == DInit => DeskInv
<1>. SUFFICES ASSUME DInit  PROVE DeskInv
  OBVIOUS
<1>1. StoreInv
  BY InitGood DEF DInit
<1>. QED
  BY <1>1, ClosedShows DEF DInit, DeskInv

\* and every step keeps it.
LEMMA DeskNextGood == DeskInv /\ [DNext]_dvars => DeskInv'
<1>. SUFFICES ASSUME DeskInv, [DNext]_dvars  PROVE DeskInv'
  OBVIOUS
<1>1. StoreInv' /\ StaysTrue
  BY DeskStepIsStoreStep, NextGood, StoreKeepsShown DEF DeskInv
<1>2. CASE Elsewhere \/ UNCHANGED dvars
  BY <1>1, <1>2, PageStaysTrue DEF Elsewhere, dvars, DeskInv
<1>3. CASE \/ \E actor \in atReview : adopt(actor)
           \/ \E id \in DOMAIN desk.rows : select(id)
           \/ close \/ toggleBell \/ signOut
           \/ \E action \in Decisions : decide(action)
  <2>1. requests' = requests
    BY <1>3 DEF adopt, select, close, toggleBell, signOut, decide, vars
  <2>. QED
    BY <1>1, <1>3, <2>1, UseKeepsDesk
<1>4. ASSUME NEW call \in calls, arrives(call)  PROVE DeskInv'
  BY <1>1, <1>4, ServingKeepsDesk
<1>5. ASSUME NEW call \in calls, answered(call) \/ fail(call)  PROVE DeskInv'
  <2>1. requests' = requests
    BY <1>5 DEF answered, fail, vars
  <2>. QED
    BY <1>1, <1>5, <2>1, AnswersKeepDesk
<1>. QED
  BY <1>2, <1>3, <1>4, <1>5 DEF DNext

\* Everything on the page was true when it was fetched, and is out of date
\* only in the ways Shows allows.
THEOREM DeskInvAlways == DSpec => []DeskInv
BY DeskInitGood, DeskNextGood, PTL DEF DSpec

-----------------------------------------------------------------------------
(* What a decision decides.                                                *)

\* A decision takes effect when the server serves it.
LEMMA DecidingCall ==
  ASSUME [DNext]_dvars, NEW call \in calls, Decides(call)
  PROVE  decisionArrives(call)
<1>1. calls' # calls /\ requests' # requests
  BY DEF Decides
<1>2. PICK c \in calls : arrives(c)
  BY <1>1 DEF DNext, dvars, Elsewhere, adopt, select, close, toggleBell, signOut, decide, answered, fail, vars
<1>3. calls \ {c} \subseteq calls'
  BY <1>2 DEF arrives, decisionArrives, readArrives, listArrives, Leave
<1>4. c = call
  BY <1>3 DEF Decides
<1>. QED
  BY <1>2, <1>4 DEF arrives, readArrives, listArrives, Decides, Decisions

\* The request that is decided waits at the gate of the person who decides.
LEMMA DecidedHere ==
  ASSUME DeskInv, NEW call \in calls, call.stage = "sent", call.kind \in Decisions, decisionArrives(call)
  PROVE  /\ call.about.id \in DOMAIN requests
         /\ requests[call.about.id].status = actionable(call.by.role)
<1>. DEFINE id == call.about.id
            r == requests[id]
            by == call.by
<1>1. /\ StoreInv
      /\ \/ isFinance(by.role) /\ (financeApprove(by, id) \/ financeReject(by, id))
         \/ ~isFinance(by.role) /\ (decideApprove(by, id) \/ decideReject(by, id))
  BY DEF decisionArrives, DeskInv
<1>2. id \in DOMAIN requests
  BY <1>1, DecisionStays
<1>3. r.status \in Status
  BY <1>1, <1>2 DEF StoreInv, RecordsGood, Request
<1>4. CASE isFinance(by.role) /\ (financeApprove(by, id) \/ financeReject(by, id))
  <2>1. /\ r.status # "Pending Supervisor Approval"
        /\ "Approved" \in TRANSITIONS[r.status] \/ "Needs Revision" \in TRANSITIONS[r.status]
    BY <1>4 DEF financeApprove, financeReject, MayReview, assertTransition
  <2>2. r.status = "Pending Finance Review"
    BY <1>3, <2>1 DEF TRANSITIONS, Status
  <2>. QED
    BY <1>2, <1>4, <2>2 DEF actionable
<1>5. CASE ~isFinance(by.role) /\ (decideApprove(by, id) \/ decideReject(by, id))
  <2>1. /\ r.status # "Pending Finance Review"
        /\ "Pending Finance Review" \in TRANSITIONS[r.status] \/ "Needs Revision" \in TRANSITIONS[r.status]
    BY <1>5 DEF decideApprove, decideReject, MayDecide, assertTransition
  <2>2. r.status = "Pending Supervisor Approval"
    BY <1>3, <2>1 DEF TRANSITIONS, Status
  <2>. QED
    BY <1>2, <1>5, <2>2 DEF actionable
<1>. QED
  BY <1>1, <1>4, <1>5

GateStep ==
  \A call \in calls : Decides(call) => requests[call.about.id].status = call.about.row.status

SignedStep ==
  \A call \in calls : Decides(call) /\ call.kind = "approve" =>
    LET signed == requests[call.about.id]
    IN  signed.content = call.about.row.content \/ round(signed) > call.about.row.round

\* A decision takes effect at the gate its screen was about, and signs what
\* waits there.
LEMMA DecisionsAreAsSent == DeskInv /\ [DNext]_dvars => GateStep /\ SignedStep
<1>. SUFFICES ASSUME DeskInv, [DNext]_dvars, NEW call \in calls, Decides(call)
              PROVE  LET r == requests[call.about.id]
                         row == call.about.row
                     IN  /\ r.status = row.status
                         /\ r.content = row.content \/ round(r) > row.round
  BY DEF GateStep, SignedStep
<1>. DEFINE id == call.about.id
            r == requests[id]
            row == call.about.row
<1>1. call.stage = "sent" /\ call.kind \in Decisions /\ decisionArrives(call)
  BY DecidingCall DEF Decides
<1>2. row.status = actionable(call.by.role) /\ Shows(requests, id, row)
  BY <1>1 DEF DeskInv, CallShows
<1>3. id \in DOMAIN requests /\ r.status = actionable(call.by.role)
  BY <1>1, DecidedHere
<1>4. actionable(call.by.role) \notin EDITABLE
  BY DEF actionable, EDITABLE
<1>5. row.round \in Nat /\ (row.round < round(r) \/ row.content = r.content)
  BY <1>2, <1>3, <1>4, Zenon DEF Shows
<1>6. round(r) \in Nat
  BY <1>3, RoundOf DEF DeskInv, StoreInv, RecordsGood
<1>. HIDE DEF r, row
<1>7. row.round < round(r) => round(r) > row.round
  BY <1>5, <1>6
<1>8. r.status = row.status /\ (r.content = row.content \/ round(r) > row.round)
  BY <1>2, <1>3, <1>5, <1>7, Zenon
<1>. QED
  BY <1>8 DEF r, row

\* However often the buttons are pressed and however late a decision arrives,
\* it takes effect only at the gate its screen was about.
THEOREM DecidedWhereShown == DSpec => DecidedAtItsGate
<1>1. DeskInv /\ [DNext]_dvars => [GateStep]_dvars
  BY DecisionsAreAsSent
<1>. QED
  BY <1>1, DeskInvAlways, PTL DEF DSpec, DecidedAtItsGate, GateStep

\* What an approval signs is what its screen showed, unless the request was
\* submitted again since.
THEOREM SignedAsItWaits == DSpec => SignsWhatWaits
<1>1. DeskInv /\ [DNext]_dvars => [SignedStep]_dvars
  BY DecisionsAreAsSent
<1>. QED
  BY <1>1, DeskInvAlways, PTL DEF DSpec, SignsWhatWaits, SignedStep

-----------------------------------------------------------------------------
(* A page that nobody else disturbs.                                       *)

\* What marking a list as read makes of it.
AllRead(bell) == [i \in DOMAIN bell |-> [bell[i] EXCEPT !.read = TRUE]]

\* What the rows become when the answer to a decision is taken up.
WithRow(rows, reply) == [id \in DOMAIN rows |-> IF id = reply.id THEN reply.row ELSE rows[id]]

\* What the page has, and what the call under way will bring, are together
\* what the server would list now.
Brings(call) ==
  /\ call.stage = "sent" => call.by = desk.who
  /\ call.kind \in {"bell", "read"} \/ (call.kind \in Decisions /\ call.stage = "sent")
       => desk.rows = listRequests(desk.who)
  /\ call.kind = "list" /\ call.stage = "answered" => call.reply = listRequests(desk.who)
  /\ call.kind \in Decisions /\ call.stage = "answered"
       => WithRow(desk.rows, call.reply) = listRequests(desk.who)
  /\ call.kind = "bell" /\ call.stage = "answered" => call.reply = listNotifications(desk.who)
  /\ call.kind = "read" /\ call.stage = "sent" => desk.bell = AllRead(listNotifications(desk.who))
  /\ call.kind = "read" /\ call.stage = "answered" => desk.bell = listNotifications(desk.who)

OneCall == \A c, d \in calls : c = d

PageFits ==
  /\ \A call \in calls : Brings(call)
  /\ calls = {} => desk.rows = listRequests(desk.who) /\ desk.bell = listNotifications(desk.who)

CurrentInv == quiet => OneCall /\ (desk.who # Nobody => PageFits)

\* What is listed depends on the store alone.
LEMMA SameLists ==
  ASSUME requests' = requests, notifications' = notifications
  PROVE  \A who : /\ listRequests(who)' = listRequests(who)
                  /\ listNotifications(who)' = listNotifications(who)
BY DEF listRequests, listNotifications, addressedTo

\* Marking somebody's notices as read, here and on the server, comes to the
\* same.
LEMMA MarkedEverywhere ==
  ASSUME StoreInv, NEW actor, markNotificationsRead(actor)
  PROVE  listNotifications(actor)' = AllRead(listNotifications(actor)) /\ requests' = requests
<1>. DEFINE mine == addressedTo(actor)
            newest == {i \in mine : Cardinality({j \in mine : j > i}) < BellSize}
<1>1. /\ DOMAIN notifications = 1..Len(notifications)
      /\ \A i \in DOMAIN notifications : notifications[i] \in Notice
  BY DEF StoreInv
<1>2. /\ DOMAIN notifications' = DOMAIN notifications
      /\ \A i \in DOMAIN notifications :
           notifications'[i] = IF notifications[i].to = actor.userId
                               THEN [notifications[i] EXCEPT !.read = TRUE] ELSE notifications[i]
  BY <1>1 DEF markNotificationsRead
<1>3. \A i \in DOMAIN notifications : notifications'[i].to = notifications[i].to
  BY <1>1, <1>2 DEF Notice
<1>4. mine' = mine /\ newest \subseteq mine
  BY <1>2, <1>3 DEF addressedTo
<1>5. \A i \in mine : notifications'[i] = [notifications[i] EXCEPT !.read = TRUE]
  BY <1>2 DEF addressedTo
<1>6. listNotifications(actor) = [i \in newest |-> notifications[i]]
  BY DEF listNotifications
<1>. HIDE DEF mine
<1>7. newest' = newest
  BY <1>4
<1>8. listNotifications(actor)' = [i \in newest' |-> notifications'[i]]
  BY DEF listNotifications, mine
<1>. HIDE DEF newest
<1>9. AllRead(listNotifications(actor)) = [i \in newest |-> [notifications[i] EXCEPT !.read = TRUE]]
  BY <1>6 DEF AllRead
<1>10. \A i \in newest : notifications'[i] = [notifications[i] EXCEPT !.read = TRUE]
  BY <1>4, <1>5
<1>11. listNotifications(actor)' = [i \in newest |-> [notifications[i] EXCEPT !.read = TRUE]]
  BY <1>7, <1>8, <1>10
<1>. QED
  BY <1>9, <1>11 DEF markNotificationsRead

\* Whoever decides about a request still sees it, and the decision changes
\* no other row.
LEMMA DecidedRow ==
  ASSUME StoreInv, NEW actor, NEW id,
         \/ decideApprove(actor, id) \/ decideReject(actor, id)
         \/ financeApprove(actor, id) \/ financeReject(actor, id)
  PROVE  listRequests(actor)'
         = WithRow(listRequests(actor), [id |-> id, row |-> toViewRequest(requests'[id])])
<1>1. id \in DOMAIN requests /\ visibleTo(actor, requests[id])
  BY DEF decideApprove, decideReject, financeApprove, financeReject, MayDecide, MayReview, locate
<1>. DEFINE r == requests[id]
            q == requests'[id]
<1>2. r \in Request
  BY <1>1 DEF StoreInv, RecordsGood
<1>3. /\ DOMAIN requests' = DOMAIN requests
      /\ \A other \in DOMAIN requests : other # id => requests'[other] = requests[other]
  BY <1>1, PutChanges DEF decideApprove, decideReject, financeApprove, financeReject
<1>4. visibleTo(actor, q)
  <2>1. CASE decideApprove(actor, id)
    <3>1. q = Signed(r, actor) /\ isApprover(actor.role)
      BY <1>1, <2>1, PutChanges DEF decideApprove, MayDecide
    <3>2. q.status = "Pending Finance Review" /\ q.approverId = actor.userId
      BY <1>2, <3>1 DEF Signed, Request
    <3>. QED
      BY <3>1, <3>2 DEF visibleTo
  <2>2. CASE financeApprove(actor, id)
    <3>1. q = Cleared(r, actor) /\ isFinance(actor.role)
      BY <1>1, <2>2, PutChanges DEF financeApprove, MayReview
    <3>2. q.status = "Approved"
      BY <1>2, <3>1 DEF Cleared, Request
    <3>. QED
      BY <3>1, <3>2 DEF visibleTo, isFinance, isAdmin
  <2>3. CASE decideReject(actor, id) \/ financeReject(actor, id)
    <3>1. PICK action : q = returnToRequester(r, actor, action)
      BY <1>1, <2>3, PutChanges DEF decideReject, financeReject
    <3>2. q.status = "Needs Revision" /\ q.returnedBy = actor.userId
      BY <1>2, <3>1 DEF returnToRequester, Request
    <3>3. isApprover(actor.role) \/ isFinance(actor.role)
      BY <2>3 DEF decideReject, financeReject, MayDecide, MayReview
    <3>. QED
      BY <3>2, <3>3 DEF visibleTo, isFinance, isAdmin
  <2>. QED
    BY <2>1, <2>2, <2>3
<1>. DEFINE seen == {i \in DOMAIN requests : visibleTo(actor, requests[i])}
            seenNext == {i \in DOMAIN requests' : visibleTo(actor, requests'[i])}
<1>5. seenNext = seen
  <2>1. \A i \in DOMAIN requests : visibleTo(actor, requests'[i]) <=> visibleTo(actor, requests[i])
    <3>. SUFFICES ASSUME NEW i \in DOMAIN requests
                  PROVE  visibleTo(actor, requests'[i]) <=> visibleTo(actor, requests[i])
      OBVIOUS
    <3>1. CASE i = id
      BY <1>1, <1>4, <3>1
    <3>2. CASE i # id
      BY <1>3, <3>2
    <3>. QED
      BY <3>1, <3>2
  <2>. QED
    BY <1>3, <2>1
<1>6. /\ listRequests(actor) = [i \in seen |-> toViewRequest(requests[i])]
      /\ listRequests(actor)' = [i \in seenNext |-> toViewRequest(requests'[i])]
  BY DEF listRequests, toViewRequest
<1>7. \A i \in seen : i # id => toViewRequest(requests'[i]) = toViewRequest(requests[i])
  BY <1>3
<1>. HIDE DEF seen, seenNext
<1>. QED
  BY <1>5, <1>6, <1>7 DEF WithRow

\* A call is on its way, on behalf of somebody.
LEMMA OnItsWay ==
  ASSUME NEW kind, NEW slot, NEW actor, NEW about
  PROVE  LET c == Call(kind, slot, actor, about)
         IN  c.kind = kind /\ c.stage = "sent" /\ c.by = actor
BY DEF Call

\* The page is used.
LEMMA UseKeepsCurrent ==
  ASSUME DeskInv, CurrentInv,
         \/ \E actor \in atReview : adopt(actor)
         \/ \E id \in DOMAIN desk.rows : select(id)
         \/ close \/ toggleBell \/ signOut
         \/ \E action \in Decisions : decide(action)
  PROVE  CurrentInv'
<1>. SUFFICES ASSUME quiet'  PROVE (OneCall /\ (desk.who # Nobody => PageFits))'
  BY DEF CurrentInv
<1>1. desk = [who |-> desk.who, rows |-> desk.rows, bell |-> desk.bell, selected |-> desk.selected]
  BY DEF DeskInv, DeskShows
<1>2. \A who : /\ listRequests(who)' = listRequests(who)
               /\ listNotifications(who)' = listNotifications(who)
  BY SameLists DEF adopt, select, close, toggleBell, signOut, decide, vars
<1>3. ASSUME NEW actor, adopt(actor)
      PROVE  (OneCall /\ (desk.who # Nobody => PageFits))'
  <2>1. desk'.who = actor
    BY <1>3 DEF adopt, Closed
  <2>2. PICK slot : calls' = {Call("list", slot, actor, Nothing)}
    BY <1>3 DEF adopt, send
  <2>3. PICK c : c = Call("list", slot, actor, Nothing)
    OBVIOUS
  <2>4. calls' = {c} /\ c.kind = "list" /\ c.stage = "sent" /\ c.by = actor
    BY <2>2, <2>3, OnItsWay
  <2>. QED
    BY <2>1, <2>4 DEF OneCall, PageFits, Brings, Decisions
<1>4. CASE (\E id \in DOMAIN desk.rows : select(id)) \/ close
  <2>1. /\ calls' = calls /\ quiet
        /\ desk'.who = desk.who /\ desk'.rows = desk.rows /\ desk'.bell = desk.bell
    BY <1>1, <1>4 DEF select, close
  <2>. QED
    BY <1>2, <2>1 DEF CurrentInv, OneCall, PageFits, Brings
<1>5. CASE signOut
  <2>1. calls' = calls /\ quiet /\ desk'.who = Nobody
    BY <1>5 DEF signOut, Closed
  <2>. QED
    BY <2>1 DEF CurrentInv, OneCall
<1>6. CASE toggleBell
  <2>1. /\ quiet /\ calls = {} /\ desk.who # Nobody
        /\ desk' = [desk EXCEPT !.bell = AllRead(@)]
    BY <1>6 DEF toggleBell, waits, AllRead
  <2>2. desk'.who = desk.who /\ desk'.rows = desk.rows /\ desk'.bell = AllRead(desk.bell)
    BY <1>1, <2>1
  <2>3. desk.rows = listRequests(desk.who) /\ desk.bell = listNotifications(desk.who)
    BY <2>1 DEF CurrentInv, PageFits
  <2>4. PICK slot : calls' = {Call("read", slot, desk.who, Nothing)}
    BY <1>6, <2>1 DEF toggleBell, send
  <2>a. PICK c : c = Call("read", slot, desk.who, Nothing)
    OBVIOUS
  <2>b. calls' = {c} /\ c.kind = "read" /\ c.stage = "sent" /\ c.by = desk.who
    BY <2>4, <2>a, OnItsWay
  <2>5. AllRead(desk.bell) = AllRead(listNotifications(desk.who))
    BY <2>3
  <2>. QED
    BY <1>2, <2>2, <2>3, <2>b, <2>5 DEF OneCall, PageFits, Brings, Decisions
<1>7. ASSUME NEW action \in Decisions, decide(action)
      PROVE  (OneCall /\ (desk.who # Nobody => PageFits))'
  <2>1. quiet /\ calls = {} /\ desk' = desk
    BY <1>7 DEF decide, waits
  <2>2. desk.who # Nobody => desk.rows = listRequests(desk.who)
    BY <2>1 DEF CurrentInv, PageFits
  <2>3. PICK slot : calls' = {Call(action, slot, desk.who, desk.selected)}
    BY <1>7, <2>1 DEF decide, send
  <2>4. PICK c : c = Call(action, slot, desk.who, desk.selected)
    OBVIOUS
  <2>5. calls' = {c} /\ c.kind = action /\ c.stage = "sent" /\ c.by = desk.who
    BY <2>3, <2>4, OnItsWay
  <2>. QED
    BY <1>2, <1>7, <2>1, <2>2, <2>5 DEF OneCall, PageFits, Brings, Decisions
<1>. QED
  BY <1>3, <1>4, <1>5, <1>6, <1>7

\* The one call there is, with the page it belongs to.
LEMMA TheOneCall ==
  ASSUME CurrentInv, quiet, NEW call \in calls
  PROVE  calls = {call} /\ (desk.who # Nobody => Brings(call))
BY DEF CurrentInv, OneCall, PageFits

\* The server serves it,
LEMMA ServingKeepsCurrent ==
  ASSUME DeskInv, CurrentInv, NEW call \in calls, arrives(call)
  PROVE  CurrentInv'
<1>. SUFFICES ASSUME quiet'  PROVE (OneCall /\ (desk.who # Nobody => PageFits))'
  BY DEF CurrentInv
<1>1. /\ quiet /\ desk' = desk /\ call.stage = "sent" /\ StoreInv
  BY DEF arrives, DeskInv
<1>2. calls = {call} /\ (desk.who # Nobody => Brings(call))
  BY <1>1, TheOneCall
<1>3. ASSUME NEW reply, Leave(call, Answer(call, reply)),
             NEW done,
             done = [kind |-> call.kind, slot |-> call.slot, stage |-> "answered", reply |-> reply],
             desk.who # Nobody => Brings(done)'
      PROVE  (OneCall /\ (desk.who # Nobody => PageFits))'
  <2>1. calls' = {done}
    BY <1>2, <1>3 DEF Leave, Answer
  <2>. QED
    BY <1>1, <1>3, <2>1 DEF OneCall, PageFits
<1>4. CASE decisionArrives(call)
  <2>1. PICK id : id = call.about.id
    OBVIOUS
  <2>2. PICK reply : reply = [id |-> id, row |-> toViewRequest(requests'[id])]
    OBVIOUS
  <2>3. PICK done : done = [kind |-> call.kind, slot |-> call.slot, stage |-> "answered", reply |-> reply]
    OBVIOUS
  <2>4. /\ \/ decideApprove(call.by, id) \/ decideReject(call.by, id)
           \/ financeApprove(call.by, id) \/ financeReject(call.by, id)
        /\ Leave(call, Answer(call, reply)) /\ call.kind \in Decisions
    BY <1>4, <2>1, <2>2 DEF decisionArrives, Decisions
  <2>5. listRequests(call.by)' = WithRow(listRequests(call.by), reply)
    BY <1>1, <2>2, <2>4, DecidedRow
  <2>6. desk.who # Nobody => call.by = desk.who /\ desk.rows = listRequests(desk.who)
    BY <1>1, <1>2, <2>4 DEF Brings
  <2>7. done.kind \in Decisions /\ done.stage = "answered" /\ done.reply = reply
    BY <2>3, <2>4
  <2>8. desk.who # Nobody => WithRow(desk'.rows, reply) = listRequests(desk.who)'
    BY <1>1, <2>5, <2>6
  <2>9. desk.who # Nobody => Brings(done)'
    BY <1>1, <2>7, <2>8 DEF Brings, Decisions
  <2>. QED
    BY <1>3, <2>3, <2>4, <2>9
<1>5. CASE readArrives(call)
  <2>1. call.kind = "read" /\ markNotificationsRead(call.by) /\ Leave(call, Answer(call, Nothing))
    BY <1>5 DEF readArrives
  <2>2. PICK done : done = [kind |-> call.kind, slot |-> call.slot, stage |-> "answered", reply |-> Nothing]
    OBVIOUS
  <2>3. listNotifications(call.by)' = AllRead(listNotifications(call.by)) /\ requests' = requests
    BY <1>1, <2>1, MarkedEverywhere
  <2>4. desk.who # Nobody => /\ call.by = desk.who /\ desk.rows = listRequests(desk.who)
                             /\ desk.bell = AllRead(listNotifications(desk.who))
    BY <1>1, <1>2, <2>1 DEF Brings
  <2>5. listRequests(desk.who)' = listRequests(desk.who)
    BY <1>1, <2>3 DEF listRequests
  <2>6. desk.who # Nobody => desk'.bell = listNotifications(desk.who)'
    BY <1>1, <2>3, <2>4
  <2>7. done.kind = "read" /\ done.stage = "answered"
    BY <2>1, <2>2
  <2>8. desk.who # Nobody => Brings(done)'
    BY <1>1, <2>4, <2>5, <2>6, <2>7 DEF Brings, Decisions
  <2>. QED
    BY <1>3, <2>1, <2>2, <2>8
<1>6. CASE listArrives(call)
  <2>1. \A who : /\ listRequests(who)' = listRequests(who)
                 /\ listNotifications(who)' = listNotifications(who)
    BY <1>6, SameLists DEF listArrives, vars
  <2>2. desk.who # Nobody => call.by = desk.who
    BY <1>1, <1>2 DEF Brings
  <2>3. PICK reply : /\ Leave(call, Answer(call, reply))
                     /\ \/ call.kind = "list" /\ reply = listRequests(call.by)
                        \/ call.kind = "bell" /\ reply = listNotifications(call.by)
    BY <1>6 DEF listArrives
  <2>4. PICK done : done = [kind |-> call.kind, slot |-> call.slot, stage |-> "answered", reply |-> reply]
    OBVIOUS
  <2>5. done.kind = call.kind /\ done.stage = "answered" /\ done.reply = reply
    BY <2>4
  <2>6. desk.who # Nobody /\ call.kind = "bell" => desk.rows = listRequests(desk.who)
    BY <1>2 DEF Brings
  <2>7. desk.who # Nobody => Brings(done)'
    BY <1>1, <2>1, <2>2, <2>3, <2>5, <2>6 DEF Brings, Decisions
  <2>. QED
    BY <1>3, <2>3, <2>4, <2>7
<1>. QED
  BY <1>4, <1>5, <1>6 DEF arrives

\* and the page takes up the answer.
LEMMA AnswersKeepCurrent ==
  ASSUME DeskInv, CurrentInv, NEW call \in calls, answered(call) \/ fail(call)
  PROVE  CurrentInv'
<1>. SUFFICES ASSUME quiet'  PROVE (OneCall /\ (desk.who # Nobody => PageFits))'
  BY DEF CurrentInv
<1>1. quiet /\ answered(call)
  BY DEF answered, fail
<1>2. calls = {call} /\ (desk.who # Nobody => Brings(call))
  BY <1>1, TheOneCall
<1>3. /\ desk = [who |-> desk.who, rows |-> desk.rows, bell |-> desk.bell, selected |-> desk.selected]
      /\ call.kind \in Decisions \cup {"list", "bell", "read"} /\ call.stage = "answered"
  BY <1>1 DEF DeskInv, DeskShows, CallShows, answered
<1>4. \A who : /\ listRequests(who)' = listRequests(who)
               /\ listNotifications(who)' = listNotifications(who)
  BY <1>1, SameLists DEF answered, vars
<1>5. calls' = next(call)
  BY <1>1, <1>2 DEF answered, Leave
<1>6. CASE desk.who = Nobody
  BY <1>1, <1>5, <1>6 DEF answered, next, OneCall
<1>7. CASE desk.who # Nobody /\ call.kind \in Decisions \cup {"list"}
  <2>1. desk'.who = desk.who /\ desk'.rows = listRequests(desk.who)
    <3>1. CASE call.kind = "list"
      <4>1. desk' = [desk EXCEPT !.rows = call.reply]
        BY <1>1, <1>7, <3>1, ShownIs DEF answered
      <4>. QED
        BY <1>2, <1>3, <1>7, <3>1, <4>1 DEF Brings
    <3>2. CASE call.kind \in Decisions
      <4>1. desk' = [desk EXCEPT !.selected = Nothing, !.rows = WithRow(@, call.reply)]
        BY <1>1, <1>7, <3>2, ShownIs DEF answered, decided, WithRow
      <4>2. desk'.who = desk.who /\ desk'.rows = WithRow(desk.rows, call.reply)
        BY <1>3, <4>1
      <4>. QED
        BY <1>2, <1>3, <1>7, <3>2, <4>2 DEF Brings
    <3>. QED
      BY <1>7, <3>1, <3>2
  <2>2. calls' = {Call("bell", call.slot, desk.who, Nothing)}
    BY <1>5, <1>7 DEF next
  <2>3. PICK c : c = Call("bell", call.slot, desk.who, Nothing)
    OBVIOUS
  <2>4. calls' = {c} /\ c.kind = "bell" /\ c.stage = "sent" /\ c.by = desk.who
    BY <2>2, <2>3, OnItsWay
  <2>. QED
    BY <1>4, <2>1, <2>4 DEF OneCall, PageFits, Brings, Decisions
<1>8. CASE desk.who # Nobody /\ call.kind \in {"bell", "read"}
  <2>1. calls' = {}
    BY <1>5, <1>8 DEF next, Decisions
  <2>2. desk.rows = listRequests(desk.who)
    BY <1>2, <1>8 DEF Brings
  <2>3. desk'.who = desk.who /\ desk'.rows = desk.rows /\ desk'.bell = listNotifications(desk.who)
    <3>1. CASE call.kind = "bell"
      <4>1. desk' = [desk EXCEPT !.bell = call.reply]
        BY <1>1, <1>8, <3>1, ShownIs DEF answered
      <4>. QED
        BY <1>2, <1>3, <1>8, <3>1, <4>1 DEF Brings
    <3>2. CASE call.kind = "read"
      BY <1>1, <1>2, <1>3, <1>8, <3>2, ShownIs DEF answered, Brings
    <3>. QED
      BY <1>8, <3>1, <3>2
  <2>. QED
    BY <1>4, <2>1, <2>2, <2>3 DEF OneCall, PageFits
<1>. QED
  BY <1>3, <1>6, <1>7, <1>8

\* A page that waits for its answers, while nobody else changes anything,
\* shows what the server would list now, though after a decision it takes
\* one row from the answer and fetches no list, and marks its own copy of
\* the notices (decide, refresh and the bell of page.tsx).
THEOREM DeskStaysCurrent == DSpec => []DeskIsCurrent
<1>1. DInit => CurrentInv
  BY DEF DInit, CurrentInv
<1>2. DeskInv /\ CurrentInv /\ [DNext]_dvars => CurrentInv'
  <2>. SUFFICES ASSUME DeskInv, CurrentInv, [DNext]_dvars  PROVE CurrentInv'
    OBVIOUS
  <2>1. CASE Elsewhere \/ UNCHANGED dvars
    <3>. SUFFICES ASSUME quiet'  PROVE CurrentInv'
      BY DEF CurrentInv
    <3>1. /\ quiet /\ desk' = desk /\ calls' = calls
          /\ requests' = requests /\ notifications' = notifications
      BY <2>1 DEF Elsewhere, dvars
    <3>2. /\ listRequests(desk.who)' = listRequests(desk.who)
          /\ listNotifications(desk.who)' = listNotifications(desk.who)
      BY <3>1, SameLists
    <3>. QED
      BY <3>1, <3>2 DEF CurrentInv, OneCall, PageFits, Brings
  <2>. QED
    BY <2>1, UseKeepsCurrent, ServingKeepsCurrent, AnswersKeepCurrent DEF DNext
<1>3. CurrentInv => DeskIsCurrent
  BY DEF CurrentInv, PageFits, DeskIsCurrent
<1>. QED
  BY <1>1, <1>2, <1>3, DeskInvAlways, PTL DEF DSpec
=============================================================================
