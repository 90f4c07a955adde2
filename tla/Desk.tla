-------------------------------- MODULE Desk --------------------------------
(***************************************************************************)
(* The page of somebody who reviews (src/app/page.tsx, with the review     *)
(* screen, the register and the bell of the design system): what it loaded *)
(* of the data layer, the request it has open, and the decisions it sends. *)
(*                                                                         *)
(* Everything it shows is a copy.  The lists are fetched when the page     *)
(* opens; a request is opened from the list, never fetched, and a decision *)
(* carries its number and the answer, nothing of what was on the screen.   *)
(* Beside it runs the whole data layer, in the hands of everybody else.    *)
(***************************************************************************)
EXTENDS PrfStoreProperties

CONSTANTS
  Reviewers,  \* the users who may be at the page
  Buyers,     \* bound: the users who write requests
  Nobody,     \* no session: the page shows the login screen
  Nothing,    \* no request is open
  BellSize,   \* how many of a person's notices are listed, the newest (50 in the code)
  MaxCalls    \* bound: calls of the page under way at the same time

ASSUME DeskAssumption ==
  /\ Reviewers \subseteq Users /\ Buyers \subseteq Users /\ Nobody \notin Actor
  /\ BellSize \in Nat /\ MaxCalls \in Nat

VARIABLES
  desk,    \* [who, rows, bell, selected]: the state of the page
  calls,   \* the page's calls under way
  quiet    \* history: since the page opened nobody else changed anything, and it waited for its answers

dvars == <<users, sessions, requests, notifications, accountLog, desk, calls, quiet>>

-----------------------------------------------------------------------------
(* Data.                                                                   *)

\* How often a record has been submitted, which its trail tells.
round(request) == Cardinality({i \in DOMAIN request.audit : request.audit[i].action = "Submitted"})

\* What a row of the list, and a screen opened from it, shows of a record.
toViewRequest(request) ==
  [status |-> request.status, content |-> request.content, ownerId |-> request.ownerId,
   requesterSigned |-> request.requesterSigned, round |-> round(request)]

listRequests(actor) ==
  [id \in {i \in DOMAIN requests : visibleTo(actor, requests[i])} |-> toViewRequest(requests[id])]

addressedTo(actor) == {i \in DOMAIN notifications : notifications[i].to = actor.userId}

\* The newest of the person's notices, each at its place in the store.
listNotifications(actor) ==
  LET newest == {i \in addressedTo(actor) : Cardinality({j \in addressedTo(actor) : j > i}) < BellSize}
  IN  [i \in newest |-> notifications[i]]

Closed == [who |-> Nobody, rows |-> <<>>, bell |-> <<>>, selected |-> Nothing]

\* A call travels with the session's cookie.  about is what was open when a
\* decision was pressed, reply what a served call brings back.  Slots tell
\* two calls apart that say the same.
Call(kind, slot, actor, about) ==
  [kind |-> kind, slot |-> slot, by |-> actor, stage |-> "sent", about |-> about]
Answer(call, reply) ==
  {[kind |-> call.kind, slot |-> call.slot, stage |-> "answered", reply |-> reply]}

Decisions == {"approve", "reject"}

DInit ==
  /\ Init
  /\ desk = Closed
  /\ calls = {}
  /\ quiet = FALSE

send(kind, actor, about) ==
  /\ Cardinality(calls) < MaxCalls
  /\ LET slot == CHOOSE n \in 1..MaxCalls : \A k \in 1..n :
                    k < n <=> Call(kind, k, actor, about) \in calls
     IN  calls' = calls \cup {Call(kind, slot, actor, about)}

waits == quiet' = (quiet /\ calls = {})
Leave(call, to) == calls' = (calls \ {call}) \cup to

-----------------------------------------------------------------------------
(* What the person at the page does.                                       *)

\* Somebody signs in at the login screen, or the page is loaded and finds
\* the session of its cookie; it refreshes, while a decision sent before may
\* still be on its way.  Bound: nothing else is.
adopt(actor) ==
  /\ \A call \in calls : call.kind \in Decisions
  /\ desk' = [Closed EXCEPT !.who = actor]
  /\ send("list", actor, Nothing)
  /\ quiet' = (calls = {})
  /\ UNCHANGED vars

\* The page is emptied; the session itself ends when the call to end it is
\* served, or not at all.
signOut ==
  /\ desk.who # Nobody
  /\ desk' = Closed
  /\ UNCHANGED <<vars, calls, quiet>>

\* Any row can be opened: from the queue, from the register, or from a
\* notice of the bell, which looks its request up among the rows.
select(id) ==
  /\ desk.who # Nobody /\ desk.selected = Nothing
  /\ desk' = [desk EXCEPT !.selected = [id |-> id, row |-> desk.rows[id]]]
  /\ UNCHANGED <<vars, calls, quiet>>

close ==
  /\ desk.selected # Nothing
  /\ desk' = [desk EXCEPT !.selected = Nothing]
  /\ UNCHANGED <<vars, calls, quiet>>

actionable(role) ==
  IF isFinance(role) THEN "Pending Finance Review" ELSE "Pending Supervisor Approval"

\* The review screen opens instead of the one that only shows.
reviewing ==
  /\ desk.selected # Nothing
  /\ isFinance(desk.who.role) \/ isApprover(desk.who.role)
  /\ desk.selected.row.status = actionable(desk.who.role)

\* Nothing disables the buttons while a decision is on its way.
decide(action) ==
  /\ reviewing
  /\ action = "approve" => desk.selected.row.requesterSigned
  /\ send(action, desk.who, desk.selected)
  /\ waits
  /\ UNCHANGED <<vars, desk>>

\* Opening the bell marks everything read, here and on the server.
toggleBell ==
  /\ desk.who # Nobody
  /\ \E i \in DOMAIN desk.bell : ~desk.bell[i].read
  /\ desk' = [desk EXCEPT !.bell = [i \in DOMAIN @ |-> [@[i] EXCEPT !.read = TRUE]]]
  /\ send("read", desk.who, Nothing)
  /\ waits
  /\ UNCHANGED vars

-----------------------------------------------------------------------------
(* The server serves a call.                                               *)

\* isFinance of the page picks the endpoint, the session answers for it.
decisionArrives(call) ==
  /\ LET id == call.about.id
     IN  \/ isFinance(call.by.role) /\ call.kind = "approve" /\ financeApprove(call.by, id)
         \/ isFinance(call.by.role) /\ call.kind = "reject" /\ financeReject(call.by, id)
         \/ ~isFinance(call.by.role) /\ call.kind = "approve" /\ decideApprove(call.by, id)
         \/ ~isFinance(call.by.role) /\ call.kind = "reject" /\ decideReject(call.by, id)
  /\ Leave(call, Answer(call, [id |-> call.about.id, row |-> toViewRequest(requests'[call.about.id])]))

readArrives(call) ==
  /\ call.kind = "read"
  /\ markNotificationsRead(call.by)
  /\ Leave(call, Answer(call, Nothing))

listArrives(call) ==
  /\ \/ call.kind = "list" /\ Leave(call, Answer(call, listRequests(call.by)))
     \/ call.kind = "bell" /\ Leave(call, Answer(call, listNotifications(call.by)))
  /\ UNCHANGED vars

arrives(call) ==
  /\ call.stage = "sent" /\ call.by \in sessions
  /\ decisionArrives(call) \/ readArrives(call) \/ listArrives(call)
  /\ UNCHANGED <<desk, quiet>>

-----------------------------------------------------------------------------
(* The answer reaches the page.                                            *)

\* Fault: the row keeps what it showed before.
decided_KeepsRow(reply) == [desk EXCEPT !.selected = Nothing]

\* The row of the request is replaced, and whatever is open is closed.
decided(reply) ==
  [desk EXCEPT !.selected = Nothing,
               !.rows = [id \in DOMAIN @ |-> IF id = reply.id THEN reply.row ELSE @[id]]]

\* What a late answer puts behind the login screen is not looked at.
shown(call) ==
  CASE call.kind = "list" -> [desk EXCEPT !.rows = call.reply]
    [] call.kind = "bell" -> [desk EXCEPT !.bell = call.reply]
    [] call.kind = "read" -> desk
    [] call.kind \in Decisions -> decided(call.reply)

\* The notices are fetched after the list, and again after a decision.
next(call) ==
  IF desk.who # Nobody /\ call.kind \in Decisions \cup {"list"}
  THEN {Call("bell", call.slot, desk.who, Nothing)} ELSE {}

answered(call) ==
  /\ call.stage = "answered"
  /\ desk' = IF desk.who = Nobody THEN desk ELSE shown(call)
  /\ Leave(call, next(call))
  /\ UNCHANGED <<vars, quiet>>

\* A call is refused, or it or its answer is lost.  guard keeps the reason
\* in notice, which only the requester's form shows: nothing changes for the
\* reviewer.  A list that failed is still followed by the notices.
guard(call) ==
  /\ Leave(call, IF call.kind = "list" THEN next(call) ELSE {})
  /\ UNCHANGED desk

\* The session has ended: the page goes back to the login screen, unless
\* the call was about notices, whose failures are swallowed.
endLocalSession(call) ==
  /\ call.stage = "sent" /\ call.kind \in Decisions \cup {"list"}
  /\ call.by \notin sessions
  /\ desk' = Closed
  /\ Leave(call, {})

fail(call) ==
  /\ guard(call) \/ endLocalSession(call)
  /\ quiet' = FALSE
  /\ UNCHANGED vars

-----------------------------------------------------------------------------
\* Everybody else, and the same person in another tab.  Positions stay as
\* they are: a session's powers do not depend on the account's.  Drafts are
\* of no concern to a reviewer, so a buyer's first text is the one submitted
\* (bound).
buys(actor) ==
  /\ actor.userId \in Buyers
  /\ \/ \E content \in Contents : createDraft(actor, content)
     \/ \E id \in DOMAIN requests :
          \/ submitRequest(actor, id)
          \/ \E content \in Contents :
               requests[id].status # "Draft" /\ updateDraft(actor, id, content)

atReview == {actor \in sessions : actor.userId \in Reviewers}

Elsewhere ==
  /\ \/ \E u \in Users : SignIn(u)
     \/ \E actor \in sessions : buys(actor)
     \/ \E actor \in atReview : EndSession(actor) \/ markNotificationsRead(actor) \/ ReviewerStep(actor)
  /\ quiet' = (quiet /\ UNCHANGED <<requests, notifications>>)
  /\ UNCHANGED <<desk, calls>>

DNext ==
  \/ Elsewhere
  \/ \E actor \in atReview : adopt(actor)
  \/ \E id \in DOMAIN desk.rows : select(id)
  \/ close \/ toggleBell \/ signOut
  \/ \E action \in Decisions : decide(action)
  \/ \E call \in calls : arrives(call) \/ answered(call) \/ fail(call)

DSpec == DInit /\ [][DNext]_dvars

-----------------------------------------------------------------------------
(* Properties.                                                             *)

\* While nobody else changes anything, a page whose calls have been answered
\* shows the rows and the notices the server would list now, its own
\* decisions and its marks as read included: decide replaces one row by the
\* answer and fetches no list.
DeskIsCurrent ==
  quiet /\ desk.who # Nobody /\ calls = {} =>
    /\ desk.rows = listRequests(desk.who)
    /\ desk.bell = listNotifications(desk.who)

\* The request a step of the server decides for the page: a decision leaves
\* the calls as it is answered, with the record no longer as it was.
Decides(call) ==
  /\ call.kind \in Decisions /\ call.stage = "sent" /\ call \notin calls'
  /\ requests' # requests

\* However often the buttons are pressed and however late the decision
\* arrives, it only ever takes effect at the gate its screen was about.
DecidedAtItsGate ==
  [][\A call \in calls : Decides(call) =>
       requests[call.about.id].status = call.about.row.status]_dvars

\* An approval carries nothing of what was on the screen, yet the content
\* it signs is what was shown, unless the request was sent back and
\* submitted again since: nobody can amend a request that waits.
SignsWhatWaits ==
  [][\A call \in calls : Decides(call) /\ call.kind = "approve" =>
       LET signed == requests[call.about.id]
       IN  signed.content = call.about.row.content \/ round(signed) > call.about.row.round]_dvars

-----------------------------------------------------------------------------
(* Statements of the repository that the page does not keep.               *)

\* SupervisorReview.tsx: the screen lays out everything a decision needs.
\* A request sent back by a colleague, amended and submitted again is
\* approved from a screen that still shows what it was before.
SignedAsShown ==
  [][\A call \in calls : Decides(call) /\ call.kind = "approve" =>
       requests[call.about.id].content = call.about.row.content]_dvars

\* store.ts: the escalation stops an approver's own request from sitting in
\* their queue looking actionable.  The queue is picked by status alone.
OwnRequestIsNotActionable ==
  reviewing => desk.selected.row.ownerId # desk.who.userId
=============================================================================
