---------------------------- MODULE DraftEditor ----------------------------
(***************************************************************************)
(* The editor of src/app/page.tsx: one browser tab in which a requester    *)
(* types purchase requests while the page saves them to the server on a    *)
(* timer, on demand, before submitting and before signing out.  A save is  *)
(* a call that is answered later, whatever the user does meanwhile, and    *)
(* nothing stops a second one from being sent before the first returns.    *)
(*                                                                         *)
(* A form is the purchase its author has in mind and a text: everything    *)
(* the editor's fields hold.  Nothing in the page knows the purchase: it   *)
(* is there to tell whose text ended up where.  Of a text only the answers *)
(* of four checks matter, which the page and the server make at different  *)
(* moments and none of which implies the next.                             *)
(***************************************************************************)
EXTENDS Integers, Sequences, FiniteSetsExt

CONSTANTS
  Texts,          \* what the fields of a form may hold
  fresh,          \* freshForm: what a new form holds
  Worthy,         \* hasContent: a vendor, a description or a line
  Sound,          \* parseDraft takes it, e.g. no malformed address
  Offered,        \* the page lets it be submitted
  Complete,       \* submitRequest lets it be submitted
  MaxPurchases,   \* bound: purchases the user works on
  MaxDrafts,      \* bound: PRF numbers
  MaxCalls,       \* bound: calls under way at the same time
  MaxDisturbances \* bound: times the user does not wait, or something is lost

ASSUME EditorAssumption ==
  /\ {MaxPurchases, MaxDrafts, MaxCalls, MaxDisturbances} \subseteq Nat
  /\ fresh \in Texts \ Worthy

VARIABLES
  server,      \* the user's requests in the store, by number
  session,     \* whether the server still accepts the session
  calls,       \* the calls under way
  signedIn,    \* whether the page believes in its session
  open,        \* creating: the editor is on the screen
  form,        \* what the editor holds
  baseline,    \* what it held when it was opened
  editingId,   \* the number the editor saves to, 0 when it has none yet
  rows,        \* the list of requests the page shows
  buffers,     \* the copies of forms in local storage, by number
  active,      \* whether local storage and IndexedDB hold an active draft
  typed,       \* history: the last text typed of each purchase
  reverted,    \* history: purchases left as they were opened, and saved otherwise
  disturbed    \* history: how often a call overlapped another, or was lost

screen == <<signedIn, open, form, baseline, editingId, rows, buffers, active>>
past   == <<typed, reverted>>
dvars  == <<server, session, calls, screen, past, disturbed>>

Form  == [purchase : 0..MaxPurchases, text : Texts]
Blank == [purchase |-> 0, text |-> fresh]

Record == [form : Form, status : {"Draft", "Pending Supervisor Approval"}]
Draft(f) == [form |-> f, status |-> "Draft"]

\* What a call asks for, what the page does once it is answered, and how far
\* it is.
Call == [kind : {"none", "create", "update", "submit", "delete", "logout"},
         id : 0..MaxDrafts, form : Form, next : {"nothing", "submit", "logout"},
         stage : {"none", "sent", "done", "failed", "ended"}]

NoCall == [kind |-> "none", id |-> 0, form |-> Blank, next |-> "nothing", stage |-> "none"]

NewCall(kind, id, f, next) ==
  [kind |-> kind, id |-> id, form |-> f, next |-> next, stage |-> "sent"]

Slots == 1..MaxCalls
Free  == {s \in Slots : calls[s] = NoCall}
Busy  == Free # Slots

send(call) ==
  /\ Free # {}
  /\ calls' = [calls EXCEPT ![CHOOSE s \in Free : \A t \in Free : s <= t] = call]

\* MaxDisturbances bounds what a user does while calls are under way, and what
\* is lost.
disturb == disturbed < MaxDisturbances /\ disturbed' = disturbed + 1
disturbIf(condition) == IF condition THEN disturb ELSE UNCHANGED disturbed

hasContent(f) == f.text \in Worthy

\* The editor is compared with what it was opened with, whatever was saved since.
dirty == open /\ form # baseline

put(map, key, value) == [k \in DOMAIN map \cup {key} |-> IF k = key THEN value ELSE map[k]]

\* The form is written under its number, if it has one.
stored(id, f) == IF id = 0 THEN buffers ELSE put(buffers, id, f)

Init ==
  /\ server = <<>>
  /\ session = TRUE
  /\ calls = [s \in Slots |-> NoCall]
  /\ signedIn = TRUE
  /\ open = FALSE /\ form = Blank /\ baseline = Blank /\ editingId = 0
  /\ rows = <<>> /\ buffers = <<>> /\ active = FALSE
  /\ typed = <<>> /\ reverted = {}
  /\ disturbed = 0

-----------------------------------------------------------------------------
(* The user, and the timer of the editor.                                  *)

startNew ==
  /\ signedIn /\ ~open
  /\ Len(typed) < MaxPurchases
  /\ typed' = Append(typed, fresh)
  /\ form' = [purchase |-> Len(typed) + 1, text |-> fresh]
  /\ baseline' = form'
  /\ editingId' = 0 /\ open' = TRUE /\ active' = TRUE
  /\ disturbIf(Busy)
  /\ UNCHANGED <<server, session, calls, signedIn, rows, buffers, reverted>>

\* What a draft is reopened with: the local copy before the server's record.
shown(id) == IF id \in DOMAIN buffers THEN buffers[id] ELSE rows[id].form

resume(id) ==
  /\ signedIn /\ ~open
  /\ rows[id].status = "Draft"
  /\ form' = shown(id)
  /\ baseline' = form'
  /\ editingId' = id /\ open' = TRUE /\ active' = TRUE
  /\ buffers' = stored(id, form')
  /\ disturbIf(Busy)
  /\ UNCHANGED <<server, session, calls, signedIn, rows, past>>

\* The answer to one of the calls under way will close the editor.
Closing ==
  \E s \in Slots : calls[s].kind \in {"submit", "delete", "logout"} \/ calls[s].next # "nothing"

\* Any other text, an earlier one or the one it was opened with included.
type(text) ==
  /\ open /\ text # form.text
  /\ typed' = [typed EXCEPT ![form.purchase] = text]
  /\ form' = [form EXCEPT !.text = text]
  /\ buffers' = stored(editingId, form')
  /\ disturbIf(Closing)
  /\ UNCHANGED <<server, session, calls, signedIn, open, baseline, editingId, rows, active, reverted>>

\* PRF numbers go up from the highest in use.  MayCreate is the bound: no create is sent that could need a number beyond MaxDrafts.
nextNumber == 1 + Max({0} \cup DOMAIN server)
MayCreate  == nextNumber + Cardinality({s \in Slots : calls[s].kind = "create" /\ calls[s].stage = "sent"})
                <= MaxDrafts

\* A snapshot of the form goes to the number the editor has at this moment,
\* or asks for a new one.
saveNativeDraft(next) ==
  /\ editingId = 0 => MayCreate
  /\ send(NewCall(IF editingId = 0 THEN "create" ELSE "update", editingId, form, next))
  /\ disturbIf(Busy)

\* Fault: the timer saves only drafts that have no number yet.
autosave_OnlyNew ==
  /\ open /\ hasContent(form) /\ editingId = 0
  /\ saveNativeDraft("nothing")
  /\ buffers' = stored(editingId, form)
  /\ active' = TRUE
  /\ UNCHANGED <<server, session, signedIn, open, form, baseline, editingId, rows, past>>

\* Every 30 seconds, to local storage and to the server.
autosave ==
  /\ open /\ hasContent(form)
  /\ saveNativeDraft("nothing")
  /\ buffers' = stored(editingId, form)
  /\ active' = TRUE
  /\ UNCHANGED <<server, session, signedIn, open, form, baseline, editingId, rows, past>>

save ==
  /\ open
  /\ saveNativeDraft("nothing")
  /\ UNCHANGED <<server, session, screen, past>>

\* Closed as it was opened, a form is not saved: whether the server holds
\* another text of that purchase is put down.
noteReverted ==
  reverted' = IF ~dirty /\ \E i \in DOMAIN server : /\ server[i].form.purchase = form.purchase
                                                  /\ server[i].form # form
              THEN reverted \cup {form.purchase}
              ELSE reverted \ {form.purchase}

\* Fault: the editor closes without a save.
closeEditor_NoSave ==
  /\ open
  /\ disturbIf(Busy)
  /\ noteReverted
  /\ open' = FALSE /\ form' = Blank /\ baseline' = Blank /\ active' = TRUE
  /\ buffers' = stored(editingId, form)
  /\ UNCHANGED <<server, session, calls, signedIn, editingId, rows, typed>>

\* An editor whose text was changed is saved, and closed without waiting.  What
\* a closed editor holds is never looked at again: Blank.
closeEditor ==
  /\ open
  /\ IF dirty THEN saveNativeDraft("nothing") ELSE disturbIf(Busy) /\ UNCHANGED calls
  /\ noteReverted
  /\ open' = FALSE /\ form' = Blank /\ baseline' = Blank /\ active' = TRUE
  /\ buffers' = stored(editingId, form)
  /\ UNCHANGED <<server, session, signedIn, editingId, rows, typed>>

submitNative ==
  /\ open /\ form.text \in Offered
  /\ saveNativeDraft("submit")
  /\ UNCHANGED <<server, session, screen, past>>

deleteDraft(id) ==
  /\ signedIn
  /\ rows[id].status = "Draft"
  /\ ~open \/ id = editingId
  /\ send(NewCall("delete", id, Blank, "nothing"))
  /\ disturbIf(Busy)
  /\ UNCHANGED <<server, session, screen, past>>

\* The button is disabled while it works.
signOut ==
  /\ signedIn
  /\ \A s \in Slots : calls[s].kind # "logout" /\ calls[s].next # "logout"
  /\ IF open /\ hasContent(form) THEN saveNativeDraft("logout")
     ELSE send(NewCall("logout", 0, Blank, "nothing")) /\ disturbIf(Busy)
  /\ UNCHANGED <<server, session, screen, past>>

-----------------------------------------------------------------------------
(* The server, one call at a time, and the network in between.             *)

Answer(s, stage) == calls' = [calls EXCEPT ![s].stage = stage]

arriving(s, kind) == calls[s].kind = kind /\ calls[s].stage = "sent"

\* Without a session every handler answers 401, before it looks at anything.
refused(s, allowed) ==
  /\ ~(session /\ allowed)
  /\ Answer(s, IF session THEN "failed" ELSE "ended")
  /\ UNCHANGED <<server, past>>

sound(s) == calls[s].form.text \in Sound

\* parseDraft refuses the whole form for one field it does not take.
createArrives(s) ==
  /\ arriving(s, "create")
  /\ \/ refused(s, sound(s))
     \/ /\ session /\ sound(s)
        /\ server' = put(server, nextNumber, Draft(calls[s].form))
        /\ calls' = [calls EXCEPT ![s].stage = "done", ![s].id = nextNumber]
        /\ UNCHANGED past
  /\ UNCHANGED <<session, screen, disturbed>>

isDraft(id) == id \in DOMAIN server /\ server[id].status = "Draft"

\* Fault: an update is accepted whatever has become of the request.
updateArrives_AnyStatus(s) ==
  /\ arriving(s, "update")
  /\ \/ refused(s, sound(s) /\ calls[s].id \in DOMAIN server)
     \/ /\ session /\ sound(s) /\ calls[s].id \in DOMAIN server
        /\ server' = [server EXCEPT ![calls[s].id].form = calls[s].form]
        /\ Answer(s, "done")
        /\ UNCHANGED past
  /\ UNCHANGED <<session, screen, disturbed>>

updateArrives(s) ==
  /\ arriving(s, "update")
  /\ \/ refused(s, sound(s) /\ isDraft(calls[s].id))
     \/ /\ session /\ sound(s) /\ isDraft(calls[s].id)
        /\ server' = [server EXCEPT ![calls[s].id].form = calls[s].form]
        /\ Answer(s, "done")
        /\ UNCHANGED past
  /\ UNCHANGED <<session, screen, disturbed>>

\* What is submitted is what the server holds, not what the editor shows.
submitArrives(s) ==
  LET id == calls[s].id
      complete == isDraft(id) /\ server[id].form.text \in Complete
  IN  /\ arriving(s, "submit")
      /\ \/ refused(s, complete)
         \/ /\ session /\ complete
            /\ server' = [server EXCEPT ![id].status = "Pending Supervisor Approval"]
            /\ calls' = [calls EXCEPT ![s].stage = "done", ![s].form = server[id].form]
            /\ UNCHANGED past
      /\ UNCHANGED <<session, screen, disturbed>>

\* The user has given up what was typed about that purchase.
deleteArrives(s) ==
  LET id == calls[s].id
  IN  /\ arriving(s, "delete")
      /\ \/ refused(s, isDraft(id))
         \/ /\ session /\ isDraft(id)
            /\ server' = [i \in DOMAIN server \ {id} |-> server[i]]
            /\ typed' = [typed EXCEPT ![server[id].form.purchase] = fresh]
            /\ reverted' = reverted \ {server[id].form.purchase}
            /\ Answer(s, "done")
      /\ UNCHANGED <<session, screen, disturbed>>

logoutArrives(s) ==
  /\ arriving(s, "logout")
  /\ session' = FALSE
  /\ Answer(s, "done")
  /\ UNCHANGED <<server, screen, past, disturbed>>

\* A call that never arrives, one the store fails under, or an answer that
\* never comes back.
Lose(s) ==
  /\ calls[s].stage \in {"sent", "done"}
  /\ Answer(s, "failed")
  /\ disturb
  /\ UNCHANGED <<server, session, screen, past>>

\* An hour without activity, or twelve hours with it.
Expire ==
  /\ session
  /\ session' = FALSE /\ disturb
  /\ UNCHANGED <<server, calls, screen, past>>

-----------------------------------------------------------------------------
(* The page, when an answer comes back.                                    *)

\* What the function that made the call goes on to do in the same place.
then(s, call) == calls' = [calls EXCEPT ![s] = call]
logout == NewCall("logout", 0, Blank, "nothing")
onward(next) == IF next = "logout" THEN logout ELSE NoCall

\* Fault: the page forgets the number of the draft it has just created.
saveAnswered_NoId(s) ==
  LET c == calls[s]
  IN  /\ c.kind \in {"create", "update"} /\ c.stage = "done"
      /\ rows' = put(rows, c.id, Draft(c.form))
      /\ buffers' = stored(c.id, c.form)
      /\ then(s, IF c.next = "submit" THEN NewCall("submit", c.id, Blank, "nothing") ELSE onward(c.next))
      /\ UNCHANGED <<server, session, signedIn, open, form, baseline, editingId, active, past, disturbed>>

\* Whatever the editor shows by now, it takes the number of the draft that was
\* saved; an editor on the screen whose number this changes writes its form
\* over the snapshot.
saveAnswered(s) ==
  LET c == calls[s]
  IN  /\ c.kind \in {"create", "update"} /\ c.stage = "done"
      /\ rows' = put(rows, c.id, Draft(c.form))
      /\ editingId' = c.id
      /\ buffers' = stored(c.id, IF open /\ editingId # c.id THEN form ELSE c.form)
      /\ then(s, IF c.next = "submit" THEN NewCall("submit", c.id, Blank, "nothing") ELSE onward(c.next))
      /\ UNCHANGED <<server, session, signedIn, open, form, baseline, active, past, disturbed>>

\* Closing an editor runs the clean-up of its effect, after everything else,
\* and that writes the active draft once more: active' = open.
submitAnswered(s) ==
  LET c == calls[s]
  IN  /\ c.kind = "submit" /\ c.stage = "done"
      /\ rows' = IF c.id \in DOMAIN rows
                 THEN [rows EXCEPT ![c.id] = [form |-> c.form, status |-> "Pending Supervisor Approval"]]
                 ELSE rows
      /\ editingId' = 0 /\ open' = FALSE /\ form' = Blank /\ baseline' = Blank /\ active' = open
      /\ then(s, NoCall)
      /\ UNCHANGED <<server, session, signedIn, buffers, past, disturbed>>

deleteAnswered(s) ==
  LET id == calls[s].id
  IN  /\ calls[s].kind = "delete" /\ calls[s].stage = "done"
      /\ rows' = [i \in DOMAIN rows \ {id} |-> rows[i]]
      /\ buffers' = [i \in DOMAIN buffers \ {id} |-> buffers[i]]
      /\ \/ /\ editingId = id
            /\ editingId' = 0 /\ open' = FALSE /\ form' = Blank /\ baseline' = Blank /\ active' = open
         \/ editingId # id /\ UNCHANGED <<editingId, open, baseline, form, active>>
      /\ then(s, NoCall)
      /\ UNCHANGED <<server, session, signedIn, past, disturbed>>

\* Fault: the editor stays on the screen.
endLocalSession_StaysOpen ==
  /\ signedIn' = FALSE
  /\ rows' = <<>> /\ buffers' = <<>>
  /\ editingId' = 0 /\ active' = FALSE
  /\ UNCHANGED <<server, session, open, baseline, form, past, disturbed>>

\* Everything the page has written locally is cleared, and then the editor,
\* if there is one, is closed.
endLocalSession ==
  /\ signedIn' = FALSE
  /\ rows' = <<>> /\ buffers' = <<>>
  /\ editingId' = 0 /\ open' = FALSE /\ form' = Blank /\ baseline' = Blank /\ active' = open
  /\ UNCHANGED <<server, session, past, disturbed>>

\* A notice, and the next thing; the user keeps what is on the screen.
callFailed(s) ==
  /\ calls[s].stage = "failed" /\ calls[s].kind # "logout"
  /\ then(s, onward(calls[s].next))
  /\ UNCHANGED <<server, session, screen, past, disturbed>>

sessionEnded(s) ==
  /\ calls[s].stage = "ended"
  /\ then(s, onward(calls[s].next))
  /\ endLocalSession

\* The page signs out whether or not the server heard of it.
logoutAnswered(s) ==
  /\ calls[s].kind = "logout" /\ calls[s].stage \in {"done", "failed"}
  /\ then(s, NoCall)
  /\ endLocalSession

arrives(s)  == createArrives(s) \/ updateArrives(s) \/ submitArrives(s) \/ deleteArrives(s) \/ logoutArrives(s)
answered(s) == saveAnswered(s) \/ submitAnswered(s) \/ deleteAnswered(s)
                 \/ callFailed(s) \/ sessionEnded(s) \/ logoutAnswered(s)

user ==
  \/ startNew \/ save \/ closeEditor \/ submitNative \/ signOut
  \/ \E text \in Texts : type(text)
  \/ \E id \in DOMAIN rows : resume(id) \/ deleteDraft(id)

Next ==
  \/ user \/ autosave \/ Expire
  \/ \E s \in Slots : arrives(s) \/ answered(s) \/ Lose(s)

\* The timer of an open editor runs, a call that is not lost is served, and
\* the page takes up every answer.  The user need not do anything.
FairSpec ==
  /\ Init /\ [][Next]_dvars
  /\ WF_dvars(autosave)
  /\ \A s \in Slots : WF_dvars(arrives(s)) /\ WF_dvars(answered(s))

-----------------------------------------------------------------------------
(* Properties.                                                             *)

\* Every variable stays in its type; a form that is open has a purchase.
EditorTypeOK ==
  /\ DOMAIN server \subseteq 1..MaxDrafts /\ \A i \in DOMAIN server : server[i] \in Record
  /\ DOMAIN rows \subseteq 1..MaxDrafts /\ \A i \in DOMAIN rows : rows[i] \in Record
  /\ DOMAIN buffers \subseteq 1..MaxDrafts /\ \A i \in DOMAIN buffers : buffers[i] \in Form
  /\ calls \in [Slots -> Call]
  /\ {session, signedIn, open, active} \subseteq BOOLEAN
  /\ {form, baseline} \subseteq Form /\ editingId \in 0..MaxDrafts
  /\ Len(typed) <= MaxPurchases /\ \A p \in DOMAIN typed : typed[p] \in Texts
  /\ reverted \subseteq DOMAIN typed
  /\ disturbed \in 0..MaxDisturbances
  /\ open => signedIn /\ form.purchase # 0

\* Saves of an editor may be served long after the request they belong to was
\* submitted, and in any order: none changes a submitted request or brings it
\* back (updateDraft, deleteDraft of store.ts against the saves of page.tsx).
SubmittedNeverChanges ==
  [][\A i \in DOMAIN server : server[i].status # "Draft"
       => i \in DOMAIN server' /\ server'[i] = server[i]]_dvars

\* As long as nobody overlaps a save with anything else and nothing is lost,
\* no purchase has two requests: the timer, the button, submitting and
\* closing all find the number an earlier save was given.
OneDraftPerPurchase ==
  disturbed > 0 \/ \A i, j \in DOMAIN server :
                 server[i].form.purchase = server[j].form.purchase => i = j

\* The form of a purchase as its author left it.
LastOf(p) == [purchase |-> p, text |-> typed[p]]
Written(f) == \E i \in DOMAIN server : server[i].form = f

\* A purchase that never got a number, because its form is empty or because
\* parseDraft refuses it.
Unrecorded(p) == typed[p] \notin Sound \ {fresh} /\ \A i \in DOMAIN rows : rows[i].form.purchase # p

\* Under the same conditions an editor may be left at any moment.  Once the
\* calls are answered, what was typed last of a purchase is in the editor, or
\* is what opening its request shows; the one exception is a new form the
\* server refuses, which is gone when it is closed.  Signing out leaves on the
\* server what the page thinks worth a save (Worthy) and the server takes
\* (Sound), but for a text that another one was saved over and that was then
\* typed again: closing, which compares with what was opened, does not save it
\* (saveNativeDraft, closeEditor, signOut, resume of page.tsx; parseDraft and
\* updateDraft on the server).
PatientUserLosesNothing ==
  \/ disturbed > 0 \/ Busy
  \/ \A p \in DOMAIN typed :
       IF signedIn
       THEN \/ open /\ form = LastOf(p)
            \/ \E i \in DOMAIN rows : shown(i) = LastOf(p)
            \/ Unrecorded(p)
       ELSE typed[p] \in Sound \cap Worthy /\ p \notin reverted => Written(LastOf(p))

\* A user who stays in the editor need not press anything: what it shows is
\* on the server eventually, if it is worth a save and the server takes it,
\* unless calls overlap or are lost (the auto-save effect of page.tsx).
AutosaveCatchesUp ==
  \A f \in [purchase : 1..MaxPurchases, text : Worthy \cap Sound] :
    (open /\ form = f /\ disturbed = 0)
      ~> (~open \/ form # f \/ disturbed > 0 \/ Written(f))

\* "OK - save it as an Open Draft and close.": an editor that is closed has
\* left its text on the server.
ClosedIsSaved ==
  \/ disturbed > 0 \/ Busy \/ open \/ ~signedIn
  \/ \A p \in DOMAIN typed : typed[p] # fresh => Written(LastOf(p))

\* "Save first.  Sign-out clears every local copy of the draft": nothing that
\* was typed is gone after signing out.
SignOutKeepsTheDraft ==
  \/ disturbed > 0 \/ Busy \/ signedIn
  \/ \A p \in DOMAIN typed : typed[p] # fresh => Written(LastOf(p))

\* "Open Draft saved. You can close and resume it at any time.": a draft once
\* saved for a purchase is never written over with another one's.
DraftKeepsItsPurchase ==
  [][\A i \in DOMAIN server : i \in DOMAIN server'
       => server'[i].form.purchase = server[i].form.purchase]_dvars

\* Signing out "clears every local draft, editor buffer and mirrored copy".
SignedOutLeavesNothing == ~signedIn => ~active /\ buffers = <<>>

=============================================================================
