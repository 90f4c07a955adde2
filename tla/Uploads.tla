------------------------------ MODULE Uploads -------------------------------
(***************************************************************************)
(* Supporting documents: the bytes on disk (src/lib/uploads.ts), the       *)
(* records that point at them (attachToRequest and detachFromRequest of    *)
(* the data layer), the routes that keep the two in step without a         *)
(* transaction round both, and the zone of the editor that shows them      *)
(* (attachFiles, detachFile and resume of src/app/page.tsx).               *)
(*                                                                         *)
(* The rest of the data layer runs beside them: requests are edited,       *)
(* submitted, sent back and deleted, and numbers are given out again.      *)
(***************************************************************************)
EXTENDS PrfStoreProperties

CONSTANTS
  Author,        \* the user at whose editor we look
  MaxTransfers   \* bound: calls about files under way at the same time

ASSUME UploadsAssumption == Author \in Users /\ MaxTransfers \in Nat

VARIABLES
  bytes,      \* what is on disk: the request's directory, the file, and who sent it
  transfers,  \* the calls under way
  editor,     \* [open, id, zone]: the request the editor holds, 0 before its first save, and what its zone shows
  patient,    \* history: nothing failed, the editor is used only when its calls are answered, and no other tab is
  removed     \* history: the files whose removal was confirmed

uvars == <<users, sessions, requests, notifications, accountLog, bytes, transfers, editor, patient, removed>>

Ids == 1..MaxPrf
Transfer == [kind : {"upload", "remove", "list"}, by : Actor, id : Ids, file : SUBSET Files,
             page : BOOLEAN, left : 0..1, stage : {"received", "stored", "detached", "answered"}]

UInit ==
  /\ Init
  /\ bytes = {} /\ transfers = {}
  /\ editor = [open |-> FALSE, id |-> 0, zone |-> {}]
  /\ patient = TRUE /\ removed = {}

Leave(t, to) == transfers' = (transfers \ {t}) \cup to
At2(t, stage, file) == [t EXCEPT !.stage = stage, !.file = file]

\* randomUUID: a file nobody has heard of.
Unused(f) ==
  /\ \A b \in bytes : b[2] # f
  /\ \A t \in transfers : f \notin t.file
  /\ \A id \in DOMAIN requests : f \notin requests[id].attachments
  /\ f \notin removed /\ f \notin editor.zone

\* left is the number of files the loop of attachFiles has still to send.
Call(kind, actor, id, file, page, left) ==
  /\ Cardinality(transfers) < MaxTransfers
  /\ transfers' = transfers \cup {[kind |-> kind, by |-> actor, id |-> id, file |-> file,
                                   page |-> page, left |-> left, stage |-> "received"]}

-----------------------------------------------------------------------------
(* The routes.                                                             *)

\* Fault: the bytes are still on their way when the record is made.
writeAttachment_NotAwaited(t, f) == UNCHANGED bytes

writeAttachment(t, f) == bytes' = bytes \cup {<<t.id, f, t.by.userId>>}

\* The bytes are checked and stored first, for whatever number was asked.
store(t) ==
  /\ t.kind = "upload" /\ t.stage = "received"
  /\ \E f \in Files : /\ Unused(f)
                      /\ writeAttachment(t, f)
                      /\ Leave(t, {At2(t, "stored", {f})})
  /\ UNCHANGED <<vars, editor, patient, removed>>

\* Then the record, which the data layer may refuse.
attach(t) ==
  /\ t.kind = "upload" /\ t.stage = "stored" /\ t.id \in DOMAIN requests
  /\ \E f \in t.file : attachToRequest(t.by, t.id, f)
  /\ Leave(t, {At2(t, "answered", requests'[t.id].attachments)})
  /\ UNCHANGED <<bytes, editor, patient, removed>>

\* Removing is the other way round.
detach(t) ==
  /\ t.kind = "remove" /\ t.stage = "received" /\ t.id \in DOMAIN requests
  /\ \E f \in t.file : detachFromRequest(t.by, t.id, f)
  /\ Leave(t, {At2(t, "detached", t.file)})
  /\ UNCHANGED <<bytes, editor, patient, removed>>

\* Fault: the record goes, the bytes stay.
removeAttachment_Skipped(t) == UNCHANGED bytes

removeAttachment(t) == bytes' = {b \in bytes : ~(b[1] = t.id /\ b[2] \in t.file)}

unlink(t) ==
  /\ t.kind = "remove" /\ t.stage = "detached"
  /\ removeAttachment(t)
  /\ removed' = removed \cup t.file
  /\ Leave(t, {At2(t, "answered", t.file)})
  /\ UNCHANGED <<vars, editor, patient>>

list(t) ==
  /\ t.kind = "list" /\ t.stage = "received" /\ locate(t.by, t.id)
  /\ Leave(t, {At2(t, "answered", requests[t.id].attachments)})
  /\ UNCHANGED <<vars, bytes, editor, patient, removed>>

\* From another tab of the same person, or by anybody who knows a number.
elsewhere(actor, id) ==
  /\ \/ Call("upload", actor, id, {}, FALSE, 0)
     \/ /\ id \in DOMAIN requests
        /\ \E f \in requests[id].attachments : Call("remove", actor, id, {f}, FALSE, 0)
  /\ patient' = FALSE
  /\ UNCHANGED <<vars, bytes, editor, removed>>

-----------------------------------------------------------------------------
(* The editor.                                                             *)

InPage == {t \in transfers : t.page}
author == {actor \in sessions : actor.userId = Author}
waits == patient' = (patient /\ InPage = {})
busy == \E t \in InPage : t.kind = "upload"

\* The editor opens on a record: its zone keeps what it showed until the
\* answer is there.
resume(actor, id) ==
  /\ ~editor.open /\ requests[id].ownerId = Author /\ requests[id].status \in EDITABLE
  /\ editor' = [editor EXCEPT !.open = TRUE, !.id = id]
  /\ Call("list", actor, id, {}, TRUE, 0)
  /\ waits
  /\ UNCHANGED <<vars, bytes, removed>>

\* Fault: the zone is not emptied.
startNew_Zone == editor.zone

\* The zone of a new form.
startNew == {}

create ==
  /\ ~editor.open
  /\ editor' = [editor EXCEPT !.open = TRUE, !.id = 0, !.zone = startNew]
  /\ waits
  /\ UNCHANGED <<vars, bytes, transfers, removed>>

\* The first save of a new form gives it its number, and a zone.
firstSave(actor, content) ==
  /\ editor.open /\ editor.id = 0
  /\ createDraft(actor, content)
  /\ editor' = [editor EXCEPT !.id = Max(DOMAIN requests')]
  /\ UNCHANGED <<bytes, transfers, patient, removed>>

closeEditor ==
  /\ editor.open
  /\ editor' = [editor EXCEPT !.open = FALSE]
  /\ UNCHANGED <<vars, bytes, transfers, patient, removed>>

\* Up to two files are chosen; they are sent one after the other, to the
\* request that was open when they were chosen.
attachFiles(actor, n) ==
  /\ editor.open /\ editor.id # 0 /\ ~busy
  /\ Call("upload", actor, editor.id, {}, TRUE, n - 1)
  /\ waits
  /\ UNCHANGED <<vars, bytes, editor, removed>>

detachFile(actor, f) ==
  /\ editor.open /\ editor.id # 0 /\ f \in editor.zone
  /\ Call("remove", actor, editor.id, {f}, TRUE, 0)
  /\ waits
  /\ UNCHANGED <<vars, bytes, editor, removed>>

\* What the loop of attachFiles does after each of its files.
sendNext(t) ==
  Leave(t, IF t.left = 0 THEN {} ELSE {[t EXCEPT !.stage = "received", !.file = {}, !.left = @ - 1]})

\* Answers are shown in whatever editor is open.
zoneAfter(t) ==
  IF t.kind = "remove" THEN editor.zone \ t.file ELSE t.file

answered(t) ==
  /\ t.stage = "answered"
  /\ editor' = IF t.page THEN [editor EXCEPT !.zone = zoneAfter(t)] ELSE editor
  /\ sendNext(t)
  /\ UNCHANGED <<vars, bytes, patient, removed>>

\* The call is refused or fails: a zone that could not be listed is empty,
\* and the loop goes on with the next file, unless the session has ended.
fail(t) ==
  /\ t.stage # "answered"
  /\ \/ /\ editor' = IF t.page /\ t.kind = "list" THEN [editor EXCEPT !.zone = {}] ELSE editor
        /\ sendNext(t)
     \/ /\ t.page
        /\ editor' = [editor EXCEPT !.open = FALSE]
        /\ Leave(t, {})
  /\ patient' = FALSE
  /\ UNCHANGED <<vars, bytes, removed>>

-----------------------------------------------------------------------------
\* The process stops between any two steps of a call.
Crash ==
  /\ Restart
  /\ transfers' = {} /\ patient' = FALSE
  /\ UNCHANGED <<bytes, editor, removed>>

\* Everything else the data layer does.
Otherwise ==
  /\ \/ \E u \in Users : SignIn(u)
     \/ \E actor \in sessions :
          \/ EndSession(actor) \/ markNotificationsRead(actor)
          \/ \E content \in Contents : createDraft(actor, content)
          \/ \E id \in DOMAIN requests :
               \/ \E content \in Contents : updateDraft(actor, id, content)
               \/ deleteDraft(actor, id) \/ submitRequest(actor, id)
          \/ ReviewerStep(actor)
  /\ patient' = (patient /\ (editor.open => editor.id \in {0} \cup DOMAIN requests'))
  /\ UNCHANGED <<bytes, transfers, editor, removed>>

UNext ==
  \/ Otherwise \/ Crash \/ create \/ closeEditor
  \/ \E actor \in sessions, id \in Ids : elsewhere(actor, id)
  \/ \E actor \in author :
       \/ \E id \in DOMAIN requests : resume(actor, id)
       \/ \E content \in Contents : firstSave(actor, content)
       \/ \E n \in 1..2 : attachFiles(actor, n)
       \/ \E f \in editor.zone : detachFile(actor, f)
  \/ \E t \in transfers :
       \/ store(t) \/ attach(t) \/ detach(t) \/ unlink(t) \/ list(t)
       \/ answered(t) \/ fail(t)

USpec == UInit /\ [][UNext]_uvars

-----------------------------------------------------------------------------
(* Properties.                                                             *)

\* Every variable stays in its type, and however many uploads are under way
\* at once, no request holds more files than the limit.
UploadsTypeOK ==
  /\ bytes \subseteq Ids \X Files \X Users
  /\ transfers \subseteq Transfer /\ Cardinality(transfers) <= MaxTransfers
  /\ editor \in [open : BOOLEAN, id : 0..MaxPrf, zone : SUBSET Files]
  /\ \A id \in DOMAIN requests : Cardinality(requests[id].attachments) <= MaxAttachments

\* uploads.ts, route.ts: the bytes are written before the record and removed
\* after it, so a record never points at nothing, whatever fails in between
\* and whoever uses its number next; and what it points at was sent by the
\* person whose request it is.
FilesAreTheOwners ==
  \A id \in DOMAIN requests : \A f \in requests[id].attachments :
    <<id, f, requests[id].ownerId>> \in bytes

\* A removal that was confirmed leaves nothing on disk and no record, then
\* or later: no upload or edit under way brings the file back.
RemovedIsGone ==
  \A f \in removed : /\ \A b \in bytes : b[2] # f
                     /\ \A id \in DOMAIN requests : f \notin requests[id].attachments

\* With nothing failed and nobody interfering, an editor whose calls have
\* been answered shows the files of the request it holds.
ZoneShowsTheRecord ==
  patient /\ editor.open /\ InPage = {} =>
    editor.zone = IF editor.id = 0 THEN {} ELSE requests[editor.id].attachments
=============================================================================
