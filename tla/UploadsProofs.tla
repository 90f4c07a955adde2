---------------------------- MODULE UploadsProofs ----------------------------
(***************************************************************************)
(* Proofs about uploaded files: the bytes on disk, the records that point  *)
(* at them, and the calls that keep the two in step without a transaction  *)
(* round both, for any number of calls under way.                          *)
(***************************************************************************)
EXTENDS Uploads, PrfStoreProofs

-----------------------------------------------------------------------------
(* The invariant.                                                          *)

CallsFit ==
  transfers \subseteq Transfer /\ IsFiniteSet(transfers) /\ Cardinality(transfers) <= MaxTransfers

EditorType == [open : BOOLEAN, id : 0..MaxPrf, zone : SUBSET Files]

FewFiles ==
  \A id \in DOMAIN requests : /\ IsFiniteSet(requests[id].attachments)
                              /\ Cardinality(requests[id].attachments) <= MaxAttachments

UTypes ==
  /\ bytes \subseteq Ids \X Files \X Users
  /\ CallsFit /\ editor \in EditorType /\ FewFiles

\* An upload whose bytes are on disk and whose record is not made yet.
Stored(t) == t.kind = "upload" /\ t.stage = "stored"

AttachedNowhere(f) == \A id \in DOMAIN requests : f \notin requests[id].attachments

InNoUpload(f) == \A t \in transfers : Stored(t) => f \notin t.file

\* A call to remove is about one file, and is made once.
OneFile(t) == t.kind = "remove" => t.left = 0 /\ \E f \in Files : t.file = {f}

\* What is stored is on disk, was never removed, and no record has it yet.
StoredSafe(t) ==
  Stored(t) => \A f \in t.file : /\ <<t.id, f, t.by.userId>> \in bytes
                                 /\ f \notin removed /\ AttachedNowhere(f)

\* What is detached is on no record and in no upload, and all there is of it
\* on disk is in the directory the call is about to look in.
DetachedSafe(t) ==
  t.kind = "remove" /\ t.stage = "detached" =>
    \A f \in t.file : /\ AttachedNowhere(f) /\ InNoUpload(f)
                      /\ \A b \in bytes : b[2] = f => b[1] = t.id

OnDiskOnce == \A b, c \in bytes : b[2] = c[2] => b = c

FileInv ==
  /\ FilesAreTheOwners /\ RemovedIsGone /\ OnDiskOnce
  /\ \A t \in transfers : OneFile(t) /\ StoredSafe(t) /\ DetachedSafe(t)
  /\ \A t, u \in transfers : Stored(t) /\ Stored(u) /\ t # u => t.file \cap u.file = {}

UInv == StoreInv /\ UTypes /\ FileInv

-----------------------------------------------------------------------------
(* What the steps of the data layer do to the attachments.                 *)

\* No record gains a file, and a record that has files keeps its owner.
NoNewFiles ==
  \A id \in DOMAIN requests' : \A f \in requests'[id].attachments :
    /\ id \in DOMAIN requests /\ f \in requests[id].attachments
    /\ requests'[id].ownerId = requests[id].ownerId

\* Every record keeps its files and its owner, and a new one has none.
SameFiles ==
  \A id \in DOMAIN requests' :
    IF id \in DOMAIN requests
    THEN /\ requests'[id].attachments = requests[id].attachments
         /\ requests'[id].ownerId = requests[id].ownerId
    ELSE requests'[id].attachments = {}

\* Such a step names no file.
LEMMA SameAreNotNew == SameFiles => NoNewFiles
BY DEF SameFiles, NoNewFiles

\* Putting back a record with the files it had.
LEMMA PutSameFiles ==
  ASSUME NEW id \in DOMAIN requests, NEW q, Put(id, q),
         q.ownerId = requests[id].ownerId, q.attachments = requests[id].attachments
  PROVE  SameFiles
BY PutChanges DEF SameFiles

\* A new draft has none.
LEMMA CreateSameFiles ==
  ASSUME NEW actor, NEW content, createDraft(actor, content)
  PROVE  SameFiles
<1>. DEFINE d == NewDraft(actor, content)
<1>1. d.attachments = {}
  BY DEF NewDraft
<1>. HIDE DEF d
<1>2. PICK id \in 1..MaxPrf :
        /\ nextPrfNumber(id)
        /\ requests' = [other \in DOMAIN requests \cup {id} |-> IF other = id THEN d ELSE requests[other]]
  BY DEF createDraft, d
<1>3. id \notin DOMAIN requests
  BY <1>2, StoreAssumption DEF nextPrfNumber
<1>. QED
  BY <1>1, <1>2, <1>3 DEF SameFiles

\* Saving, deleting, submitting and deciding touch no attachment.
LEMMA RestSameFiles ==
  ASSUME StoreInv, NEW actor, NEW id \in DOMAIN requests,
         \/ \E content \in Contents : updateDraft(actor, id, content)
         \/ deleteDraft(actor, id) \/ submitRequest(actor, id)
         \/ decideApprove(actor, id) \/ decideReject(actor, id)
         \/ financeApprove(actor, id) \/ financeReject(actor, id)
  PROVE  SameFiles
<1>. DEFINE r == requests[id]
<1>1. r \in Request
  BY DEF StoreInv, RecordsGood
<1>2. ASSUME NEW content \in Contents, updateDraft(actor, id, content)
      PROVE  SameFiles
  <2>. DEFINE q == [[r EXCEPT !.content = content] EXCEPT !.audit = Append(@, auditEntry(actor, "Draft saved"))]
  <2>1. Put(id, q)
    BY <1>2 DEF updateDraft, Edit
  <2>2. q.ownerId = r.ownerId /\ q.attachments = r.attachments
    BY <1>1 DEF Request
  <2>. HIDE DEF q
  <2>. QED
    BY <2>1, <2>2, PutSameFiles
<1>3. CASE deleteDraft(actor, id)
  BY <1>3 DEF deleteDraft, SameFiles
<1>4. CASE submitRequest(actor, id)
  <2>. DEFINE q == Submitted(r, actor)
  <2>1. Put(id, q)
    BY <1>4 DEF submitRequest
  <2>2. q.ownerId = r.ownerId /\ q.attachments = r.attachments
    BY <1>1 DEF Request, Submitted
  <2>. HIDE DEF q
  <2>. QED
    BY <2>1, <2>2, PutSameFiles
<1>5. CASE decideApprove(actor, id)
  <2>. DEFINE q == Signed(r, actor)
  <2>1. Put(id, q)
    BY <1>5 DEF decideApprove
  <2>2. q.ownerId = r.ownerId /\ q.attachments = r.attachments
    BY <1>1 DEF Request, Signed
  <2>. HIDE DEF q
  <2>. QED
    BY <2>1, <2>2, PutSameFiles
<1>6. CASE financeApprove(actor, id)
  <2>. DEFINE q == Cleared(r, actor)
  <2>1. Put(id, q)
    BY <1>6 DEF financeApprove
  <2>2. q.ownerId = r.ownerId /\ q.attachments = r.attachments
    BY <1>1 DEF Request, Cleared
  <2>. HIDE DEF q
  <2>. QED
    BY <2>1, <2>2, PutSameFiles
<1>7. CASE decideReject(actor, id) \/ financeReject(actor, id)
  <2>. DEFINE q(action) == returnToRequester(r, actor, action)
  <2>1. PICK action : Put(id, q(action))
    BY <1>7 DEF decideReject, financeReject
  <2>2. q(action).ownerId = r.ownerId /\ q(action).attachments = r.attachments
    BY <1>1 DEF Request, returnToRequester
  <2>. HIDE DEF q
  <2>. QED
    BY <2>1, <2>2, PutSameFiles
<1>. QED
  BY <1>2, <1>3, <1>4, <1>5, <1>6, <1>7

\* A step that leaves the requests alone names no file that was not named.
LEMMA SameNoNewFiles ==
  ASSUME requests' = requests
  PROVE  NoNewFiles
BY DEF NoNewFiles

-----------------------------------------------------------------------------
(* The calls under way.                                                    *)

\* Replacing one call by another, or by none, keeps within the bound.
LEMMA LeaveType ==
  ASSUME UTypes, NEW t \in transfers, NEW to, Leave(t, to),
         to = {} \/ \E u \in Transfer : to = {u}
  PROVE  CallsFit'
<1>. DEFINE rest == transfers \ {t}
<1>1. /\ transfers \subseteq Transfer /\ IsFiniteSet(transfers)
      /\ Cardinality(transfers) <= MaxTransfers /\ MaxTransfers \in Nat
      /\ transfers' = rest \cup to
  BY UploadsAssumption DEF UTypes, CallsFit, Leave
<1>2. Cardinality(transfers) \in Nat
  BY <1>1, FS_CardinalityType
<1>3. IsFiniteSet(rest) /\ Cardinality(rest) = Cardinality(transfers) - 1
  BY <1>1, FS_RemoveElement
<1>. HIDE DEF rest
<1>4. CASE to = {}
  <2>1. transfers' = rest
    BY <1>1, <1>4
  <2>. QED
    BY <1>1, <1>2, <1>3, <2>1 DEF rest, CallsFit
<1>5. ASSUME NEW u \in Transfer, to = {u}
      PROVE  CallsFit'
  <2>1. transfers' = rest \cup {u}
    BY <1>1, <1>5
  <2>2. /\ IsFiniteSet(rest \cup {u})
        /\ Cardinality(rest \cup {u}) = IF u \in rest THEN Cardinality(rest) ELSE Cardinality(rest) + 1
    BY <1>3, FS_AddElement
  <2>3. Cardinality(rest \cup {u}) <= MaxTransfers
    BY <1>1, <1>2, <1>3, <2>2
  <2>4. rest \cup {u} \subseteq Transfer
    BY <1>1 DEF rest
  <2>. QED
    BY <2>1, <2>2, <2>3, <2>4 DEF CallsFit
<1>. QED
  BY <1>4, <1>5

\* So does a new one.
LEMMA CallType ==
  ASSUME UTypes, NEW kind \in {"upload", "remove", "list"}, NEW actor \in Actor, NEW id \in Ids,
         NEW file \in SUBSET Files, NEW page \in BOOLEAN, NEW left \in 0..1,
         Call(kind, actor, id, file, page, left)
  PROVE  CallsFit'
<1>. DEFINE u == [kind |-> kind, by |-> actor, id |-> id, file |-> file,
                  page |-> page, left |-> left, stage |-> "received"]
<1>1. /\ transfers \subseteq Transfer /\ IsFiniteSet(transfers)
      /\ Cardinality(transfers) < MaxTransfers /\ MaxTransfers \in Nat
      /\ transfers' = transfers \cup {u}
  BY UploadsAssumption DEF UTypes, CallsFit, Call
<1>2. u \in Transfer
  BY DEF Transfer
<1>. HIDE DEF u
<1>3. Cardinality(transfers) \in Nat
  BY <1>1, FS_CardinalityType
<1>4. /\ IsFiniteSet(transfers \cup {u})
      /\ Cardinality(transfers \cup {u})
         = IF u \in transfers THEN Cardinality(transfers) ELSE Cardinality(transfers) + 1
  BY <1>1, FS_AddElement
<1>5. Cardinality(transfers \cup {u}) <= MaxTransfers
  BY <1>1, <1>3, <1>4
<1>. QED
  BY <1>1, <1>2, <1>4, <1>5 DEF CallsFit

\* A call that is neither stored nor detached endangers no file.
Harmless(t) == OneFile(t) /\ ~Stored(t) /\ t.stage # "detached"

\* A step that brings no file to a record, writes and removes nothing, and
\* only makes, answers or drops calls keeps every file where it belongs.
LEMMA QuietKeepsFiles ==
  ASSUME FileInv, NoNewFiles, bytes' = bytes, removed' = removed,
         \A t \in transfers' : t \in transfers \/ Harmless(t)
  PROVE  FileInv'
<1>1. FilesAreTheOwners'
  BY DEF FileInv, FilesAreTheOwners, NoNewFiles
<1>2. \A f : AttachedNowhere(f) => AttachedNowhere(f)'
  BY DEF AttachedNowhere, NoNewFiles
<1>3. RemovedIsGone'
  BY <1>2 DEF FileInv, RemovedIsGone, AttachedNowhere
<1>4. OnDiskOnce'
  BY DEF FileInv, OnDiskOnce
<1>5. \A f : InNoUpload(f) => InNoUpload(f)'
  BY DEF InNoUpload, Harmless
<1>6. ASSUME NEW t \in transfers'
      PROVE  OneFile(t) /\ StoredSafe(t)' /\ DetachedSafe(t)'
  <2>1. CASE t \in transfers
    BY <1>2, <1>5, <2>1 DEF FileInv, StoredSafe, DetachedSafe
  <2>2. CASE Harmless(t)
    BY <2>2 DEF Harmless, StoredSafe, DetachedSafe
  <2>. QED
    BY <2>1, <2>2
<1>7. \A t, u \in transfers' : Stored(t) /\ Stored(u) /\ t # u => t.file \cap u.file = {}
  BY DEF FileInv, Harmless
<1>. QED
  BY <1>1, <1>3, <1>4, <1>6, <1>7 DEF FileInv

-----------------------------------------------------------------------------
(* The five steps that are not quiet.                                      *)

\* A call that moves on changes its stage and its files, nothing else.
LEMMA MovedOn ==
  ASSUME NEW t \in Transfer, NEW stage \in {"received", "stored", "detached", "answered"},
         NEW file \in SUBSET Files
  PROVE  LET u == At2(t, stage, file)
         IN  /\ u \in Transfer /\ u.stage = stage /\ u.file = file
             /\ u.kind = t.kind /\ u.id = t.id /\ u.by = t.by /\ u.left = t.left
BY DEF At2, Transfer

\* What attachToRequest and detachFromRequest do to a record.
LEMMA FileEditShape ==
  ASSUME StoreInv, NEW actor, NEW id \in DOMAIN requests, NEW f,
         attachToRequest(actor, id, f) \/ detachFromRequest(actor, id, f)
  PROVE  /\ requests[id].ownerId = actor.userId
         /\ DOMAIN requests' = DOMAIN requests
         /\ requests'[id].ownerId = requests[id].ownerId
         /\ requests'[id].attachments = IF f \in requests[id].attachments
                                        THEN requests[id].attachments \ {f}
                                        ELSE requests[id].attachments \cup {f}
         /\ \A other \in DOMAIN requests : other # id => requests'[other] = requests[other]
<1>. DEFINE r == requests[id]
            e(action) == auditEntry(actor, action)
            more == [[r EXCEPT !.attachments = @ \cup {f}] EXCEPT !.audit = Append(@, e("Attached"))]
            less == [[r EXCEPT !.attachments = @ \ {f}] EXCEPT !.audit = Append(@, e("Removed"))]
<1>1. r \in Request
  BY DEF StoreInv, RecordsGood
<1>2. /\ more.ownerId = r.ownerId /\ more.attachments = r.attachments \cup {f}
      /\ less.ownerId = r.ownerId /\ less.attachments = r.attachments \ {f}
  BY <1>1 DEF Request
<1>3. /\ r.ownerId = actor.userId
      /\ \/ f \notin r.attachments /\ Put(id, more)
         \/ f \in r.attachments /\ Put(id, less)
  BY DEF attachToRequest, detachFromRequest, Edit
<1>. HIDE DEF more, less
<1>. QED
  BY <1>2, <1>3, PutChanges

\* The bytes of a file nobody has heard of are stored: the upload may make
\* its record next.
LEMMA StoreKeepsFiles ==
  ASSUME StoreInv, UTypes, FileInv, NEW t \in transfers, store(t)
  PROVE  FileInv'
<1>1. PICK f \in Files : /\ Unused(f)
                         /\ bytes' = bytes \cup {<<t.id, f, t.by.userId>>}
                         /\ transfers' = (transfers \ {t}) \cup {At2(t, "stored", {f})}
  BY DEF store, writeAttachment, Leave
<1>. DEFINE u == At2(t, "stored", {f})
            b == <<t.id, f, t.by.userId>>
<1>2. /\ requests' = requests /\ removed' = removed /\ t.kind = "upload"
      /\ t \in Transfer
  BY DEF store, vars, UTypes, CallsFit
<1>3. /\ u.stage = "stored" /\ u.file = {f} /\ u.kind = "upload" /\ u.id = t.id /\ u.by = t.by
  BY <1>2, MovedOn
<1>4. /\ \A c \in bytes : c[2] # f
      /\ \A v \in transfers : f \notin v.file
      /\ AttachedNowhere(f) /\ f \notin removed /\ b[1] = t.id /\ b[2] = f
  BY <1>1 DEF Unused, AttachedNowhere
<1>5. bytes' = bytes \cup {b} /\ transfers' = (transfers \ {t}) \cup {u}
  BY <1>1
<1>a. b = <<u.id, f, u.by.userId>>
  BY <1>3
<1>. HIDE DEF u, b
<1>6. FilesAreTheOwners'
  BY <1>2, <1>5 DEF FileInv, FilesAreTheOwners
<1>7. RemovedIsGone'
  BY <1>2, <1>4, <1>5 DEF FileInv, RemovedIsGone
<1>8. OnDiskOnce'
  BY <1>4, <1>5 DEF FileInv, OnDiskOnce
<1>9. \A g : AttachedNowhere(g) => AttachedNowhere(g)'
  BY <1>2 DEF AttachedNowhere
<1>10. \A g : g # f /\ InNoUpload(g) => InNoUpload(g)'
  BY <1>3, <1>5 DEF InNoUpload
<1>11. ASSUME NEW v \in transfers'
       PROVE  OneFile(v) /\ StoredSafe(v)' /\ DetachedSafe(v)'
  <2>1. CASE v = u
    <3>1. <<u.id, f, u.by.userId>> \in bytes'
      BY <1>5, <1>a
    <3>2. f \notin removed' /\ AttachedNowhere(f)'
      BY <1>2, <1>4, <1>9
    <3>. QED
      BY <1>3, <2>1, <3>1, <3>2 DEF OneFile, StoredSafe, DetachedSafe
  <2>2. CASE v \in transfers
    <3>1. OneFile(v) /\ StoredSafe(v) /\ DetachedSafe(v) /\ f \notin v.file
      BY <1>4, <2>2 DEF FileInv
    <3>2. StoredSafe(v)'
      BY <1>2, <1>5, <1>9, <3>1 DEF StoredSafe
    <3>3. DetachedSafe(v)'
      BY <1>4, <1>5, <1>9, <1>10, <3>1 DEF DetachedSafe
    <3>. QED
      BY <3>1, <3>2, <3>3
  <2>. QED
    BY <1>5, <2>1, <2>2
<1>12. \A v, w \in transfers' : Stored(v) /\ Stored(w) /\ v # w => v.file \cap w.file = {}
  BY <1>3, <1>4, <1>5 DEF FileInv
<1>. QED
  BY <1>6, <1>7, <1>8, <1>11, <1>12 DEF FileInv

\* A stored file joins the record it was sent to, and that record only.
LEMMA AttachKeepsFiles ==
  ASSUME StoreInv, UTypes, FileInv, NEW t \in transfers, attach(t)
  PROVE  FileInv'
<1>1. /\ Stored(t) /\ t.id \in DOMAIN requests /\ bytes' = bytes /\ removed' = removed
      /\ t \in Transfer /\ transfers \subseteq Transfer
  BY DEF attach, Stored, UTypes, CallsFit
<1>2. PICK f \in t.file : attachToRequest(t.by, t.id, f)
  BY DEF attach
<1>. DEFINE r == requests[t.id]
            u == At2(t, "answered", requests'[t.id].attachments)
<1>3. /\ <<t.id, f, t.by.userId>> \in bytes /\ f \notin removed /\ AttachedNowhere(f)
  BY <1>1 DEF FileInv, StoredSafe
<1>4. /\ r.ownerId = t.by.userId
      /\ DOMAIN requests' = DOMAIN requests
      /\ requests'[t.id].ownerId = r.ownerId
      /\ requests'[t.id].attachments = r.attachments \cup {f}
      /\ \A other \in DOMAIN requests : other # t.id => requests'[other] = requests[other]
  BY <1>1, <1>2, <1>3, FileEditShape DEF AttachedNowhere
<1>5. transfers' = (transfers \ {t}) \cup {u}
  BY DEF attach, Leave
<1>6. u.stage = "answered" /\ u.kind = "upload"
  BY <1>1 DEF Stored, At2, Transfer
<1>. HIDE DEF u, r
<1>7. FilesAreTheOwners'
  <2>1. ASSUME NEW id \in DOMAIN requests', NEW g \in requests'[id].attachments
        PROVE  <<id, g, requests'[id].ownerId>> \in bytes
    <3>1. CASE id = t.id /\ g = f
      BY <1>3, <1>4, <3>1
    <3>2. CASE id # t.id \/ g # f
      <4>1. id \in DOMAIN requests /\ g \in requests[id].attachments
            /\ requests'[id].ownerId = requests[id].ownerId
        BY <1>4, <2>1, <3>2 DEF r
      <4>. QED
        BY <4>1 DEF FileInv, FilesAreTheOwners
    <3>. QED
      BY <3>1, <3>2
  <2>. QED
    BY <1>1, <2>1 DEF FilesAreTheOwners
<1>8. \A g : g # f /\ AttachedNowhere(g) => AttachedNowhere(g)'
  BY <1>4 DEF AttachedNowhere, r
<1>9. RemovedIsGone'
  BY <1>1, <1>3, <1>8 DEF FileInv, RemovedIsGone, AttachedNowhere
<1>10. OnDiskOnce'
  BY <1>1 DEF FileInv, OnDiskOnce
<1>11. \A g : InNoUpload(g) => InNoUpload(g)'
  BY <1>5, <1>6 DEF InNoUpload, Stored
<1>12. ASSUME NEW v \in transfers'
       PROVE  OneFile(v) /\ StoredSafe(v)' /\ DetachedSafe(v)'
  <2>1. CASE v = u
    BY <1>6, <2>1 DEF OneFile, StoredSafe, DetachedSafe, Stored
  <2>2. CASE v \in transfers /\ v # t
    <3>1. OneFile(v) /\ StoredSafe(v) /\ DetachedSafe(v)
      BY <2>2 DEF FileInv
    <3>2. StoredSafe(v)'
      <4>1. Stored(v) => f \notin v.file
        BY <1>1, <2>2 DEF FileInv
      <4>. QED
        BY <1>1, <1>8, <3>1, <4>1 DEF StoredSafe
    <3>3. DetachedSafe(v)'
      BY <1>1, <1>8, <1>11, <3>1 DEF DetachedSafe, InNoUpload
    <3>. QED
      BY <3>1, <3>2, <3>3
  <2>. QED
    BY <1>5, <2>1, <2>2
<1>13. \A v, w \in transfers' : Stored(v) /\ Stored(w) /\ v # w => v.file \cap w.file = {}
  BY <1>5, <1>6 DEF FileInv, Stored
<1>. QED
  BY <1>7, <1>9, <1>10, <1>12, <1>13 DEF FileInv

\* A file leaves the only record that had it.
LEMMA DetachKeepsFiles ==
  ASSUME StoreInv, UTypes, FileInv, NEW t \in transfers, detach(t)
  PROVE  FileInv' /\ NoNewFiles
<1>1. /\ t.kind = "remove" /\ t.id \in DOMAIN requests /\ bytes' = bytes /\ removed' = removed
      /\ t \in Transfer
  BY DEF detach, UTypes, CallsFit
<1>2. PICK f \in t.file : detachFromRequest(t.by, t.id, f)
  BY DEF detach
<1>. DEFINE r == requests[t.id]
            u == At2(t, "detached", t.file)
<1>3. f \in r.attachments /\ <<t.id, f, r.ownerId>> \in bytes
  BY <1>1, <1>2 DEF detachFromRequest, FileInv, FilesAreTheOwners
<1>4. /\ DOMAIN requests' = DOMAIN requests
      /\ requests'[t.id].ownerId = r.ownerId
      /\ requests'[t.id].attachments = r.attachments \ {f}
      /\ \A other \in DOMAIN requests : other # t.id => requests'[other] = requests[other]
  BY <1>1, <1>2, <1>3, FileEditShape
<1>5. transfers' = (transfers \ {t}) \cup {u}
  BY DEF detach, Leave
<1>6. t.file = {f} /\ t.left = 0
  BY <1>1, <1>2 DEF FileInv, OneFile
<1>7. u.stage = "detached" /\ u.kind = "remove" /\ u.file = {f} /\ u.id = t.id /\ u.left = 0
  BY <1>1, <1>6, MovedOn DEF Transfer
<1>. HIDE DEF u
<1>8. NoNewFiles
  BY <1>4 DEF NoNewFiles
<1>. HIDE DEF r
<1>9. FilesAreTheOwners' /\ OnDiskOnce'
  BY <1>1, <1>8 DEF FileInv, FilesAreTheOwners, NoNewFiles, OnDiskOnce
<1>10. \A g : AttachedNowhere(g) => AttachedNowhere(g)'
  BY <1>8 DEF AttachedNowhere, NoNewFiles
<1>11. RemovedIsGone'
  BY <1>1, <1>10 DEF FileInv, RemovedIsGone, AttachedNowhere
<1>12. \A g : InNoUpload(g) => InNoUpload(g)'
  BY <1>5, <1>7 DEF InNoUpload, Stored
<1>13. \A b \in bytes : b[2] = f => b[1] = t.id
  BY <1>3 DEF FileInv, OnDiskOnce
<1>14. AttachedNowhere(f)'
  <2>1. ASSUME NEW id \in DOMAIN requests, f \in requests[id].attachments
        PROVE  id = t.id
    <3>1. <<id, f, requests[id].ownerId>> \in bytes
      BY <2>1 DEF FileInv, FilesAreTheOwners
    <3>. QED
      BY <1>13, <3>1
  <2>. QED
    BY <1>4, <2>1 DEF AttachedNowhere
<1>15. InNoUpload(f)
  BY <1>1, <1>3 DEF InNoUpload, FileInv, StoredSafe, AttachedNowhere, r
<1>16. ASSUME NEW v \in transfers'
       PROVE  OneFile(v) /\ StoredSafe(v)' /\ DetachedSafe(v)'
  <2>1. CASE v = u
    <3>1. f \in Files
      BY <1>1, <1>6 DEF Transfer
    <3>. QED
      BY <1>1, <1>7, <1>12, <1>13, <1>14, <1>15, <2>1, <3>1 DEF OneFile, StoredSafe, DetachedSafe, Stored
  <2>2. CASE v \in transfers
    BY <1>1, <1>10, <1>12, <2>2 DEF FileInv, StoredSafe, DetachedSafe
  <2>. QED
    BY <1>5, <2>1, <2>2
<1>17. \A v, w \in transfers' : Stored(v) /\ Stored(w) /\ v # w => v.file \cap w.file = {}
  BY <1>5, <1>7 DEF FileInv, Stored
<1>. QED
  BY <1>8, <1>9, <1>11, <1>16, <1>17 DEF FileInv

\* The last of a detached file leaves the disk.
LEMMA UnlinkKeepsFiles ==
  ASSUME StoreInv, UTypes, FileInv, NEW t \in transfers, unlink(t)
  PROVE  FileInv'
<1>1. /\ t.kind = "remove" /\ t.stage = "detached" /\ requests' = requests
      /\ bytes' = {b \in bytes : ~(b[1] = t.id /\ b[2] \in t.file)}
      /\ removed' = removed \cup t.file /\ t \in Transfer
  BY DEF unlink, removeAttachment, vars, UTypes, CallsFit
<1>. DEFINE u == At2(t, "answered", t.file)
<1>2. transfers' = (transfers \ {t}) \cup {u}
  BY DEF unlink, Leave
<1>3. u.stage = "answered" /\ u.kind = "remove" /\ u.file = t.file /\ u.left = t.left
  BY <1>1, MovedOn DEF Transfer
<1>. HIDE DEF u
<1>4. \A f \in t.file : /\ AttachedNowhere(f) /\ InNoUpload(f)
                        /\ \A b \in bytes : b[2] = f => b[1] = t.id
  BY <1>1 DEF FileInv, DetachedSafe
<1>5. bytes' \subseteq bytes /\ \A b \in bytes : b[2] \notin t.file => b \in bytes'
  BY <1>1
<1>6. \A g : /\ AttachedNowhere(g) => AttachedNowhere(g)'
             /\ InNoUpload(g) => InNoUpload(g)'
  BY <1>1, <1>2, <1>3 DEF AttachedNowhere, InNoUpload, Stored
<1>7. FilesAreTheOwners'
  <2>1. ASSUME NEW id \in DOMAIN requests, NEW f \in requests[id].attachments
        PROVE  <<id, f, requests[id].ownerId>> \in bytes'
    <3>1. <<id, f, requests[id].ownerId>> \in bytes /\ f \notin t.file
      BY <1>4, <2>1 DEF FileInv, FilesAreTheOwners, AttachedNowhere
    <3>. QED
      BY <1>5, <3>1
  <2>. QED
    BY <1>1, <2>1 DEF FilesAreTheOwners
<1>8. RemovedIsGone'
  <2>1. \A f \in t.file : \A b \in bytes' : b[2] # f
    BY <1>1, <1>4
  <2>. QED
    BY <1>1, <1>4, <1>5, <2>1 DEF FileInv, RemovedIsGone, AttachedNowhere
<1>9. OnDiskOnce'
  BY <1>5 DEF FileInv, OnDiskOnce
<1>10. ASSUME NEW v \in transfers'
       PROVE  OneFile(v) /\ StoredSafe(v)' /\ DetachedSafe(v)'
  <2>1. CASE v = u
    <3>1. OneFile(t)
      BY DEF FileInv
    <3>. QED
      BY <1>1, <1>3, <2>1, <3>1 DEF OneFile, StoredSafe, DetachedSafe, Stored
  <2>2. CASE v \in transfers
    <3>1. OneFile(v) /\ StoredSafe(v) /\ DetachedSafe(v)
      BY <2>2 DEF FileInv
    <3>2. Stored(v) => v.file \cap t.file = {}
      BY <1>4, <2>2 DEF InNoUpload
    <3>3. StoredSafe(v)'
      <4>. SUFFICES ASSUME Stored(v), NEW f \in v.file
                    PROVE  <<v.id, f, v.by.userId>> \in bytes' /\ f \notin removed' /\ AttachedNowhere(f)'
        BY DEF StoredSafe
      <4>1. <<v.id, f, v.by.userId>> \in bytes /\ f \notin removed /\ AttachedNowhere(f) /\ f \notin t.file
        BY <3>1, <3>2 DEF StoredSafe
      <4>. QED
        BY <1>1, <1>5, <1>6, <4>1
    <3>4. DetachedSafe(v)'
      BY <1>5, <1>6, <3>1 DEF DetachedSafe
    <3>. QED
      BY <3>1, <3>3, <3>4
  <2>. QED
    BY <1>2, <2>1, <2>2
<1>11. \A v, w \in transfers' : Stored(v) /\ Stored(w) /\ v # w => v.file \cap w.file = {}
  BY <1>2, <1>3 DEF FileInv, Stored
<1>. QED
  BY <1>7, <1>8, <1>9, <1>10, <1>11 DEF FileInv

-----------------------------------------------------------------------------
(* What a step is to the data layer.                                       *)

\* The steps that have nothing to do with the data layer.
Idle ==
  \/ create \/ closeEditor
  \/ \E actor \in sessions, id \in Ids : elsewhere(actor, id)
  \/ \E actor \in author :
       \/ \E id \in DOMAIN requests : resume(actor, id)
       \/ \E n \in 1..2 : attachFiles(actor, n)
       \/ \E f \in editor.zone : detachFile(actor, f)
  \/ \E t \in transfers : store(t) \/ unlink(t) \/ list(t) \/ answered(t) \/ fail(t)

\* A step of the transfers or of the page alone is none of the store.
LEMMA IdleLeavesTheStore == Idle => UNCHANGED vars
BY DEF Idle, create, closeEditor, elsewhere, resume, attachFiles, detachFile, store, unlink, list, answered,
       fail

\* What is none of those is a step on behalf of somebody who has, or had
\* when the call began, a session.
LEMMA UStepIsStoreStep == UInv /\ [UNext]_uvars => StepOf(Actor)
<1>. SUFFICES ASSUME UInv, [UNext]_uvars  PROVE StepOf(Actor)
  OBVIOUS
<1>1. /\ sessions \subseteq Actor /\ author \subseteq Actor
      /\ \A t \in transfers : t.by \in Actor /\ t.file \subseteq Files
  BY DEF UInv, StoreInv, UTypes, CallsFit, Transfer, author
<1>2. CASE Otherwise
  <2>1. CASE \/ \E u \in Users : SignIn(u)
             \/ \E actor \in sessions : EndSession(actor) \/ markNotificationsRead(actor)
    BY <2>1 DEF StepOf, AccountStep
  <2>2. ASSUME NEW actor \in sessions,
               \/ \E content \in Contents : createDraft(actor, content)
               \/ \E id \in DOMAIN requests :
                    \/ \E content \in Contents : updateDraft(actor, id, content)
                    \/ deleteDraft(actor, id) \/ submitRequest(actor, id)
               \/ ReviewerStep(actor)
        PROVE  StepOf(Actor)
    <3>1. RequesterStep(actor) \/ ReviewerStep(actor)
      BY <2>2 DEF RequesterStep
    <3>. QED
      BY <1>1, <3>1 DEF StepOf
  <2>. QED
    BY <1>2, <2>1, <2>2 DEF Otherwise
<1>3. CASE Crash
  BY <1>3 DEF Crash, StepOf, AccountStep
<1>4. ASSUME NEW actor \in author, NEW content \in Contents, firstSave(actor, content)
      PROVE  StepOf(Actor)
  BY <1>1, <1>4 DEF firstSave, StepOf, RequesterStep
<1>5. ASSUME NEW t \in transfers, attach(t) \/ detach(t)
      PROVE  StepOf(Actor)
  BY <1>1, <1>5 DEF attach, detach, StepOf, RequesterStep
<1>6. CASE Idle \/ UNCHANGED uvars
  BY <1>6, IdleLeavesTheStore DEF uvars, vars, StepOf
<1>. QED
  BY <1>2, <1>3, <1>4, <1>5, <1>6 DEF UNext, Idle

-----------------------------------------------------------------------------
(* Types.                                                                  *)

\* A record that gains no file keeps within the limit.
LEMMA FewFilesStay == FewFiles /\ NoNewFiles => FewFiles'
<1>. SUFFICES ASSUME FewFiles, NoNewFiles, NEW id \in DOMAIN requests'
              PROVE  /\ IsFiniteSet(requests'[id].attachments)
                     /\ Cardinality(requests'[id].attachments) <= MaxAttachments
  BY DEF FewFiles
<1>. DEFINE new == requests'[id].attachments
<1>1. CASE new = {}
  BY <1>1, FS_EmptySet, StoreAssumption
<1>2. CASE new # {}
  <2>. DEFINE old == requests[id].attachments
  <2>1. id \in DOMAIN requests /\ new \subseteq old
    BY <1>2 DEF NoNewFiles
  <2>2. IsFiniteSet(old) /\ Cardinality(old) <= MaxAttachments
    BY <2>1 DEF FewFiles
  <2>. HIDE DEF new, old
  <2>3. IsFiniteSet(new) /\ Cardinality(new) <= Cardinality(old)
    BY <2>1, <2>2, FS_Subset
  <2>4. Cardinality(new) \in Nat /\ Cardinality(old) \in Nat /\ MaxAttachments \in Nat
    BY <2>2, <2>3, FS_CardinalityType, StoreAssumption
  <2>. QED
    BY <2>2, <2>3, <2>4 DEF new
<1>. QED
  BY <1>1, <1>2

\* The limit is checked where the record is made, so it holds however many
\* uploads wait.
LEMMA AttachWithinLimit ==
  ASSUME StoreInv, FewFiles, NEW actor, NEW id \in DOMAIN requests, NEW f, attachToRequest(actor, id, f)
  PROVE  FewFiles'
<1>. DEFINE old == requests[id].attachments
<1>1. /\ DOMAIN requests' = DOMAIN requests
      /\ requests'[id].attachments = old \cup {f}
      /\ \A other \in DOMAIN requests : other # id => requests'[other] = requests[other]
  BY FileEditShape DEF attachToRequest
<1>2. IsFiniteSet(old) /\ Cardinality(old) < MaxAttachments /\ f \notin old
  BY DEF FewFiles, attachToRequest
<1>. HIDE DEF old
<1>3. /\ IsFiniteSet(old \cup {f}) /\ Cardinality(old \cup {f}) = Cardinality(old) + 1
      /\ Cardinality(old) \in Nat /\ MaxAttachments \in Nat
  BY <1>2, FS_AddElement, FS_CardinalityType, StoreAssumption
<1>4. Cardinality(old \cup {f}) <= MaxAttachments
  BY <1>2, <1>3
<1>. QED
  BY <1>1, <1>3, <1>4 DEF FewFiles

\* The highest number of a store that has one.
LEMMA HighestNumber ==
  ASSUME NEW S \in SUBSET (1..MaxPrf), S # {}
  PROVE  Max(S) \in S
<1>1. \E m \in S : \A i \in S : i <= m
  BY GreatestExists, StoreAssumption
<1>2. \A i, m \in S : i <= m <=> m >= i
  BY StoreAssumption
<1>3. \E m \in S : \A i \in S : m >= i
  BY <1>1, <1>2
<1>. QED
  BY <1>3 DEF Max

\* What the data layer does on its own changes the files of no record.
LEMMA OtherwiseSameFiles ==
  ASSUME StoreInv, \/ Otherwise \/ Restart
                   \/ \E actor, content : createDraft(actor, content)
  PROVE  SameFiles /\ NoNewFiles
<1>1. CASE requests' = requests
  BY <1>1, SameNoNewFiles DEF SameFiles
<1>2. ASSUME NEW actor, NEW content, createDraft(actor, content)  PROVE SameFiles
  BY <1>2, CreateSameFiles
<1>3. ASSUME NEW actor, NEW id \in DOMAIN requests,
             \/ \E content \in Contents : updateDraft(actor, id, content)
             \/ deleteDraft(actor, id) \/ submitRequest(actor, id)
             \/ decideApprove(actor, id) \/ decideReject(actor, id)
             \/ financeApprove(actor, id) \/ financeReject(actor, id)
      PROVE  SameFiles
  BY <1>3, RestSameFiles
<1>. QED
  BY <1>1, <1>2, <1>3, SameAreNotNew DEF Otherwise, Restart, SignIn, EndSession, markNotificationsRead, ReviewerStep

-----------------------------------------------------------------------------
(* Every step keeps the invariant.                                         *)

\* A step that writes no bytes and removes none keeps the invariant if it
\* begins nothing but harmless transfers.
LEMMA QuietStep ==
  ASSUME UInv, StoreInv', NoNewFiles, CallsFit', editor' \in EditorType,
         bytes' = bytes, removed' = removed,
         \A t \in transfers' : t \in transfers \/ Harmless(t)
  PROVE  UInv'
BY QuietKeepsFiles, FewFilesStay DEF UInv, UTypes

\* Opening an editor.
LEMMA EditorOpens ==
  ASSUME NEW Numbers, NEW e \in [open : BOOLEAN, id : Numbers, zone : SUBSET Files],
         NEW id \in Numbers, NEW zone \in SUBSET Files
  PROVE  /\ [e EXCEPT !.open = TRUE, !.id = id] \in [open : BOOLEAN, id : Numbers, zone : SUBSET Files]
         /\ [e EXCEPT !.open = TRUE, !.id = id, !.zone = zone]
              \in [open : BOOLEAN, id : Numbers, zone : SUBSET Files]
OBVIOUS

\* Opening, closing and using the editor, and what its data layer does
\* meanwhile.
LEMMA OthersKeep ==
  ASSUME UInv, StoreInv',
         \/ Otherwise \/ Crash \/ create \/ closeEditor
         \/ \E actor \in author, content \in Contents : firstSave(actor, content)
  PROVE  UInv'
<1>1. /\ editor \in EditorType /\ CallsFit /\ StoreInv
      /\ DOMAIN requests' \subseteq 1..MaxPrf /\ MaxPrf \in Nat
  BY StoreAssumption DEF UInv, UTypes, StoreInv, RecordsGood
<1>2. CASE Otherwise
  <2>1. NoNewFiles /\ CallsFit'
    BY <1>1, <1>2, OtherwiseSameFiles DEF Otherwise, CallsFit
  <2>. QED
    BY <1>1, <1>2, <2>1, QuietStep DEF Otherwise
<1>3. CASE Crash
  <2>1. NoNewFiles
    BY <1>1, <1>3, OtherwiseSameFiles DEF Crash
  <2>2. CallsFit'
    <3>1. IsFiniteSet({}) /\ Cardinality({}) = 0
      BY FS_EmptySet
    <3>. QED
      BY <1>3, <3>1, UploadsAssumption DEF Crash, CallsFit
  <2>. QED
    BY <1>1, <1>3, <2>1, <2>2, QuietStep DEF Crash
<1>4. CASE create \/ closeEditor
  <2>1. NoNewFiles /\ CallsFit'
    BY <1>1, <1>4, SameNoNewFiles DEF create, closeEditor, vars, CallsFit
  <2>2. 0 \in 0..MaxPrf /\ {} \in SUBSET Files
    BY <1>1
  <2>3. CASE create
    <3>1. editor' = [editor EXCEPT !.open = TRUE, !.id = 0, !.zone = {}]
      BY <2>3 DEF create, startNew
    <3>2. editor' \in EditorType
      BY <1>1, <2>2, <3>1, EditorOpens DEF EditorType
    <3>. QED
      BY <2>1, <2>3, <3>2, QuietStep DEF create
  <2>4. CASE closeEditor
    <3>1. editor' \in EditorType
      BY <1>1, <2>4 DEF closeEditor, EditorType
    <3>. QED
      BY <2>1, <2>4, <3>1, QuietStep DEF closeEditor
  <2>. QED
    BY <1>4, <2>3, <2>4
<1>5. ASSUME NEW actor, NEW content, firstSave(actor, content)
      PROVE  UInv'
  <2>1. NoNewFiles /\ CallsFit'
    BY <1>1, <1>5, OtherwiseSameFiles DEF firstSave, CallsFit
  <2>2. DOMAIN requests' # {}
    BY <1>5 DEF firstSave, createDraft
  <2>3. Max(DOMAIN requests') \in 0..MaxPrf
    BY <1>1, <2>2, HighestNumber
  <2>4. editor' \in EditorType
    BY <1>1, <1>5, <2>3 DEF firstSave, EditorType
  <2>. QED
    BY <1>5, <2>1, <2>4, QuietStep DEF firstSave
<1>. QED
  BY <1>2, <1>3, <1>4, <1>5

\* A call is made.
LEMMA CallsKeep ==
  ASSUME UInv, StoreInv', requests' = requests, bytes' = bytes, removed' = removed,
         editor' \in EditorType,
         NEW kind \in {"upload", "remove", "list"}, NEW actor \in Actor, NEW id \in Ids,
         NEW file \in SUBSET Files, NEW page \in BOOLEAN, NEW left \in 0..1,
         Call(kind, actor, id, file, page, left),
         kind = "remove" => left = 0 /\ \E f \in Files : file = {f}
  PROVE  UInv'
<1>1. CallsFit'
  BY CallType DEF UInv
<1>2. \A t \in transfers' : t \in transfers \/ Harmless(t)
  BY DEF Call, Harmless, OneFile, Stored
<1>. QED
  BY <1>1, <1>2, SameNoNewFiles, QuietStep

\* The five calls.
LEMMA CallersKeep ==
  ASSUME UInv, StoreInv',
         \/ \E actor \in sessions, id \in Ids : elsewhere(actor, id)
         \/ \E actor \in author :
              \/ \E id \in DOMAIN requests : resume(actor, id)
              \/ \E n \in 1..2 : attachFiles(actor, n)
              \/ \E f \in editor.zone : detachFile(actor, f)
  PROVE  UInv'
<1>1. /\ editor \in EditorType /\ sessions \subseteq Actor /\ author \subseteq Actor
      /\ DOMAIN requests \subseteq 1..MaxPrf /\ MaxPrf \in Nat
      /\ \A id \in DOMAIN requests : requests[id].attachments \subseteq Files
  BY StoreAssumption DEF UInv, UTypes, StoreInv, RecordsGood, Request, author
<1>. DEFINE About(kind, file, left) == /\ kind \in {"upload", "remove", "list"}
                                       /\ file \in SUBSET Files /\ left \in 0..1
                                       /\ kind = "remove" => left = 0 /\ \E f \in Files : file = {f}
<1>a. ASSUME NEW kind, NEW actor \in Actor, NEW id \in Ids, NEW file, NEW page \in BOOLEAN, NEW left,
             About(kind, file, left), Call(kind, actor, id, file, page, left),
             requests' = requests, bytes' = bytes, removed' = removed, editor' \in EditorType
      PROVE  UInv'
  BY <1>a, CallsKeep, Zenon
<1>b. /\ About("list", {}, 0) /\ \A n \in 0..1 : About("upload", {}, n)
      /\ \A f \in Files : About("remove", {f}, 0)
      /\ 0 \in 0..1 /\ TRUE \in BOOLEAN /\ FALSE \in BOOLEAN
  OBVIOUS
<1>. HIDE DEF About
<1>2. ASSUME NEW actor \in sessions, NEW id \in Ids, elsewhere(actor, id)
      PROVE  UInv'
  <2>1. requests' = requests /\ bytes' = bytes /\ removed' = removed /\ editor' = editor
    BY <1>2 DEF elsewhere, vars
  <2>2. CASE Call("upload", actor, id, {}, FALSE, 0)
    BY <1>1, <2>1, <2>2, <1>a, <1>b
  <2>3. ASSUME NEW f \in Files, Call("remove", actor, id, {f}, FALSE, 0)
        PROVE  UInv'
    BY <1>1, <2>1, <2>3, <1>a, <1>b
  <2>. QED
    BY <1>1, <1>2, <2>2, <2>3 DEF elsewhere
<1>3. ASSUME NEW actor \in author, NEW id \in DOMAIN requests, resume(actor, id)
      PROVE  UInv'
  <2>1. /\ requests' = requests /\ bytes' = bytes /\ removed' = removed
        /\ Call("list", actor, id, {}, TRUE, 0)
        /\ editor' = [editor EXCEPT !.open = TRUE, !.id = id]
    BY <1>3 DEF resume, vars
  <2>2. id \in Ids /\ id \in 0..MaxPrf
    BY <1>1 DEF Ids
  <2>3. editor' \in EditorType
    BY <1>1, <2>1, <2>2, EditorOpens DEF EditorType
  <2>. QED
    BY <1>1, <2>1, <2>2, <2>3, <1>a, <1>b
<1>4. ASSUME NEW actor \in author, NEW n \in 1..2, attachFiles(actor, n)
      PROVE  UInv'
  <2>1. /\ requests' = requests /\ bytes' = bytes /\ removed' = removed /\ editor' = editor
        /\ Call("upload", actor, editor.id, {}, TRUE, n - 1)
    BY <1>4 DEF attachFiles, vars
  <2>a. n - 1 \in 0..1
    OBVIOUS
  <2>2. editor.id \in Ids
    BY <1>1, <1>4 DEF attachFiles, EditorType, Ids
  <2>. QED
    BY <1>1, <2>1, <2>2, <2>a, <1>a, <1>b
<1>5. ASSUME NEW actor \in author, NEW f \in editor.zone, detachFile(actor, f)
      PROVE  UInv'
  <2>1. /\ requests' = requests /\ bytes' = bytes /\ removed' = removed /\ editor' = editor
        /\ Call("remove", actor, editor.id, {f}, TRUE, 0)
    BY <1>5 DEF detachFile, vars
  <2>2. editor.id \in Ids /\ f \in Files
    BY <1>1, <1>5 DEF detachFile, EditorType, Ids
  <2>. QED
    BY <1>1, <2>1, <2>2, <1>a, <1>b
<1>. QED
  BY <1>2, <1>3, <1>4, <1>5

\* A call of the loop starts again.
LEMMA StartsAgain ==
  ASSUME NEW Who, NEW Numbers, NEW Counts, NEW n \in Counts,
         NEW t \in [kind : {"upload", "remove", "list"}, by : Who, id : Numbers, file : SUBSET Files,
                    page : BOOLEAN, left : Counts, stage : {"received", "stored", "detached", "answered"}]
  PROVE  LET u == [t EXCEPT !.stage = "received", !.file = {}, !.left = n]
         IN  /\ u \in [kind : {"upload", "remove", "list"}, by : Who, id : Numbers, file : SUBSET Files,
                       page : BOOLEAN, left : Counts,
                       stage : {"received", "stored", "detached", "answered"}]
             /\ u.stage = "received" /\ u.kind = t.kind
OBVIOUS

\* After an answer the call is over, or the loop sends its next file.
LEMMA SendNextType ==
  ASSUME UInv, NEW t \in transfers, sendNext(t)
  PROVE  CallsFit' /\ \A u \in transfers' : u \in transfers \/ Harmless(u)
<1>1. t \in Transfer /\ OneFile(t) /\ UTypes
  BY DEF UInv, UTypes, CallsFit, FileInv
<1>2. CASE t.left = 0
  <2>1. Leave(t, {})
    BY <1>2 DEF sendNext
  <2>. QED
    BY <1>1, <2>1, LeaveType DEF Leave
<1>3. CASE t.left # 0
  <2>. DEFINE u == [t EXCEPT !.stage = "received", !.file = {}, !.left = @ - 1]
  <2>1. Leave(t, {u})
    BY <1>3 DEF sendNext
  <2>2. t.left = 1 /\ t.kind # "remove"
    BY <1>1, <1>3 DEF OneFile, Transfer
  <2>3. u = [t EXCEPT !.stage = "received", !.file = {}, !.left = 0]
    BY <1>1, <2>2 DEF Transfer
  <2>. HIDE DEF u
  <2>a. 0 \in 0..1
    OBVIOUS
  <2>4. u \in Transfer /\ u.stage = "received" /\ u.kind = t.kind
    BY <1>1, <2>3, <2>a, StartsAgain DEF Transfer
  <2>5. Harmless(u)
    BY <2>2, <2>4 DEF Harmless, OneFile, Stored
  <2>. QED
    BY <1>1, <2>1, <2>4, <2>5, LeaveType DEF Leave
<1>. QED
  BY <1>2, <1>3

\* The calls that read, are answered or fail.
LEMMA AnswersKeep ==
  ASSUME UInv, StoreInv', NEW t \in transfers, list(t) \/ answered(t) \/ fail(t)
  PROVE  UInv'
<1>1. /\ t \in Transfer /\ UTypes /\ editor \in EditorType /\ OneFile(t)
      /\ \A id \in DOMAIN requests : requests[id].attachments \subseteq Files
  BY DEF UInv, UTypes, CallsFit, FileInv, StoreInv, RecordsGood, Request
<1>2. NoNewFiles
  BY SameNoNewFiles DEF list, answered, fail, vars
<1>3. bytes' = bytes /\ removed' = removed
  BY DEF list, answered, fail
<1>4. CASE list(t)
  <2>. DEFINE u == At2(t, "answered", requests[t.id].attachments)
  <2>1. Leave(t, {u}) /\ t.kind = "list" /\ t.id \in DOMAIN requests /\ editor' = editor
    BY <1>4 DEF list, locate
  <2>2. u \in Transfer /\ u.kind = "list" /\ u.stage = "answered"
    BY <1>1, <2>1, MovedOn
  <2>. HIDE DEF u
  <2>3. CallsFit' /\ \A v \in transfers' : v \in transfers \/ Harmless(v)
    BY <1>1, <2>1, <2>2, LeaveType DEF Leave, Harmless, OneFile, Stored
  <2>. QED
    BY <1>1, <1>2, <1>3, <2>1, <2>3, QuietStep
<1>5. CASE answered(t)
  <2>1. zoneAfter(t) \in SUBSET Files
    BY <1>1 DEF zoneAfter, EditorType, Transfer
  <2>2. editor' \in EditorType
    BY <1>1, <1>5, <2>1 DEF answered, EditorType
  <2>3. CallsFit' /\ \A v \in transfers' : v \in transfers \/ Harmless(v)
    BY <1>5, SendNextType DEF answered
  <2>. QED
    BY <1>2, <1>3, <2>2, <2>3, QuietStep
<1>6. CASE fail(t)
  <2>1. editor' \in EditorType
    BY <1>1, <1>6 DEF fail, EditorType
  <2>2. CallsFit' /\ \A v \in transfers' : v \in transfers \/ Harmless(v)
    <3>1. CASE sendNext(t)
      BY <3>1, SendNextType
    <3>2. CASE Leave(t, {})
      BY <1>1, <3>2, LeaveType DEF Leave
    <3>. QED
      BY <1>6, <3>1, <3>2 DEF fail
  <2>. QED
    BY <1>2, <1>3, <2>1, <2>2, QuietStep
<1>. QED
  BY <1>4, <1>5, <1>6

\* The calls that write.
LEMMA WritesKeep ==
  ASSUME UInv, StoreInv', NEW t \in transfers, store(t) \/ attach(t) \/ detach(t) \/ unlink(t)
  PROVE  UInv'
<1>1. /\ t \in Transfer /\ UTypes /\ StoreInv /\ FileInv /\ t.file \in SUBSET Files
      /\ bytes \subseteq Ids \X Files \X Users /\ editor \in EditorType /\ FewFiles
  BY DEF UInv, UTypes, CallsFit, Transfer
<1>2. FileInv'
  BY <1>1, StoreKeepsFiles, AttachKeepsFiles, DetachKeepsFiles, UnlinkKeepsFiles
<1>3. editor' \in EditorType
  BY <1>1 DEF store, attach, detach, unlink
<1>4. FewFiles'
  <2>1. CASE store(t) \/ unlink(t)
    BY <1>1, <2>1, SameNoNewFiles, FewFilesStay DEF store, unlink, vars
  <2>2. CASE attach(t)
    BY <1>1, <2>2, AttachWithinLimit DEF attach
  <2>3. CASE detach(t)
    BY <1>1, <2>3, DetachKeepsFiles, FewFilesStay
  <2>. QED
    BY <2>1, <2>2, <2>3
<1>5. bytes' \subseteq Ids \X Files \X Users
  <2>1. CASE store(t)
    <3>1. t.id \in Ids /\ t.by.userId \in Users
      BY <1>1 DEF Transfer, Actor
    <3>. QED
      BY <1>1, <2>1, <3>1 DEF store, writeAttachment
  <2>2. CASE unlink(t)
    BY <1>1, <2>2 DEF unlink, removeAttachment
  <2>. QED
    BY <1>1, <2>1, <2>2 DEF attach, detach
<1>6. CallsFit'
  <2>1. ASSUME NEW stage \in {"received", "stored", "detached", "answered"}, NEW file \in SUBSET Files,
               Leave(t, {At2(t, stage, file)})
        PROVE  CallsFit'
    <3>1. At2(t, stage, file) \in Transfer
      BY <1>1, MovedOn
    <3>. QED
      BY <1>1, <2>1, <3>1, LeaveType
  <2>2. CASE attach(t)
    <3>1. t.id \in DOMAIN requests'
      BY <1>1, <2>2, FileEditShape DEF attach
    <3>2. requests'[t.id].attachments \in SUBSET Files
      BY <3>1 DEF StoreInv, RecordsGood, Request
    <3>. QED
      BY <2>1, <2>2, <3>2 DEF attach
  <2>3. ASSUME NEW f \in Files, Leave(t, {At2(t, "stored", {f})})
        PROVE  CallsFit'
    BY <2>1, <2>3
  <2>4. CASE store(t)
    BY <2>3, <2>4 DEF store
  <2>5. CASE detach(t) \/ unlink(t)
    BY <1>1, <2>1, <2>5 DEF detach, unlink
  <2>. QED
    BY <2>2, <2>4, <2>5
<1>. QED
  BY <1>2, <1>3, <1>4, <1>5, <1>6 DEF UInv, UTypes

\* The invariant holds to begin with,
LEMMA UInitGood == UInit => UInv
<1>. SUFFICES ASSUME UInit  PROVE UInv
  OBVIOUS
<1>1. StoreInv /\ DOMAIN requests = {}
  BY InitGood DEF UInit, Init
<1>2. IsFiniteSet({}) /\ Cardinality({}) = 0
  BY FS_EmptySet
<1>3. UTypes
  BY <1>1, <1>2, UploadsAssumption, StoreAssumption DEF UInit, UTypes, CallsFit, EditorType, FewFiles
<1>4. FileInv
  BY <1>1 DEF UInit, FileInv, FilesAreTheOwners, RemovedIsGone, OnDiskOnce
<1>. QED
  BY <1>1, <1>3, <1>4 DEF UInv

\* and every step keeps it,
LEMMA UNextGood == UInv /\ [UNext]_uvars => UInv'
<1>. SUFFICES ASSUME UInv, [UNext]_uvars  PROVE UInv'
  OBVIOUS
<1>1. StoreInv'
  BY UStepIsStoreStep, StepGood DEF UInv
<1>2. CASE UNCHANGED uvars
  <2>1. UTypes'
    BY <1>2 DEF uvars, UInv, UTypes, CallsFit, FewFiles
  <2>2. FileInv'
    BY <1>2, SameNoNewFiles, QuietKeepsFiles DEF uvars, UInv
  <2>. QED
    BY <1>1, <2>1, <2>2 DEF UInv
<1>. QED
  BY <1>1, <1>2, OthersKeep, CallersKeep, AnswersKeep, WritesKeep DEF UNext

\* so the bytes on disk, the transfers under way and the records of files fit
\* together for ever, whatever is refused, lost or stopped in between (the
\* attachment routes and uploads.ts).
THEOREM UInvAlways == USpec => []UInv
BY UInitGood, UNextGood, PTL DEF USpec

-----------------------------------------------------------------------------
(* What the runs check.                                                    *)

\* No request ever holds more files than the limit, however many uploads
\* wait for their record at once.
THEOREM UploadsTypeCorrect == USpec => []UploadsTypeOK
<1>1. UInv => UploadsTypeOK
  BY DEF UInv, UTypes, CallsFit, EditorType, FewFiles, UploadsTypeOK
<1>. QED
  BY <1>1, UInvAlways, PTL

\* What a record points at is on disk, in its own directory, and was sent by
\* the record's owner.
THEOREM FilesAlwaysTheOwners == USpec => []FilesAreTheOwners
<1>1. UInv => FilesAreTheOwners
  BY DEF UInv, FileInv
<1>. QED
  BY <1>1, UInvAlways, PTL

\* A removal that was confirmed is never undone.
THEOREM RemovedStaysGone == USpec => []RemovedIsGone
<1>1. UInv => RemovedIsGone
  BY DEF UInv, FileInv
<1>. QED
  BY <1>1, UInvAlways, PTL

\* Calls that wait for a file, and are then made on behalf of somebody who
\* may have signed out since, change records as the data layer's own do.
THEOREM UploadsAreAudited == USpec => EveryChangeIsAudited
<1>1. UInv /\ [UNext]_uvars => [AuditedStep]_vars
  BY UStepIsStoreStep, StepsKeep DEF UInv
<1>. QED
  BY <1>1, UInvAlways, PTL DEF USpec, EveryChangeIsAudited, AuditedStep

\* Nor do they make anything heard of a draft.
THEOREM UploadsTellNobodyOfDrafts == USpec => []NoNoticeOfADraft
<1>1. UInit => BellInv
  BY InitGood DEF UInit, Init, BellInv
<1>2. UInv /\ BellInv /\ [UNext]_uvars => BellInv'
  BY UStepIsStoreStep, StepKeepsBell
<1>. QED
  BY <1>1, <1>2, BellIsPublic, UInvAlways, PTL DEF USpec

\* Nor do they get a purchase past the two gates: the store with its files
\* still implements TwoGates.
THEOREM UploadsImplementTwoGates == USpec => ImplementsTwoGates
<1>1. UInit => GatesInv /\ Gates!Init
  BY InitMaps DEF UInit
<1>2. UInv /\ GatesInv /\ [UNext]_uvars => GatesInv' /\ [Gates!Next]_(Gates!gvars)
  BY UStepIsStoreStep, StepKeepsGates, StepMaps
<1>. QED
  BY <1>1, <1>2, UInvAlways, PTL DEF USpec, ImplementsTwoGates, Gates!Spec

-----------------------------------------------------------------------------
(* What the editor shows of a request.                                     *)

\* The files of the request the editor holds.
Held == requests[editor.id].attachments

\* The call under way is about the request the editor holds, and it and the
\* zone know that request's files between them: the zone until the record
\* changes, the call once it has.
Agrees(t) ==
  /\ t.id = editor.id
  /\ (t.kind = "upload" /\ t.stage \in {"received", "stored"}) \/ (t.kind = "remove" /\ t.stage = "received")
       => editor.zone = Held
  /\ t.kind = "remove" /\ t.stage # "received" => Held = editor.zone \ t.file
  /\ t.kind # "remove" /\ t.stage = "answered" => t.file = Held

\* Nobody else's call is under way, and the page waits for its own.
OneOfThePage == \A t, u \in transfers : t.page /\ t = u

ZoneFits ==
  IF editor.id = 0 THEN transfers = {} /\ editor.zone = {}
  ELSE /\ editor.id \in DOMAIN requests
       /\ transfers = {} => editor.zone = Held
       /\ \A t \in transfers : Agrees(t)

ZoneInv == patient => OneOfThePage /\ (editor.open => ZoneFits)

\* While nobody else interferes, a page that waits for its answers has none
\* to wait for when it makes a call.
LEMMA NothingUnderWay ==
  ASSUME ZoneInv, waits, patient'
  PROVE  patient /\ transfers = {} /\ (editor.open => ZoneFits)
BY DEF ZoneInv, OneOfThePage, waits, InPage

\* The editor, and the data layer's other work.
LEMMA OthersKeepTheZone ==
  ASSUME UInv, StoreInv', ZoneInv,
         \/ Otherwise \/ Crash \/ create \/ closeEditor
         \/ \E actor \in author, content \in Contents : firstSave(actor, content)
  PROVE  ZoneInv'
<1>. SUFFICES ASSUME patient'  PROVE (OneOfThePage /\ (editor.open => ZoneFits))'
  BY DEF ZoneInv
<1>1. /\ editor \in EditorType /\ StoreInv
      /\ DOMAIN requests \subseteq 1..MaxPrf /\ DOMAIN requests' \subseteq 1..MaxPrf /\ MaxPrf \in Nat
  BY StoreAssumption DEF UInv, UTypes, StoreInv, RecordsGood
<1>2. CASE Otherwise
  <2>1. /\ patient /\ transfers' = transfers /\ editor' = editor
        /\ editor.open => editor.id \in {0} \cup DOMAIN requests'
        /\ SameFiles
    BY <1>1, <1>2, OtherwiseSameFiles DEF Otherwise
  <2>2. OneOfThePage /\ (editor.open => ZoneFits)
    BY <2>1 DEF ZoneInv
  <2>3. OneOfThePage'
    BY <2>1, <2>2 DEF OneOfThePage
  <2>4. ASSUME editor.open  PROVE ZoneFits'
    <3>1. CASE editor.id = 0
      BY <2>1, <2>2, <2>4, <3>1 DEF ZoneFits
    <3>2. CASE editor.id # 0
      <4>1. /\ editor.id \in DOMAIN requests' /\ editor.id \in DOMAIN requests
            /\ transfers = {} => editor.zone = Held
            /\ \A t \in transfers : Agrees(t)
        BY <2>1, <2>2, <2>4, <3>2 DEF ZoneFits
      <4>2. Held' = Held
        BY <2>1, <4>1 DEF SameFiles, Held
      <4>3. \A t \in transfers' : Agrees(t)'
        BY <2>1, <4>1, <4>2 DEF Agrees
      <4>. QED
        BY <2>1, <3>2, <4>1, <4>2, <4>3 DEF ZoneFits
    <3>. QED
      BY <3>1, <3>2
  <2>. QED
    BY <2>1, <2>3, <2>4
<1>3. CASE Crash
  BY <1>3 DEF Crash
<1>4. CASE create
  <2>1. transfers = {}
    BY <1>4, NothingUnderWay DEF create
  <2>2. transfers' = {} /\ editor'.id = 0 /\ editor'.zone = {}
    BY <1>1, <1>4, <2>1 DEF create, startNew, EditorType
  <2>. QED
    BY <2>2 DEF OneOfThePage, ZoneFits
<1>5. CASE closeEditor
  <2>1. ~editor'.open /\ transfers' = transfers /\ patient
    BY <1>1, <1>5 DEF closeEditor, EditorType
  <2>. QED
    BY <2>1 DEF ZoneInv, OneOfThePage
<1>6. ASSUME NEW actor, NEW content, firstSave(actor, content)
      PROVE  (OneOfThePage /\ (editor.open => ZoneFits))'
  <2>1. transfers' = transfers /\ transfers = {} /\ editor.zone = {}
    BY <1>6 DEF firstSave, ZoneInv, ZoneFits
  <2>2. PICK id \in 1..MaxPrf :
          /\ nextPrfNumber(id)
          /\ DOMAIN requests' = DOMAIN requests \cup {id}
    BY <1>6 DEF firstSave, createDraft
  <2>3. Max(DOMAIN requests') = id
    <3>1. \A other \in DOMAIN requests' : other <= id /\ (other >= id => other = id)
      BY <1>1, <2>2 DEF nextPrfNumber
    <3>2. \A m : (m \in DOMAIN requests' /\ \A other \in DOMAIN requests' : m >= other) <=> m = id
      BY <1>1, <2>2, <3>1
    <3>. QED
      BY <3>2, Zenon DEF Max
  <2>4. editor'.id = id /\ editor'.zone = {}
    BY <1>1, <1>6, <2>1, <2>3 DEF firstSave, EditorType
  <2>5. id \in DOMAIN requests' /\ id \notin DOMAIN requests /\ id # 0
    BY <1>1, <2>2 DEF nextPrfNumber
  <2>6. SameFiles
    BY <1>6, CreateSameFiles DEF firstSave
  <2>7. requests'[id].attachments = {}
    BY <2>5, <2>6 DEF SameFiles
  <2>. QED
    BY <2>1, <2>4, <2>5, <2>7 DEF OneOfThePage, ZoneFits, Held
<1>. QED
  BY <1>2, <1>3, <1>4, <1>5, <1>6

\* The calls that are made.
LEMMA CallersKeepTheZone ==
  ASSUME UInv, ZoneInv,
         \/ \E actor \in sessions, id \in Ids : elsewhere(actor, id)
         \/ \E actor \in author :
              \/ \E id \in DOMAIN requests : resume(actor, id)
              \/ \E n \in 1..2 : attachFiles(actor, n)
              \/ \E f \in editor.zone : detachFile(actor, f)
  PROVE  ZoneInv'
<1>. SUFFICES ASSUME patient'  PROVE (OneOfThePage /\ (editor.open => ZoneFits))'
  BY DEF ZoneInv
<1>1. editor \in EditorType /\ DOMAIN requests \subseteq 1..MaxPrf /\ MaxPrf \in Nat
  BY StoreAssumption DEF UInv, UTypes, StoreInv, RecordsGood
<1>2. ASSUME NEW actor, NEW id, elsewhere(actor, id)  PROVE FALSE
  BY <1>2 DEF elsewhere
<1>3. ASSUME NEW actor, NEW id \in DOMAIN requests, resume(actor, id)
      PROVE  (OneOfThePage /\ (editor.open => ZoneFits))'
  <2>1. transfers = {} /\ Call("list", actor, id, {}, TRUE, 0) /\ requests' = requests
    BY <1>3, NothingUnderWay DEF resume, vars
  <2>2. editor' = [editor EXCEPT !.open = TRUE, !.id = id]
    BY <1>3 DEF resume
  <2>a. editor'.id = id /\ id # 0
    BY <1>1, <2>2 DEF EditorType
  <2>3. /\ OneOfThePage' /\ transfers' # {}
        /\ \A t \in transfers' : t.kind = "list" /\ t.id = id /\ t.stage = "received"
    BY <2>1 DEF Call, OneOfThePage
  <2>. QED
    BY <2>1, <2>a, <2>3 DEF ZoneFits, Agrees
<1>4. ASSUME NEW actor, NEW n,
             \/ attachFiles(actor, n)
             \/ \E f \in editor.zone : detachFile(actor, f)
      PROVE  (OneOfThePage /\ (editor.open => ZoneFits))'
  <2>1. /\ transfers = {} /\ requests' = requests /\ editor' = editor
        /\ editor.open /\ editor.id # 0
        /\ ZoneFits
    BY <1>4, NothingUnderWay DEF attachFiles, detachFile, vars
  <2>2. PICK kind \in {"upload", "remove"} : \E file, left : Call(kind, actor, editor.id, file, TRUE, left)
    BY <1>4 DEF attachFiles, detachFile
  <2>3. PICK file, left : Call(kind, actor, editor.id, file, TRUE, left)
    BY <2>2
  <2>4. /\ OneOfThePage' /\ transfers' # {}
        /\ \A t \in transfers' : t.kind = kind /\ t.id = editor.id /\ t.stage = "received"
    BY <2>1, <2>3 DEF Call, OneOfThePage
  <2>5. editor.id \in DOMAIN requests /\ editor.zone = Held /\ Held' = Held
    BY <2>1 DEF ZoneFits, Held
  <2>. QED
    BY <2>1, <2>4, <2>5 DEF ZoneFits, Agrees
<1>. QED
  BY <1>2, <1>3, <1>4

\* The calls that are on their way.
LEMMA TransfersKeepTheZone ==
  ASSUME UInv, ZoneInv, NEW t \in transfers,
         \/ store(t) \/ attach(t) \/ detach(t) \/ unlink(t) \/ list(t)
         \/ answered(t) \/ fail(t)
  PROVE  ZoneInv'
<1>. SUFFICES ASSUME patient'  PROVE (OneOfThePage /\ (editor.open => ZoneFits))'
  BY DEF ZoneInv
<1>1. /\ StoreInv /\ t \in Transfer /\ OneFile(t) /\ editor \in EditorType
      /\ patient /\ ~fail(t)
  BY DEF UInv, UTypes, CallsFit, FileInv, store, attach, detach, unlink, list, answered, fail
<1>2. transfers = {t} /\ t.page /\ (editor.open => ZoneFits)
  BY <1>1 DEF ZoneInv, OneOfThePage
<1>3. editor.open => editor.id # 0 /\ editor.id \in DOMAIN requests /\ Agrees(t)
  BY <1>2 DEF ZoneFits
<1>4. ASSUME NEW stage \in {"received", "stored", "detached", "answered"}, NEW file \in SUBSET Files,
             Leave(t, {At2(t, stage, file)}), editor' = editor,
             editor.open => editor.id \in DOMAIN requests',
             editor.open => Agrees(At2(t, stage, file))'
      PROVE  (OneOfThePage /\ (editor.open => ZoneFits))'
  <2>. DEFINE u == At2(t, stage, file)
  <2>1. transfers' = {u}
    BY <1>2, <1>4 DEF Leave
  <2>2. u.page
    BY <1>1, <1>2 DEF At2, Transfer
  <2>3. editor.open => Agrees(u)'
    BY <1>4
  <2>. HIDE DEF u
  <2>. QED
    BY <1>3, <1>4, <2>1, <2>2, <2>3 DEF OneOfThePage, ZoneFits
<1>5. CASE store(t)
  <2>1. PICK f \in Files : Leave(t, {At2(t, "stored", {f})})
    BY <1>5 DEF store
  <2>2. requests' = requests /\ editor' = editor /\ t.kind = "upload" /\ t.stage = "received"
    BY <1>5 DEF store, vars
  <2>3. editor.open => Agrees(At2(t, "stored", {f}))'
    <3>. DEFINE u == At2(t, "stored", {f})
    <3>1. u.kind = "upload" /\ u.id = t.id /\ u.stage = "stored"
      BY <1>1, <2>2, MovedOn
    <3>. HIDE DEF u
    <3>2. editor.open => Agrees(u)'
      BY <1>3, <2>2, <3>1 DEF Agrees, Held
    <3>. QED
      BY <3>2 DEF u
  <2>. QED
    BY <1>3, <1>4, <2>1, <2>2, <2>3
<1>6. CASE attach(t)
  <2>1. /\ t.kind = "upload" /\ t.stage = "stored" /\ t.id \in DOMAIN requests /\ editor' = editor
        /\ Leave(t, {At2(t, "answered", requests'[t.id].attachments)})
    BY <1>6 DEF attach
  <2>2. DOMAIN requests' = DOMAIN requests
    BY <1>1, <1>6, FileEditShape DEF attach
  <2>a. PICK file : file = requests'[t.id].attachments
    OBVIOUS
  <2>3. PICK f \in t.file : file = IF f \in requests[t.id].attachments
                                   THEN requests[t.id].attachments \ {f}
                                   ELSE requests[t.id].attachments \cup {f}
    BY <1>1, <1>6, <2>a, FileEditShape DEF attach
  <2>4. file \in SUBSET Files
    BY <1>1, <2>1, <2>3 DEF StoreInv, RecordsGood, Request, Transfer
  <2>5. editor.open => Agrees(At2(t, "answered", file))'
    <3>. DEFINE u == At2(t, "answered", file)
    <3>1. u.kind = "upload" /\ u.id = t.id /\ u.stage = "answered" /\ u.file = file
      BY <1>1, <2>1, <2>4, MovedOn
    <3>. HIDE DEF u
    <3>2. editor.open => editor'.id = u.id /\ Held' = file
      BY <1>3, <2>1, <2>a, <3>1 DEF Agrees, Held
    <3>3. editor.open => Agrees(u)'
      BY <3>1, <3>2 DEF Agrees
    <3>. QED
      BY <3>3 DEF u
  <2>6. Leave(t, {At2(t, "answered", file)}) /\ (editor.open => editor.id \in DOMAIN requests')
    BY <1>3, <2>1, <2>2, <2>a
  <2>. QED
    BY <1>4, <2>1, <2>4, <2>5, <2>6
<1>7. CASE detach(t)
  <2>1. /\ t.kind = "remove" /\ t.stage = "received" /\ t.id \in DOMAIN requests /\ editor' = editor
        /\ Leave(t, {At2(t, "detached", t.file)})
    BY <1>7 DEF detach
  <2>2. PICK f \in t.file : detachFromRequest(t.by, t.id, f)
    BY <1>7 DEF detach
  <2>3. DOMAIN requests' = DOMAIN requests /\ requests'[t.id].attachments = requests[t.id].attachments \ {f}
    BY <1>1, <2>1, <2>2, FileEditShape DEF detachFromRequest
  <2>4. t.file = {f} /\ t.file \in SUBSET Files
    BY <1>1, <2>1, <2>2 DEF OneFile, Transfer
  <2>5. editor.open => Agrees(At2(t, "detached", t.file))'
    <3>. DEFINE u == At2(t, "detached", t.file)
    <3>1. u.kind = "remove" /\ u.id = t.id /\ u.stage = "detached" /\ u.file = t.file
      BY <1>1, <2>1, <2>4, MovedOn
    <3>. HIDE DEF u
    <3>2. editor.open => Agrees(u)'
      BY <1>3, <2>1, <2>3, <2>4, <3>1 DEF Agrees, Held
    <3>. QED
      BY <3>2 DEF u
  <2>. QED
    BY <1>3, <1>4, <2>1, <2>3, <2>4, <2>5
<1>8. CASE unlink(t)
  <2>1. /\ t.kind = "remove" /\ t.stage = "detached" /\ editor' = editor /\ requests' = requests
        /\ Leave(t, {At2(t, "answered", t.file)})
    BY <1>8 DEF unlink, vars
  <2>2. t.file \in SUBSET Files
    BY <1>1 DEF Transfer
  <2>3. editor.open => Agrees(At2(t, "answered", t.file))'
    <3>. DEFINE u == At2(t, "answered", t.file)
    <3>1. u.kind = "remove" /\ u.id = t.id /\ u.stage = "answered" /\ u.file = t.file
      BY <1>1, <2>1, <2>2, MovedOn
    <3>. HIDE DEF u
    <3>2. editor.open => Agrees(u)'
      BY <1>3, <2>1, <3>1 DEF Agrees, Held
    <3>. QED
      BY <3>2 DEF u
  <2>. QED
    BY <1>3, <1>4, <2>1, <2>2, <2>3
<1>9. CASE list(t)
  <2>a. PICK file : file = requests[t.id].attachments
    OBVIOUS
  <2>1. /\ t.kind = "list" /\ t.id \in DOMAIN requests /\ editor' = editor /\ requests' = requests
        /\ Leave(t, {At2(t, "answered", file)})
    BY <1>9, <2>a DEF list, vars, locate
  <2>2. file \in SUBSET Files
    BY <1>1, <2>1, <2>a DEF StoreInv, RecordsGood, Request
  <2>3. editor.open => Agrees(At2(t, "answered", file))'
    <3>. DEFINE u == At2(t, "answered", file)
    <3>1. u.kind = "list" /\ u.id = t.id /\ u.stage = "answered" /\ u.file = file
      BY <1>1, <2>1, <2>2, MovedOn
    <3>. HIDE DEF u
    <3>2. editor.open => editor'.id = u.id /\ Held' = file
      BY <1>3, <2>1, <2>a, <3>1 DEF Agrees, Held
    <3>3. editor.open => Agrees(u)'
      BY <3>1, <3>2 DEF Agrees
    <3>. QED
      BY <3>3 DEF u
  <2>. QED
    BY <1>3, <1>4, <2>1, <2>2, <2>3
<1>10. CASE answered(t)
  <2>1. /\ t.stage = "answered" /\ requests' = requests /\ sendNext(t)
        /\ editor' = [editor EXCEPT !.zone = zoneAfter(t)]
    BY <1>2, <1>10 DEF answered, vars
  <2>2. editor'.open = editor.open /\ editor'.id = editor.id /\ editor'.zone = zoneAfter(t)
    BY <1>1, <2>1 DEF EditorType
  <2>3. editor.open => zoneAfter(t) = Held /\ t.id = editor.id
    BY <1>3, <2>1 DEF Agrees, zoneAfter
  <2>4. Held' = Held
    BY <2>1, <2>2 DEF Held
  <2>5. CASE t.left = 0
    <3>1. transfers' = {}
      BY <1>2, <2>1, <2>5 DEF sendNext, Leave
    <3>. QED
      BY <1>3, <2>1, <2>2, <2>3, <2>4, <3>1 DEF OneOfThePage, ZoneFits
  <2>6. CASE t.left # 0
    <3>. DEFINE u == [t EXCEPT !.stage = "received", !.file = {}, !.left = @ - 1]
    <3>1. transfers' = {u}
      BY <1>2, <2>1, <2>6 DEF sendNext, Leave
    <3>2. t.kind # "remove"
      BY <1>1, <2>6 DEF OneFile
    <3>3. u.page = t.page /\ u.kind = t.kind /\ u.id = t.id /\ u.stage = "received"
      BY <1>1 DEF Transfer
    <3>. HIDE DEF u
    <3>4. editor.open => Agrees(u)'
      BY <1>3, <2>2, <2>3, <2>4, <3>2, <3>3 DEF Agrees
    <3>. QED
      BY <1>2, <1>3, <2>1, <2>2, <3>1, <3>3, <3>4 DEF OneOfThePage, ZoneFits
  <2>. QED
    BY <2>5, <2>6
<1>. QED
  BY <1>1, <1>5, <1>6, <1>7, <1>8, <1>9, <1>10

\* With nothing failed and nobody interfering, the zone of an editor whose
\* calls were answered lists the files of its own request, whatever the
\* data layer does meanwhile and whichever number a first save is given
\* (attachFiles, detachFile and resume of page.tsx).
THEOREM ZoneShowsTheFiles == USpec => []ZoneShowsTheRecord
<1>1. UInit => ZoneInv
  BY DEF UInit, ZoneInv, OneOfThePage
<1>2. UInv /\ UInv' /\ ZoneInv /\ [UNext]_uvars => ZoneInv'
  <2>1. CASE UNCHANGED uvars
    BY <2>1 DEF uvars, ZoneInv, OneOfThePage, ZoneFits, Agrees, Held
  <2>. QED
    BY <2>1, OthersKeepTheZone, CallersKeepTheZone, TransfersKeepTheZone DEF UNext, UInv
<1>3. ZoneInv => ZoneShowsTheRecord
  <2>. SUFFICES ASSUME ZoneInv, patient, editor.open, InPage = {}
                PROVE  editor.zone = IF editor.id = 0 THEN {} ELSE requests[editor.id].attachments
    BY DEF ZoneShowsTheRecord
  <2>1. transfers = {} /\ ZoneFits
    BY DEF ZoneInv, OneOfThePage, InPage
  <2>. QED
    BY <2>1 DEF ZoneFits, Held
<1>. QED
  BY <1>1, <1>2, <1>3, UInvAlways, PTL DEF USpec
=============================================================================
