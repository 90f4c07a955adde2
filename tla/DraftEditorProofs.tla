------------------------- MODULE DraftEditorProofs -------------------------
(***************************************************************************)
(* Proofs about DraftEditor: what a submitted request keeps, and what a    *)
(* user who waits for each answer can rely on, for any number of           *)
(* purchases, texts, drafts and calls.                                     *)
(***************************************************************************)
EXTENDS DraftEditor, FiniteSetTheorems, WellFoundedInduction, TLAPS

(***************************************************************************)
(* The invariant of every run of the editor.                               *)
(***************************************************************************)

\* What was typed of a purchase that was begun.
Begun == {f \in Form : f.purchase \in DOMAIN typed}

Requests == [form : Begun, status : {"Draft", "Pending Supervisor Approval"}]

\* The calls that carry a text to the server, or bring one back.
Carries(c) == c.kind \in {"create", "update"} \/ (c.kind = "submit" /\ c.stage = "done")

\* A call about a draft names it; a create learns the number when it is done.
Numbered(c) ==
  /\ c.kind \in {"update", "submit", "delete"} => c.id # 0
  /\ c.kind = "create" /\ c.stage = "done" => c.id # 0

GoodCalls ==
  {c \in Call : /\ c.kind = "none" \/ c.stage = "none" => c = NoCall
                /\ Numbered(c) /\ (Carries(c) => c.form \in Begun)}

Creating == {s \in Slots : calls[s].kind = "create" /\ calls[s].stage = "sent"}

\* There is room for every create that is on its way.
Room == \A i \in {0} \cup DOMAIN server : i + Cardinality(Creating) <= MaxDrafts

\* A map from PRF numbers into a set.
Fits(map, S) == DOMAIN map \subseteq 1..MaxDrafts /\ \A i \in DOMAIN map : map[i] \in S

TextsFit == Fits(server, Requests) /\ Fits(rows, Requests) /\ Fits(buffers, Begun)

EditorFits ==
  /\ session \in BOOLEAN /\ signedIn \in BOOLEAN /\ open \in BOOLEAN /\ active \in BOOLEAN
  /\ editingId \in 0..MaxDrafts /\ disturbed \in 0..MaxDisturbances
  /\ form \in Form /\ baseline \in Form /\ (open => signedIn /\ form \in Begun)

TypedFits == typed \in Seq(Texts) /\ Len(typed) <= MaxPurchases /\ reverted \subseteq DOMAIN typed

EditorInv == TextsFit /\ Room /\ calls \in [Slots -> GoodCalls] /\ EditorFits /\ TypedFits

-----------------------------------------------------------------------------
(* The invariant of a user who waits, while nothing is lost.               *)

\* The server has no request of this purchase.
Unwritten(p) == \A i \in DOMAIN server : server[i].form.purchase # p

\* What the one call under way knows of the server and of the editor.
CreateFits(c) ==
  /\ c.stage \in {"sent", "failed"} => c.id = 0 /\ Unwritten(c.form.purchase)
  /\ c.stage = "done" => isDraft(c.id) /\ server[c.id].form = c.form /\ c.id \notin DOMAIN rows
  /\ open => editingId = 0 /\ form.purchase = c.form.purchase

UpdateFits(c) ==
  /\ isDraft(c.id) /\ server[c.id].form.purchase = c.form.purchase
  /\ c.stage = "done" => server[c.id].form = c.form
  /\ open => editingId = c.id /\ form.purchase = c.form.purchase

\* A save fails when the server does not take its text.  It carries what was
\* typed last, unless its author went on typing; nobody does, or closes the
\* editor, before a submission or a sign-out.
SaveFits(c) ==
  /\ c.stage = "failed" => c.form.text \notin Sound
  /\ open \/ c.form = LastOf(c.form.purchase)
  /\ c.next # "nothing" => open /\ form = c.form

\* A submission fails when the server's text is not complete.
SubmitFits(c) ==
  /\ open /\ editingId = c.id
  /\ c.id \in DOMAIN server /\ server[c.id].form = form
  /\ c.id \in DOMAIN buffers /\ buffers[c.id] = form
  /\ c.stage # "done" => isDraft(c.id)
  /\ c.stage = "done" => c.form = form

DeleteFits(c) ==
  /\ c.stage \in {"sent", "done"}
  /\ c.stage = "sent" => isDraft(c.id)
  /\ c.stage = "done" => c.id \notin DOMAIN server
  /\ c.id \in DOMAIN rows
  /\ c.stage = "done" => typed[rows[c.id].form.purchase] = fresh
  /\ open => editingId = c.id

LogoutFits(c) ==
  /\ open => form.text \notin Sound \cap Worthy \/ Written(form)
  /\ c.stage = (IF session THEN "sent" ELSE "done")

Done(c, kind) == c.kind = kind /\ c.stage = "done"

CalmCall(c) ==
  /\ c # NoCall => c.stage \in {"sent", "done", "failed"}
  /\ c.kind = "create" => CreateFits(c) /\ SaveFits(c)
  /\ c.kind = "update" => UpdateFits(c) /\ SaveFits(c)
  /\ c.kind = "submit" => SubmitFits(c)
  /\ c.kind = "delete" => DeleteFits(c)
  /\ c.kind = "logout" => LogoutFits(c)

\* The open editor shows what was typed last of its purchase, and is about a
\* draft of the list, or about one not made yet that was opened empty.
CalmEditor(c) ==
  open =>
    /\ ~Done(c, "delete") => form = LastOf(form.purchase)
    /\ editingId = 0 => /\ baseline = [purchase |-> form.purchase, text |-> fresh]
                        /\ ~Done(c, "create") => Unwritten(form.purchase)
    /\ editingId # 0 =>
         /\ editingId \in DOMAIN rows /\ rows[editingId].form.purchase = form.purchase
         /\ ~Done(c, "delete") => editingId \in DOMAIN server
         /\ ~Done(c, "delete") /\ ~Done(c, "submit") => isDraft(editingId)

\* A row of the list is a request of the server, and opening it would show
\* what was typed last of its purchase, unless it is on the screen.
CalmRow(c, id) ==
  ~(Done(c, "delete") /\ c.id = id) =>
    /\ id \in DOMAIN server /\ server[id].form.purchase = rows[id].form.purchase
    /\ rows[id].status = "Draft" /\ ~(Done(c, "submit") /\ c.id = id) => isDraft(id)
    /\ ~(open /\ editingId = id) => shown(id) = LastOf(rows[id].form.purchase)

CalmRows(c) == \A id \in DOMAIN rows : CalmRow(c, id)

\* A purchase begun is in the editor, on the list or about to be, or has
\* nothing the server would take.
Recorded(c, p) ==
  \/ open /\ form.purchase = p
  \/ \E id \in DOMAIN rows : rows[id].form.purchase = p
  \/ c.kind = "create" /\ c.form.purchase = p
  \/ typed[p] \notin Sound \ {fresh}

\* A text worth a save that the server takes is there, on its way there, or in
\* the editor still, or its purchase was closed as it was opened.
Saved(c, p) ==
  typed[p] \in Sound \cap Worthy /\ p \notin reverted =>
    \/ Written(LastOf(p))
    \/ open /\ form.purchase = p
    \/ c.kind \in {"create", "update"} /\ c.stage = "sent" /\ c.form = LastOf(p)

CalmTexts(c) == \A p \in DOMAIN typed : Saved(c, p) /\ (signedIn => Recorded(c, p))

UniqueDrafts == \A i, j \in DOMAIN server : server[i].form.purchase = server[j].form.purchase => i = j

\* The session lasts until the sign-out, and the page believes in it until
\* that is answered.
CalmSession(c) ==
  /\ ~session => c.kind = "logout" \/ ~signedIn
  /\ ~signedIn => c = NoCall /\ ~open

CalmWith(c) ==
  /\ UniqueDrafts /\ CalmCall(c) /\ CalmEditor(c) /\ CalmRows(c) /\ CalmTexts(c) /\ CalmSession(c)

\* At most one call is under way, and it is this one.
Alone(c) ==
  \/ c = NoCall /\ \A t \in Slots : calls[t] = NoCall
  \/ c # NoCall /\ \E s \in Slots : calls = [t \in Slots |-> IF t = s THEN c ELSE NoCall]

CalmInv == disturbed = 0 => \E c \in {NoCall} \cup {calls[s] : s \in Slots} : Alone(c) /\ CalmWith(c)

-----------------------------------------------------------------------------
(* What the model is built from.                                           *)

\* The bounds are natural numbers, and a new form is a text not worth a save.
LEMMA BoundTypes ==
  /\ MaxPurchases \in Nat /\ MaxDrafts \in Nat /\ MaxCalls \in Nat /\ MaxDisturbances \in Nat
  /\ fresh \in Texts /\ fresh \notin Worthy
BY EditorAssumption DEF EditorAssumption

\* Zero is within each of them.
LEMMA ZeroFits ==
  0 \in 0..MaxDrafts /\ 0 \in 0..MaxPurchases /\ 0 \in 0..MaxDisturbances
BY BoundTypes

\* An element of a sequence is one of the sequence's set.
LEMMA ItemFits ==
  ASSUME NEW S, NEW q \in Seq(S), NEW i \in DOMAIN q
  PROVE  q[i] \in S
OBVIOUS

\* A sequence with one element changed is one as long.
LEMMA SeqChanged ==
  ASSUME NEW S, NEW q \in Seq(S), NEW k \in DOMAIN q, NEW v \in S
  PROVE  /\ [q EXCEPT ![k] = v] \in Seq(S) /\ Len([q EXCEPT ![k] = v]) = Len(q)
         /\ DOMAIN [q EXCEPT ![k] = v] = DOMAIN q
OBVIOUS

\* A set of natural numbers that is not empty has a least one,
LEMMA LeastExists ==
  ASSUME NEW S \in SUBSET Nat, S # {}
  PROVE  \E m \in S : \A n \in S : m <= n
<1>. DEFINE R == OpToRel(<, Nat)
<1>1. IsWellFoundedOn(R, Nat)
  BY NatLessThanWellFounded
<1>2. \A m, n \in Nat : <<n, m>> \in R <=> n < m
  BY DEF OpToRel
<1>. HIDE DEF R
<1>3. PICK m \in S : \A n \in S : <<n, m>> \notin R
  BY <1>1, WFMin
<1>4. \A n \in S : ~(n < m)
  BY <1>2, <1>3
<1>. QED
  BY <1>4

\* and a greatest one when it is bounded.
LEMMA GreatestExists ==
  ASSUME NEW b \in Nat, NEW S \in SUBSET (0..b), S # {}
  PROVE  Max(S) \in S /\ \A n \in S : n <= Max(S)
<1>. DEFINE D == {b - n : n \in S}
<1>0. \A n \in S : n \in Nat /\ n <= b /\ b - n \in Nat
  OBVIOUS
<1>1. D \in SUBSET Nat /\ D # {}
  BY <1>0
<1>. HIDE DEF D
<1>2. PICK m \in D : \A n \in D : m <= n
  BY <1>1, LeastExists
<1>3. PICK x \in S : m = b - x
  BY DEF D
<1>4. \A n \in S : b - n \in D
  BY DEF D
<1>5. \A n \in S : x >= n
  BY <1>2, <1>3, <1>4
<1>. QED
  BY <1>5 DEF Max

\* A new number is above every number in use.
LEMMA NextIsNew ==
  ASSUME TextsFit
  PROVE  /\ nextNumber - 1 \in {0} \cup DOMAIN server /\ nextNumber \in Nat \ {0}
         /\ nextNumber \notin DOMAIN server
         /\ \A i \in {0} \cup DOMAIN server : i < nextNumber
<1>. DEFINE S == {0} \cup DOMAIN server
<1>1. S \in SUBSET (0..MaxDrafts) /\ S # {}
  BY BoundTypes DEF TextsFit, Fits
<1>. HIDE DEF S
<1>2. Max(S) \in S /\ \A n \in S : n <= Max(S)
  BY <1>1, BoundTypes, GreatestExists
<1>3. nextNumber = 1 + Max(S) /\ Max(S) \in 0..MaxDrafts
  BY <1>1, <1>2 DEF nextNumber, S
<1>4. MaxDrafts \in Nat
  BY BoundTypes
<1>. QED
  BY <1>1, <1>2, <1>3, <1>4 DEF S

\* A call goes to a free slot, and takes it.
LEMMA SendTakesASlot ==
  ASSUME NEW c, send(c)
  PROVE  \E s \in Slots : calls[s] = NoCall /\ calls' = [calls EXCEPT ![s] = c]
<1>1. Free \in SUBSET Nat /\ Free # {} /\ Free \subseteq Slots
  BY BoundTypes DEF send, Free, Slots
<1>2. \E s \in Free : \A t \in Free : s <= t
  BY <1>1, LeastExists
<1>3. (CHOOSE s \in Free : \A t \in Free : s <= t) \in Free
  BY <1>2
<1>. QED
  BY <1>1, <1>3 DEF send, Free

\* What is put into a map is there, and the rest stays.
LEMMA Put ==
  ASSUME NEW map, NEW key, NEW value
  PROVE  /\ DOMAIN put(map, key, value) = DOMAIN map \cup {key}
         /\ put(map, key, value)[key] = value
         /\ \A k \in DOMAIN map : k # key => put(map, key, value)[k] = map[k]
BY DEF put

\* A form is its purchase and its text;
LEMMA FormFields ==
  ASSUME NEW f \in Form
  PROVE  f.purchase \in 0..MaxPurchases /\ f.text \in Texts
BY DEF Form

\* two of the same purchase and text are the same.
LEMMA SameForm ==
  ASSUME NEW P, NEW V, NEW f \in [purchase : P, text : V], NEW g \in [purchase : P, text : V],
         f.purchase = g.purchase, f.text = g.text
  PROVE  f = g
OBVIOUS

\* A call that is answered keeps what it is, but for its stage,
LEMMA CallAnswered ==
  ASSUME NEW K, NEW I, NEW F, NEW N, NEW S, NEW c \in [kind : K, id : I, form : F, next : N, stage : S],
         NEW t \in S, NEW d, d = [c EXCEPT !.stage = t]
  PROVE  /\ d \in [kind : K, id : I, form : F, next : N, stage : S] /\ d.stage = t
         /\ d.kind = c.kind /\ d.id = c.id /\ d.form = c.form /\ d.next = c.next
OBVIOUS

\* and the number a create was given;
LEMMA CreateAnswered ==
  ASSUME NEW K, NEW I, NEW F, NEW N, NEW S, NEW c \in [kind : K, id : I, form : F, next : N, stage : S],
         NEW t \in S, NEW i \in I, NEW d, d = [c EXCEPT !.stage = t, !.id = i]
  PROVE  /\ d \in [kind : K, id : I, form : F, next : N, stage : S] /\ d.stage = t
         /\ d.kind = c.kind /\ d.id = i /\ d.form = c.form /\ d.next = c.next
OBVIOUS

\* or the form that was submitted.
LEMMA SubmitAnswered ==
  ASSUME NEW K, NEW I, NEW F, NEW N, NEW S, NEW c \in [kind : K, id : I, form : F, next : N, stage : S],
         NEW t \in S, NEW f \in F, NEW d, d = [c EXCEPT !.stage = t, !.form = f]
  PROVE  /\ d \in [kind : K, id : I, form : F, next : N, stage : S] /\ d.stage = t
         /\ d.kind = c.kind /\ d.id = c.id /\ d.form = f /\ d.next = c.next
OBVIOUS

\* A call at another stage, as the one above.
LEMMA AnsweredCall ==
  ASSUME calls \in [Slots -> Call], NEW s \in Slots, NEW t \in {"none", "sent", "done", "failed", "ended"},
         Answer(s, t)
  PROVE  \E d \in Call :
           /\ calls' = [calls EXCEPT ![s] = d] /\ d.stage = t
           /\ d.kind = calls[s].kind /\ d.id = calls[s].id /\ d.form = calls[s].form /\ d.next = calls[s].next
<1>. DEFINE d == [calls[s] EXCEPT !.stage = t]
<1>1. calls[s] \in Call
  OBVIOUS
<1>2. /\ d \in Call /\ d.stage = t
      /\ d.kind = calls[s].kind /\ d.id = calls[s].id /\ d.form = calls[s].form /\ d.next = calls[s].next
  BY <1>1, CallAnswered DEF Call
<1>3. calls' = [calls EXCEPT ![s] = d]
  BY DEF Answer
<1>. QED
  BY <1>2, <1>3

\* Calls are to the server what they are to the page.
LEMMA CallFields ==
  ASSUME NEW c \in Call
  PROVE  /\ c.kind \in {"none", "create", "update", "submit", "delete", "logout"}
         /\ c.id \in 0..MaxDrafts /\ c.form \in Form /\ c.next \in {"nothing", "submit", "logout"}
         /\ c.stage \in {"none", "sent", "done", "failed", "ended"}
BY DEF Call

\* What a new call is.
LEMMA NewCallIs ==
  ASSUME NEW kind \in {"create", "update", "submit", "delete", "logout"}, NEW id \in 0..MaxDrafts,
         NEW f \in Form, NEW next \in {"nothing", "submit", "logout"}
  PROVE  /\ NewCall(kind, id, f, next) \in Call /\ NewCall(kind, id, f, next) # NoCall
         /\ NewCall(kind, id, f, next).kind = kind /\ NewCall(kind, id, f, next).id = id
         /\ NewCall(kind, id, f, next).form = f /\ NewCall(kind, id, f, next).next = next
         /\ NewCall(kind, id, f, next).stage = "sent"
BY DEF NewCall, NoCall, Call

\* A slot that is free holds no call.
LEMMA NoCallIs ==
  /\ NoCall \in Call /\ NoCall.kind = "none" /\ NoCall.id = 0 /\ NoCall.form = Blank
  /\ NoCall.next = "nothing" /\ NoCall.stage = "none" /\ Blank \in Form /\ ~hasContent(Blank)
BY BoundTypes DEF NoCall, Call, Blank, Form, hasContent

-----------------------------------------------------------------------------
(* The invariant of every run is kept.                                     *)

\* A purchase once begun stays begun.
LEMMA TextsGrow ==
  ASSUME DOMAIN typed \subseteq DOMAIN typed'
  PROVE  Begun \subseteq Begun' /\ Requests \subseteq Requests' /\ GoodCalls \subseteq GoodCalls'
<1>1. Begun \subseteq Begun'
  BY DEF Begun
<1>. QED
  BY <1>1 DEF Requests, GoodCalls, Numbered, Carries

\* A map that fits goes on to fit a larger set,
LEMMA FitsGrow ==
  ASSUME NEW S, NEW T, S \subseteq T, NEW map, Fits(map, S)
  PROVE  Fits(map, T)
BY DEF Fits

\* also with one more entry,
LEMMA PutFits ==
  ASSUME NEW S, NEW map, Fits(map, S), NEW key \in 1..MaxDrafts, NEW value \in S
  PROVE  Fits(put(map, key, value), S)
BY DEF Fits, put

\* with another value for an entry it has,
LEMMA ChangeFits ==
  ASSUME NEW S, NEW map, Fits(map, S), NEW key, NEW value \in S
  PROVE  Fits([map EXCEPT ![key] = value], S)
BY DEF Fits

\* or without one of them.
LEMMA RemoveFits ==
  ASSUME NEW S, NEW map, Fits(map, S), NEW key
  PROVE  Fits([i \in DOMAIN map \ {key} |-> map[i]], S)
BY DEF Fits

\* A local copy written under a number, or under none.
LEMMA StoredFits ==
  ASSUME Fits(buffers, Begun), NEW id \in 0..MaxDrafts, NEW f \in Begun
  PROVE  Fits(stored(id, f), Begun)
BY BoundTypes, PutFits DEF stored

\* The creates on their way are finitely many.
LEMMA CreatesCount ==
  /\ IsFiniteSet(Creating) /\ Cardinality(Creating) \in Nat
  /\ IsFiniteSet(Creating') /\ Cardinality(Creating') \in Nat
<1>1. IsFiniteSet(Slots)
  BY BoundTypes, FS_Interval DEF Slots
<1>2. Creating \subseteq Slots /\ Creating' \subseteq Slots
  BY DEF Creating
<1>. QED
  BY <1>1, <1>2, FS_Subset, FS_CardinalityType

\* A slot taken by anything but a new create leaves the room there is,
LEMMA RoomKept ==
  ASSUME TextsFit, Room, Creating' \subseteq Creating, DOMAIN server' \subseteq DOMAIN server
  PROVE  Room'
<1>1. Cardinality(Creating') <= Cardinality(Creating)
  BY CreatesCount, FS_Subset
<1>2. \A i \in {0} \cup DOMAIN server : i \in Nat
  BY BoundTypes DEF TextsFit, Fits
<1>. QED
  BY <1>1, <1>2, CreatesCount, BoundTypes DEF Room

\* a new create is sent when there is room for it,
LEMMA RoomTaken ==
  ASSUME TextsFit, MayCreate, NEW s, Creating' \subseteq Creating \cup {s}, server' = server
  PROVE  Room'
<1>1. Cardinality(Creating') <= Cardinality(Creating) + 1
  <2>1. CASE s \in Creating
    <3>1. Creating' \subseteq Creating
      BY <2>1
    <3>. QED
      BY <3>1, CreatesCount, FS_Subset
  <2>2. CASE s \notin Creating
    <3>1. IsFiniteSet(Creating \cup {s}) /\ Cardinality(Creating \cup {s}) = Cardinality(Creating) + 1
      BY <2>2, CreatesCount, FS_AddElement
    <3>. QED
      BY <3>1, CreatesCount, FS_Subset
  <2>. QED
    BY <2>1, <2>2
<1>2. nextNumber + Cardinality(Creating) <= MaxDrafts
  BY DEF MayCreate, Creating
<1>3. \A i \in {0} \cup DOMAIN server' : i \in Nat /\ i + 1 <= nextNumber
  <2>1. \A i \in {0} \cup DOMAIN server : i \in Nat /\ i < nextNumber
    BY NextIsNew, BoundTypes DEF TextsFit, Fits
  <2>. QED
    BY <2>1, NextIsNew
<1>. QED
  BY <1>1, <1>2, <1>3, NextIsNew, CreatesCount, BoundTypes DEF Room

\* and a create that arrives uses it.
LEMMA RoomUsed ==
  ASSUME TextsFit, Room, NEW s \in Creating, Creating' \subseteq Creating \ {s},
         DOMAIN server' = DOMAIN server \cup {nextNumber}
  PROVE  Room' /\ nextNumber \in 1..MaxDrafts
<1>1. Cardinality(Creating') + 1 <= Cardinality(Creating)
  <2>1. IsFiniteSet(Creating \ {s}) /\ Cardinality(Creating \ {s}) = Cardinality(Creating) - 1
    BY CreatesCount, FS_RemoveElement
  <2>2. Cardinality(Creating') <= Cardinality(Creating \ {s})
    BY <2>1, FS_Subset
  <2>. QED
    BY <2>1, <2>2, CreatesCount
<1>2. nextNumber - 1 + Cardinality(Creating) <= MaxDrafts
  BY NextIsNew DEF Room
<1>3. nextNumber + Cardinality(Creating') <= MaxDrafts
  BY <1>1, <1>2, CreatesCount, NextIsNew, BoundTypes
<1>4. \A i \in {0} \cup DOMAIN server : i \in Nat /\ i <= nextNumber
  <2>1. \A i \in {0} \cup DOMAIN server : i \in Nat /\ i < nextNumber
    BY NextIsNew, BoundTypes DEF TextsFit, Fits
  <2>. QED
    BY <2>1, NextIsNew
<1>5. \A i \in {0} \cup DOMAIN server' : i \in Nat /\ i <= nextNumber
  BY <1>4, NextIsNew
<1>. QED
  BY <1>3, <1>5, CreatesCount, NextIsNew, BoundTypes DEF Room

\* The calls after one slot has got another call.
LEMMA SlotWritten ==
  ASSUME EditorInv, DOMAIN typed \subseteq DOMAIN typed', NEW s \in Slots, NEW d, d \in GoodCalls',
         calls' = [calls EXCEPT ![s] = d]
  PROVE  /\ calls' \in [Slots -> GoodCalls'] /\ Creating' \subseteq Creating \cup {s}
         /\ (d.kind = "create" /\ d.stage = "sent") \/ Creating' \subseteq Creating \ {s}
<1>1. GoodCalls \subseteq GoodCalls' /\ calls \in [Slots -> GoodCalls]
  BY TextsGrow DEF EditorInv
<1>2. \A t \in Slots : calls'[t] = IF t = s THEN d ELSE calls[t]
  BY <1>1
<1>3. calls' \in [Slots -> GoodCalls']
  BY <1>1
<1>. QED
  BY <1>2, <1>3 DEF Creating

\* A call answered or taken up, whatever the server removes.
LEMMA SlotAnswered ==
  ASSUME EditorInv, DOMAIN typed \subseteq DOMAIN typed', NEW s \in Slots, NEW d, d \in GoodCalls',
         calls' = [calls EXCEPT ![s] = d], d.kind # "create" \/ d.stage # "sent",
         DOMAIN server' \subseteq DOMAIN server
  PROVE  calls' \in [Slots -> GoodCalls'] /\ Room'
<1>1. calls' \in [Slots -> GoodCalls'] /\ Creating' \subseteq Creating
  BY SlotWritten
<1>. QED
  BY <1>1, RoomKept DEF EditorInv

\* A new call, which is a create only when there is room.
LEMMA SlotSent ==
  ASSUME EditorInv, typed' = typed, server' = server, NEW d, d \in GoodCalls, send(d),
         d.kind = "create" => MayCreate
  PROVE  calls' \in [Slots -> GoodCalls'] /\ Room'
<1>0. GoodCalls \subseteq GoodCalls'
  BY TextsGrow
<1>1. PICK s \in Slots : calls[s] = NoCall /\ calls' = [calls EXCEPT ![s] = d]
  BY SendTakesASlot
<1>2. /\ calls' \in [Slots -> GoodCalls'] /\ Creating' \subseteq Creating \cup {s}
      /\ (d.kind = "create" /\ d.stage = "sent") \/ Creating' \subseteq Creating
  BY <1>0, <1>1, SlotWritten
<1>3. CASE d.kind = "create"
  BY <1>2, <1>3, RoomTaken DEF EditorInv
<1>4. CASE d.kind # "create"
  BY <1>2, <1>4, RoomKept DEF EditorInv
<1>. QED
  BY <1>2, <1>3, <1>4

\* Calls that are left alone.
LEMMA SlotsKept ==
  ASSUME EditorInv, DOMAIN typed \subseteq DOMAIN typed', calls' = calls, server' = server
  PROVE  calls' \in [Slots -> GoodCalls'] /\ Room'
<1>1. calls' \in [Slots -> GoodCalls']
  BY TextsGrow DEF EditorInv
<1>. QED
  BY <1>1 DEF EditorInv, Room, Creating

\* How often the user was disturbed is counted up to the bound.
LEMMA DisturbCounted ==
  ASSUME EditorInv, NEW condition, disturbIf(condition)
  PROVE  disturbed' \in 0..MaxDisturbances
<1>1. disturbed \in 0..MaxDisturbances
  BY DEF EditorInv, EditorFits
<1>2. disturbed' = disturbed \/ (disturbed < MaxDisturbances /\ disturbed' = disturbed + 1)
  BY DEF disturbIf, disturb
<1>. QED
  BY <1>1, <1>2, BoundTypes

\* What is left when the purchases stay as they are.
LEMMA TypedKept ==
  ASSUME typed' = typed
  PROVE  /\ Begun' = Begun /\ Requests' = Requests /\ GoodCalls' = GoodCalls
         /\ TypedFits /\ reverted' \subseteq reverted \cup DOMAIN typed => TypedFits'
BY DEF Begun, Requests, GoodCalls, Numbered, Carries, TypedFits

\* A draft of a text is a request.
LEMMA DraftFits ==
  ASSUME NEW f \in Begun
  PROVE  Draft(f) \in Requests /\ f \in Form
BY DEF Draft, Requests, Begun

\* An editor that is opened for a new purchase,
LEMMA StartKeeps ==
  ASSUME EditorInv, startNew
  PROVE  EditorInv'
<1>1. typed \in Seq(Texts) /\ Len(typed) \in Nat /\ DOMAIN typed = 1..Len(typed)
      /\ Len(typed) < MaxPurchases /\ typed' = Append(typed, fresh)
      /\ reverted' = reverted /\ reverted \subseteq DOMAIN typed
  BY DEF EditorInv, TypedFits, startNew
<1>2. fresh \in Texts
  BY BoundTypes
<1>3. /\ typed' \in Seq(Texts) /\ Len(typed') = Len(typed) + 1
      /\ DOMAIN typed' = 1..(Len(typed) + 1)
  BY <1>1, <1>2
<1>4. DOMAIN typed \subseteq DOMAIN typed' /\ TypedFits'
  BY <1>1, <1>3, BoundTypes DEF TypedFits
<1>5. TextsFit'
  <2>1. Begun \subseteq Begun' /\ Requests \subseteq Requests'
    BY <1>4, TextsGrow
  <2>. QED
    BY <2>1, FitsGrow DEF EditorInv, TextsFit, startNew
<1>6. calls' \in [Slots -> GoodCalls'] /\ Room'
  BY <1>4, SlotsKept DEF startNew
<1>7. form' \in Begun' /\ form' \in Form
  BY <1>1, <1>3, BoundTypes DEF startNew, Begun, Form
<1>8. EditorFits'
  <2>1. disturbed' \in 0..MaxDisturbances
    BY DisturbCounted DEF startNew
  <2>3. open' = TRUE /\ baseline' = form' /\ active' = TRUE /\ signedIn' = signedIn /\ session' = session
        /\ signedIn
    BY DEF startNew
  <2>4. session \in BOOLEAN /\ signedIn \in BOOLEAN
    BY DEF EditorInv, EditorFits
  <2>5. editingId' \in 0..MaxDrafts
    BY <1>7, BoundTypes DEF startNew
  <2>. QED
    BY <1>7, <2>1, <2>3, <2>4, <2>5 DEF EditorFits
<1>. QED
  BY <1>4, <1>5, <1>6, <1>8 DEF EditorInv

\* or on a draft of the list,
LEMMA ResumeKeeps ==
  ASSUME EditorInv, NEW id \in DOMAIN rows, resume(id)
  PROVE  EditorInv'
<1>1. typed' = typed /\ reverted' = reverted /\ server' = server /\ calls' = calls /\ rows' = rows
  BY DEF resume, past
<1>2. id \in 1..MaxDrafts /\ rows[id] \in Requests
  BY DEF EditorInv, TextsFit, Fits
<1>3. form' \in Begun
  BY <1>2 DEF resume, shown, EditorInv, TextsFit, Fits, Requests
<1>4. Fits(buffers', Begun)
  BY <1>2, <1>3, StoredFits, BoundTypes DEF resume, EditorInv, TextsFit
<1>5. TextsFit'
  BY <1>1, <1>4, TypedKept DEF EditorInv, TextsFit
<1>6. calls' \in [Slots -> GoodCalls'] /\ Room'
  BY <1>1, SlotsKept
<1>7. EditorFits'
  <2>1. disturbed' \in 0..MaxDisturbances
    BY DisturbCounted DEF resume
  <2>2. form' \in Begun' /\ form' \in Form
    BY <1>1, <1>3, TypedKept, DraftFits
  <2>3. open' = TRUE /\ baseline' = form' /\ active' = TRUE /\ signedIn' = signedIn /\ session' = session
        /\ signedIn
    BY DEF resume
  <2>4. session \in BOOLEAN /\ signedIn \in BOOLEAN
    BY DEF EditorInv, EditorFits
  <2>5. editingId' \in 0..MaxDrafts
    BY <1>2, BoundTypes DEF resume
  <2>. QED
    BY <2>2, <2>1, <2>3, <2>4, <2>5 DEF EditorFits
<1>. QED
  BY <1>1, <1>5, <1>6, <1>7, TypedKept DEF EditorInv

\* typing in it,
LEMMA TypeKeeps ==
  ASSUME EditorInv, NEW text \in Texts, type(text)
  PROVE  EditorInv'
<1>. DEFINE p == form.purchase
<1>1. typed \in Seq(Texts) /\ form \in Form /\ p \in DOMAIN typed
  BY DEF EditorInv, TypedFits, EditorFits, type, Begun
<1>2. typed' = [typed EXCEPT ![p] = text] /\ reverted' = reverted
  BY DEF type
<1>3. typed' \in Seq(Texts) /\ Len(typed') = Len(typed) /\ DOMAIN typed' = DOMAIN typed
  BY <1>1, <1>2, SeqChanged
<1>4. TypedFits' /\ Begun' = Begun
  BY <1>2, <1>3 DEF TypedFits, EditorInv, Begun
<1>5. form' \in Begun' /\ form' \in Form
  BY <1>1, <1>3 DEF type, Begun, Form
<1>6. TextsFit'
  <2>1. Fits(buffers', Begun)
    BY <1>4, <1>5, StoredFits DEF type, EditorInv, TextsFit, EditorFits
  <2>2. Requests' = Requests
    BY <1>4 DEF Requests
  <2>. QED
    BY <1>4, <2>1, <2>2 DEF EditorInv, TextsFit, type
<1>7. calls' \in [Slots -> GoodCalls'] /\ Room'
  BY <1>3, SlotsKept DEF type
<1>8. EditorFits'
  BY <1>5, DisturbCounted DEF type, EditorFits, EditorInv
<1>. QED
  BY <1>4, <1>6, <1>7, <1>8 DEF EditorInv

\* A save sends the form of the editor as it is.
LEMMA SaveSends ==
  ASSUME EditorInv, open, NEW next \in {"nothing", "submit", "logout"}, saveNativeDraft(next),
         typed' = typed, server' = server
  PROVE  calls' \in [Slots -> GoodCalls'] /\ Room' /\ disturbed' \in 0..MaxDisturbances
<1>. DEFINE kind == IF editingId = 0 THEN "create" ELSE "update"
            d == NewCall(kind, editingId, form, next)
<1>1. form \in Begun /\ form \in Form /\ editingId \in 0..MaxDrafts
  BY DEF EditorInv, EditorFits
<1>2. /\ kind \in {"create", "update"} /\ (kind = "update" <=> editingId # 0)
  OBVIOUS
<1>. HIDE DEF kind
<1>3. /\ d \in Call /\ d # NoCall /\ d.kind = kind /\ d.id = editingId /\ d.form = form
      /\ d.next = next /\ d.stage = "sent"
  BY <1>1, <1>2, NewCallIs
<1>4. send(d) /\ (kind = "create" => MayCreate) /\ disturbIf(Busy)
  BY <1>2 DEF saveNativeDraft, kind
<1>. HIDE DEF d
<1>5. d \in GoodCalls
  BY <1>1, <1>2, <1>3 DEF GoodCalls, Numbered, Carries
<1>. QED
  BY <1>3, <1>4, <1>5, SlotSent, DisturbCounted

\* The steps that save: what they do to the editor otherwise is little.
LEMMA SavingKeeps ==
  ASSUME EditorInv, NEW next \in {"nothing", "submit", "logout"}, saveNativeDraft(next), open,
         UNCHANGED <<server, session, signedIn, editingId, rows, typed>>,
         reverted' \subseteq reverted \cup {form.purchase},
         buffers' \in {buffers, stored(editingId, form)}, active' \in {TRUE, active},
         \/ UNCHANGED <<open, form, baseline>>
         \/ open' = FALSE /\ form' = Blank /\ baseline' = Blank
  PROVE  EditorInv'
<1>1. calls' \in [Slots -> GoodCalls'] /\ Room' /\ disturbed' \in 0..MaxDisturbances
  BY SaveSends
<1>2. Fits(buffers', Begun)
  BY StoredFits DEF EditorInv, TextsFit, EditorFits
<1>3. TextsFit'
  BY <1>2, TypedKept DEF EditorInv, TextsFit
<1>4. EditorFits'
  BY <1>1, TypedKept, NoCallIs DEF EditorInv, EditorFits
<1>5. form.purchase \in DOMAIN typed
  BY DEF EditorInv, EditorFits, Begun
<1>. QED
  BY <1>1, <1>3, <1>4, <1>5, TypedKept DEF EditorInv

\* The timer, the button, submitting, and closing,
LEMMA SavesKeep ==
  ASSUME EditorInv, autosave \/ save \/ submitNative \/ closeEditor
  PROVE  EditorInv'
<1>1. CASE autosave
  BY <1>1, SavingKeeps DEF autosave, past
<1>2. CASE save
  BY <1>2, SavingKeeps DEF save, screen, past
<1>3. CASE submitNative
  BY <1>3, SavingKeeps DEF submitNative, screen, past
<1>4. CASE closeEditor /\ dirty
  BY <1>4, SavingKeeps DEF closeEditor, noteReverted
<1>5. CASE closeEditor /\ ~dirty
  <2>1. /\ open' = FALSE /\ form' = Blank /\ baseline' = Blank /\ active' = TRUE
        /\ buffers' = stored(editingId, form) /\ open /\ disturbIf(Busy)
        /\ reverted' \subseteq reverted \cup {form.purchase}
        /\ UNCHANGED <<server, session, calls, signedIn, editingId, rows, typed>>
    BY <1>5 DEF closeEditor, noteReverted
  <2>2. Fits(buffers', Begun)
    BY <2>1, StoredFits DEF EditorInv, TextsFit, EditorFits
  <2>3. TextsFit'
    BY <2>1, <2>2, TypedKept DEF EditorInv, TextsFit
  <2>4. EditorFits'
    BY <2>1, DisturbCounted, NoCallIs DEF EditorInv, EditorFits
  <2>5. calls' \in [Slots -> GoodCalls'] /\ Room'
    BY <2>1, SlotsKept
  <2>6. form.purchase \in DOMAIN typed
    BY <2>1 DEF EditorInv, EditorFits, Begun
  <2>. QED
    BY <2>1, <2>3, <2>4, <2>5, <2>6, TypedKept DEF EditorInv
<1>. QED
  BY <1>1, <1>2, <1>3, <1>4, <1>5

\* The steps that change the calls and nothing of the screen or the server.
LEMMA CallingKeeps ==
  ASSUME EditorInv, UNCHANGED <<server, screen, past>>, session' \in BOOLEAN,
         calls' \in [Slots -> GoodCalls'], Room', disturbed' \in 0..MaxDisturbances
  PROVE  EditorInv'
<1>1. TextsFit' /\ EditorFits' /\ TypedFits'
  BY TypedKept DEF EditorInv, TextsFit, EditorFits, screen, past
<1>. QED
  BY <1>1 DEF EditorInv

\* A new call without a text.
LEMMA AskingKeeps ==
  ASSUME EditorInv, UNCHANGED <<server, session, screen, past>>, NEW id \in 0..MaxDrafts,
         \/ send(NewCall("delete", id, Blank, "nothing")) /\ id # 0
         \/ send(NewCall("logout", id, Blank, "nothing")),
         disturbIf(Busy)
  PROVE  EditorInv'
<1>1. PICK kind \in {"delete", "logout"} :
        send(NewCall(kind, id, Blank, "nothing")) /\ (kind = "delete" => id # 0)
  OBVIOUS
<1>. DEFINE d == NewCall(kind, id, Blank, "nothing")
<1>2. d \in Call /\ d # NoCall /\ d.kind = kind /\ d.id = id /\ d.stage = "sent"
  BY NewCallIs, NoCallIs
<1>3. send(d)
  BY <1>1
<1>. HIDE DEF d
<1>4. d \in GoodCalls
  BY <1>1, <1>2 DEF GoodCalls, Numbered, Carries
<1>5. calls' \in [Slots -> GoodCalls'] /\ Room'
  BY <1>2, <1>3, <1>4, SlotSent DEF past
<1>. QED
  BY <1>5, DisturbCounted, CallingKeeps DEF EditorInv, EditorFits

\* and deleting or signing out, which may save first.
LEMMA LeavingKeeps ==
  ASSUME EditorInv, (\E id \in DOMAIN rows : deleteDraft(id)) \/ signOut
  PROVE  EditorInv'
<1>1. CASE \E id \in DOMAIN rows : deleteDraft(id)
  BY <1>1, AskingKeeps DEF deleteDraft, EditorInv, TextsFit, Fits
<1>2. CASE signOut /\ open /\ hasContent(form)
  BY <1>2, SavingKeeps DEF signOut, screen, past
<1>3. CASE signOut /\ ~(open /\ hasContent(form))
  BY <1>3, AskingKeeps, BoundTypes DEF signOut
<1>. QED
  BY <1>1, <1>2, <1>3

\* A call that is refused or lost stays what it was.
LEMMA StagesKeep ==
  ASSUME EditorInv, NEW s \in Slots, calls[s] # NoCall, DOMAIN typed \subseteq DOMAIN typed',
         DOMAIN server' \subseteq DOMAIN server, NEW t \in {"done", "failed", "ended"}, Answer(s, t),
         t = "done" => calls[s].kind \notin {"create", "submit"}
  PROVE  calls' \in [Slots -> GoodCalls'] /\ Room'
<1>1. calls[s] \in GoodCalls /\ calls \in [Slots -> Call]
  BY DEF EditorInv, GoodCalls
<1>2. PICK d \in Call :
        /\ calls' = [calls EXCEPT ![s] = d] /\ d.stage = t
        /\ d.kind = calls[s].kind /\ d.id = calls[s].id /\ d.form = calls[s].form /\ d.next = calls[s].next
  BY <1>1, AnsweredCall
<1>3. d \in GoodCalls
  BY <1>1, <1>2 DEF GoodCalls, Numbered, Carries
<1>4. d \in GoodCalls'
  BY <1>3, TextsGrow
<1>. QED
  BY <1>2, <1>4, SlotAnswered

\* A refusal changes the call alone.
LEMMA RefusalKeeps ==
  ASSUME EditorInv, NEW s \in Slots, calls[s].kind # "none", NEW allowed, refused(s, allowed),
         UNCHANGED <<session, screen, disturbed>>
  PROVE  EditorInv'
<1>1. calls[s] # NoCall
  BY NoCallIs
<1>2. server' = server /\ past' = past /\ typed' = typed /\ (Answer(s, "failed") \/ Answer(s, "ended"))
  BY DEF refused, past
<1>3. calls' \in [Slots -> GoodCalls'] /\ Room'
  BY <1>1, <1>2, StagesKeep
<1>. QED
  BY <1>2, <1>3, CallingKeeps DEF EditorInv, EditorFits

\* What a step of the server changes: the store, the calls, what was given up.
LEMMA ServingKeeps ==
  ASSUME EditorInv, UNCHANGED <<screen, disturbed>>, session' \in BOOLEAN,
         DOMAIN typed' = DOMAIN typed, TypedFits', Fits(server', Requests),
         calls' \in [Slots -> GoodCalls'], Room'
  PROVE  EditorInv'
<1>1. Begun' = Begun /\ Requests' = Requests
  BY DEF Begun, Requests
<1>2. TextsFit' /\ EditorFits'
  BY <1>1 DEF EditorInv, TextsFit, EditorFits, screen
<1>. QED
  BY <1>2 DEF EditorInv

\* A draft is made,
LEMMA CreateKeeps ==
  ASSUME EditorInv, NEW s \in Slots, createArrives(s)
  PROVE  EditorInv'
<1>1. CASE refused(s, sound(s))
  BY <1>1, RefusalKeeps DEF createArrives, arriving
<1>2. CASE ~refused(s, sound(s))
  <2>1. /\ calls[s].kind = "create" /\ calls[s].stage = "sent" /\ server' = put(server, nextNumber, Draft(calls[s].form))
        /\ calls' = [calls EXCEPT ![s].stage = "done", ![s].id = nextNumber]
        /\ typed' = typed /\ reverted' = reverted /\ UNCHANGED <<session, screen, disturbed>>
    BY <1>2 DEF createArrives, arriving, past
  <2>2. calls[s] \in GoodCalls /\ calls[s] \in Call /\ calls \in [Slots -> GoodCalls] /\ s \in Creating
    BY <2>1 DEF EditorInv, GoodCalls, Creating
  <2>3. calls[s].form \in Begun /\ Draft(calls[s].form) \in Requests
    BY <2>1, <2>2, DraftFits DEF GoodCalls, Carries
  <2>4. DOMAIN server' = DOMAIN server \cup {nextNumber}
    BY <2>1 DEF put
  <2>5. calls' = [calls EXCEPT ![s] = [calls[s] EXCEPT !.stage = "done", !.id = nextNumber]]
    BY <2>1, <2>2
  <2>6. PICK d : d = [calls[s] EXCEPT !.stage = "done", !.id = nextNumber]
    OBVIOUS
  <2>7. d.stage = "done"
    BY <2>2, <2>6 DEF Call
  <2>8. \A t \in Slots : calls'[t] = IF t = s THEN d ELSE calls[t]
    BY <2>2, <2>5, <2>6
  <2>9. Room' /\ nextNumber \in 1..MaxDrafts
    <3>1. Creating' \subseteq Creating \ {s}
      BY <2>7, <2>8 DEF Creating
    <3>. QED
      BY <3>1, <2>2, <2>4, RoomUsed DEF EditorInv
  <2>10. /\ d \in Call /\ d.kind = "create" /\ d.id = nextNumber /\ d.form = calls[s].form
    <3>1. nextNumber \in 0..MaxDrafts
      BY <2>9, BoundTypes
    <3>. QED
      BY <2>1, <2>2, <2>6, <3>1, CreateAnswered DEF Call
  <2>11. d \in GoodCalls
    BY <2>3, <2>7, <2>9, <2>10 DEF GoodCalls, Numbered, Carries
  <2>12. calls' \in [Slots -> GoodCalls']
    BY <2>1, <2>2, <2>5, <2>6, <2>11, TypedKept
  <2>13. Fits(server', Requests)
    BY <2>1, <2>3, <2>9, PutFits DEF EditorInv, TextsFit
  <2>. QED
    BY <2>1, <2>9, <2>12, <2>13, TypedKept, ServingKeeps DEF EditorInv, EditorFits
<1>. QED
  BY <1>1, <1>2

\* written over,
LEMMA UpdateKeeps ==
  ASSUME EditorInv, NEW s \in Slots, updateArrives(s)
  PROVE  EditorInv'
<1>1. CASE refused(s, sound(s) /\ isDraft(calls[s].id))
  BY <1>1, RefusalKeeps DEF updateArrives, arriving
<1>2. CASE ~refused(s, sound(s) /\ isDraft(calls[s].id))
  <2>1. /\ calls[s].kind = "update" /\ calls[s].stage = "sent" /\ isDraft(calls[s].id)
        /\ server' = [server EXCEPT ![calls[s].id].form = calls[s].form] /\ Answer(s, "done")
        /\ typed' = typed /\ reverted' = reverted /\ UNCHANGED <<session, screen, disturbed>>
    BY <1>2 DEF updateArrives, arriving, past
  <2>2. calls[s] \in GoodCalls
    BY DEF EditorInv
  <2>3. calls[s].form \in Begun
    BY <2>1, <2>2, DraftFits DEF GoodCalls, Carries
  <2>4. server[calls[s].id] \in Requests
    BY <2>1 DEF isDraft, EditorInv, TextsFit, Fits
  <2>5. [server[calls[s].id] EXCEPT !.form = calls[s].form] \in Requests
    <3>. DEFINE T == Begun
                S == {"Draft", "Pending Supervisor Approval"}
    <3>1. calls[s].form \in T /\ server[calls[s].id] \in [form : T, status : S] /\ Requests = [form : T, status : S]
      BY <2>3, <2>4 DEF Requests
    <3>. HIDE DEF T, S
    <3>. QED
      BY <3>1
  <2>6. Fits(server', Requests) /\ DOMAIN server' = DOMAIN server
    BY <2>1, <2>5, ChangeFits DEF EditorInv, TextsFit
  <2>7. calls' \in [Slots -> GoodCalls'] /\ Room'
    BY <2>1, <2>6, NoCallIs, StagesKeep
  <2>. QED
    BY <2>1, <2>6, <2>7, TypedKept, ServingKeeps DEF EditorInv, EditorFits
<1>. QED
  BY <1>1, <1>2

\* submitted,
LEMMA SubmitKeeps ==
  ASSUME EditorInv, NEW s \in Slots, submitArrives(s)
  PROVE  EditorInv'
<1>. DEFINE id == calls[s].id
            complete == isDraft(id) /\ server[id].form.text \in Complete
<1>1. CASE refused(s, complete)
  BY <1>1, RefusalKeeps DEF submitArrives, arriving
<1>2. CASE ~refused(s, complete)
  <2>1. /\ calls[s].kind = "submit" /\ calls[s].stage = "sent" /\ isDraft(id)
        /\ server' = [server EXCEPT ![id].status = "Pending Supervisor Approval"]
        /\ calls' = [calls EXCEPT ![s].stage = "done", ![s].form = server[id].form]
        /\ typed' = typed /\ reverted' = reverted /\ UNCHANGED <<session, screen, disturbed>>
    BY <1>2 DEF submitArrives, arriving, past
  <2>2. calls[s] \in GoodCalls /\ calls[s] \in Call /\ calls \in [Slots -> GoodCalls]
    BY DEF EditorInv, GoodCalls
  <2>3. server[id] \in Requests /\ id \in DOMAIN server
    BY <2>1 DEF isDraft, EditorInv, TextsFit, Fits
  <2>4. [server[id] EXCEPT !.status = "Pending Supervisor Approval"] \in Requests
    <3>. DEFINE T == Begun
                S == {"Draft", "Pending Supervisor Approval"}
    <3>1. "Pending Supervisor Approval" \in S /\ server[id] \in [form : T, status : S] /\ Requests = [form : T, status : S]
      BY <2>3 DEF Requests
    <3>. HIDE DEF T, S, id
    <3>. QED
      BY <3>1
  <2>5. Fits(server', Requests) /\ DOMAIN server' = DOMAIN server
    BY <2>1, <2>4, ChangeFits DEF EditorInv, TextsFit
  <2>6. server[id].form \in Begun /\ server[id].form \in Form
    BY <2>3 DEF Requests, Begun
  <2>7. PICK d : d = [calls[s] EXCEPT !.stage = "done", !.form = server[id].form]
    OBVIOUS
  <2>8. calls' = [calls EXCEPT ![s] = d]
    BY <2>1, <2>2, <2>7
  <2>9. d \in Call /\ d.kind = "submit" /\ d.stage = "done" /\ d.id = id /\ d.form = server[id].form
    BY <2>1, <2>2, <2>6, <2>7, SubmitAnswered DEF Call
  <2>10. d \in GoodCalls
    BY <2>1, <2>2, <2>6, <2>9 DEF GoodCalls, Numbered, Carries
  <2>11. calls' \in [Slots -> GoodCalls'] /\ Room'
    BY <2>1, <2>5, <2>8, <2>9, <2>10, TypedKept, SlotAnswered
  <2>. QED
    BY <2>1, <2>5, <2>11, TypedKept, ServingKeeps DEF EditorInv, EditorFits
<1>. QED
  BY <1>1, <1>2

\* or deleted, with what was typed of it given up,
LEMMA DeleteKeeps ==
  ASSUME EditorInv, NEW s \in Slots, deleteArrives(s)
  PROVE  EditorInv'
<1>. DEFINE id == calls[s].id
<1>1. CASE refused(s, isDraft(id))
  BY <1>1, RefusalKeeps DEF deleteArrives, arriving
<1>2. CASE ~refused(s, isDraft(id))
  <2>1. /\ calls[s].kind = "delete" /\ isDraft(id)
        /\ server' = [i \in DOMAIN server \ {id} |-> server[i]]
        /\ typed' = [typed EXCEPT ![server[id].form.purchase] = fresh] /\ Answer(s, "done")
        /\ reverted' = reverted \ {server[id].form.purchase}
        /\ UNCHANGED <<session, screen, disturbed>>
    BY <1>2 DEF deleteArrives, arriving
  <2>2. Fits(server', Requests) /\ DOMAIN server' \subseteq DOMAIN server
    BY <2>1, RemoveFits DEF EditorInv, TextsFit
  <2>3. TypedFits' /\ DOMAIN typed' = DOMAIN typed
    <3>0. server[id].form \in Begun
      BY <2>1 DEF isDraft, EditorInv, TextsFit, Fits, Requests
    <3>1. typed \in Seq(Texts) /\ fresh \in Texts /\ server[id].form.purchase \in DOMAIN typed
      BY <3>0, BoundTypes DEF EditorInv, TypedFits, Begun
    <3>2. typed' \in Seq(Texts) /\ Len(typed') = Len(typed) /\ DOMAIN typed' = DOMAIN typed
      BY <2>1, <3>1, SeqChanged
    <3>. QED
      BY <2>1, <3>2 DEF TypedFits, EditorInv
  <2>4. calls' \in [Slots -> GoodCalls'] /\ Room'
    BY <2>1, <2>2, <2>3, NoCallIs, StagesKeep
  <2>. QED
    BY <2>1, <2>2, <2>3, <2>4, ServingKeeps DEF EditorInv, EditorFits
<1>. QED
  BY <1>1, <1>2

\* and a session ends, or a call is lost.
LEMMA EndingKeeps ==
  ASSUME EditorInv, Expire \/ \E s \in Slots : logoutArrives(s) \/ Lose(s)
  PROVE  EditorInv'
<1>1. CASE Expire
  <2>1. calls' \in [Slots -> GoodCalls'] /\ Room'
    BY <1>1, SlotsKept DEF Expire, past
  <2>2. disturbed' \in 0..MaxDisturbances
    BY <1>1, DisturbCounted DEF Expire, disturbIf
  <2>. QED
    BY <1>1, <2>1, <2>2, CallingKeeps DEF Expire
<1>2. ASSUME NEW s \in Slots, logoutArrives(s) PROVE EditorInv'
  <2>1. calls' \in [Slots -> GoodCalls'] /\ Room'
    BY <1>2, NoCallIs, StagesKeep DEF logoutArrives, arriving, past
  <2>. QED
    BY <1>2, <2>1, CallingKeeps DEF logoutArrives, EditorInv, EditorFits
<1>3. ASSUME NEW s \in Slots, Lose(s) PROVE EditorInv'
  <2>1. calls' \in [Slots -> GoodCalls'] /\ Room'
    BY <1>3, NoCallIs, StagesKeep DEF Lose, past
  <2>2. disturbed' \in 0..MaxDisturbances
    BY <1>3, DisturbCounted DEF Lose, disturbIf
  <2>. QED
    BY <1>3, <2>1, <2>2, CallingKeeps DEF Lose, EditorInv, EditorFits
<1>. QED
  BY <1>1, <1>2, <1>3

\* What the page goes on to do takes the slot of the call it was told of.
LEMMA GoingOnKeeps ==
  ASSUME EditorInv, NEW s \in Slots, NEW d, d \in GoodCalls, d.kind # "create", then(s, d),
         UNCHANGED <<server, session, past, disturbed>>
  PROVE  calls' \in [Slots -> GoodCalls'] /\ Room'
BY TypedKept, SlotAnswered DEF then, past

\* It signs out, or does nothing more.
LEMMA OnwardIs ==
  ASSUME EditorInv, NEW next
  PROVE  onward(next) \in GoodCalls /\ onward(next).kind \in {"none", "logout"}
<1>1. NoCall \in GoodCalls
  BY NoCallIs DEF GoodCalls, Numbered, Carries
<1>2. /\ logout \in Call /\ logout.kind = "logout" /\ logout.stage = "sent"
  BY NewCallIs, NoCallIs, BoundTypes DEF logout
<1>3. logout \in GoodCalls
  BY <1>2 DEF GoodCalls, Numbered, Carries
<1>. QED
  BY <1>1, <1>2, <1>3, NoCallIs DEF onward

\* The number a save was given goes to the editor, the list and the copies.
LEMMA SavedKeeps ==
  ASSUME EditorInv, NEW s \in Slots, saveAnswered(s)
  PROVE  EditorInv'
<1>. DEFINE c == calls[s]
            d == IF c.next = "submit" THEN NewCall("submit", c.id, Blank, "nothing") ELSE onward(c.next)
<1>1. /\ c.kind \in {"create", "update"} /\ c.stage = "done"
      /\ rows' = put(rows, c.id, Draft(c.form)) /\ editingId' = c.id
      /\ buffers' = stored(c.id, IF open /\ editingId # c.id THEN form ELSE c.form)
      /\ then(s, d)
      /\ typed' = typed /\ reverted' = reverted
      /\ UNCHANGED <<server, session, signedIn, open, form, baseline, active, past, disturbed>>
  BY DEF saveAnswered, past
<1>2. c \in GoodCalls /\ c \in Call /\ c.form \in Begun /\ c.id # 0
  BY <1>1 DEF EditorInv, GoodCalls, Carries, Numbered
<1>3. c.id \in 1..MaxDrafts /\ c.id \in 0..MaxDrafts
  BY <1>2, CallFields, BoundTypes
<1>. HIDE DEF c
<1>4. d \in GoodCalls /\ d.kind # "create"
  <2>1. CASE c.next = "submit"
    <3>1. /\ NewCall("submit", c.id, Blank, "nothing") \in Call
          /\ NewCall("submit", c.id, Blank, "nothing").kind = "submit"
          /\ NewCall("submit", c.id, Blank, "nothing").id = c.id
          /\ NewCall("submit", c.id, Blank, "nothing").stage = "sent"
      BY <1>3, NewCallIs, NoCallIs
    <3>2. NewCall("submit", c.id, Blank, "nothing") \in GoodCalls
      BY <1>2, <3>1 DEF GoodCalls, Numbered, Carries
    <3>. QED
      BY <2>1, <3>1, <3>2
  <2>2. CASE c.next # "submit"
    BY <2>2, OnwardIs
  <2>. QED
    BY <2>1, <2>2
<1>. HIDE DEF d
<1>5. calls' \in [Slots -> GoodCalls'] /\ Room'
  BY <1>1, <1>4, GoingOnKeeps
<1>6. Fits(rows', Requests)
  BY <1>1, <1>2, <1>3, DraftFits, PutFits DEF EditorInv, TextsFit
<1>7. Fits(buffers', Begun)
  <2>1. open => form \in Begun
    BY DEF EditorInv, EditorFits
  <2>. QED
    BY <1>1, <1>2, <1>3, <2>1, StoredFits DEF EditorInv, TextsFit
<1>8. TextsFit'
  BY <1>1, <1>6, <1>7, TypedKept DEF EditorInv, TextsFit
<1>9. EditorFits'
  BY <1>1, <1>3, TypedKept DEF EditorInv, EditorFits
<1>. QED
  BY <1>1, <1>5, <1>8, <1>9, TypedKept DEF EditorInv

\* The editor closes after a submission,
LEMMA SubmittedKeeps ==
  ASSUME EditorInv, NEW s \in Slots, submitAnswered(s)
  PROVE  EditorInv'
<1>. DEFINE c == calls[s]
<1>1. /\ c.kind = "submit" /\ c.stage = "done" /\ then(s, NoCall)
      /\ rows' = IF c.id \in DOMAIN rows
                 THEN [rows EXCEPT ![c.id] = [form |-> c.form, status |-> "Pending Supervisor Approval"]]
                 ELSE rows
      /\ editingId' = 0 /\ open' = FALSE /\ form' = Blank /\ baseline' = Blank /\ active' = open
      /\ typed' = typed /\ reverted' = reverted
      /\ UNCHANGED <<server, session, signedIn, buffers, past, disturbed>>
  BY DEF submitAnswered, past
<1>2. c \in GoodCalls /\ c.form \in Begun
  BY <1>1 DEF EditorInv, GoodCalls, Carries
<1>. HIDE DEF c
<1>3. NoCall \in GoodCalls /\ NoCall.kind # "create"
  BY NoCallIs DEF GoodCalls, Numbered, Carries
<1>4. calls' \in [Slots -> GoodCalls'] /\ Room'
  BY <1>1, <1>3, GoingOnKeeps
<1>5. [form |-> c.form, status |-> "Pending Supervisor Approval"] \in Requests
  BY <1>2 DEF Requests
<1>6. Fits(rows', Requests)
  BY <1>1, <1>5, ChangeFits DEF EditorInv, TextsFit
<1>7. TextsFit'
  BY <1>1, <1>6, TypedKept DEF EditorInv, TextsFit
<1>8. EditorFits'
  <2>1. open \in BOOLEAN /\ form \in Form
    BY DEF EditorInv, EditorFits
  <2>. QED
    BY <1>1, <2>1, ZeroFits, NoCallIs DEF EditorInv, EditorFits
<1>. QED
  BY <1>1, <1>4, <1>7, <1>8, TypedKept DEF EditorInv

\* after its draft was deleted,
LEMMA DeletedKeeps ==
  ASSUME EditorInv, NEW s \in Slots, deleteAnswered(s)
  PROVE  EditorInv'
<1>. DEFINE id == calls[s].id
<1>1. /\ then(s, NoCall)
      /\ rows' = [i \in DOMAIN rows \ {id} |-> rows[i]]
      /\ buffers' = [i \in DOMAIN buffers \ {id} |-> buffers[i]]
      /\ \/ editingId' = 0 /\ open' = FALSE /\ baseline' = Blank /\ form' = Blank /\ active' = open
         \/ UNCHANGED <<editingId, open, baseline, form, active>>
      /\ typed' = typed /\ reverted' = reverted
      /\ UNCHANGED <<server, session, signedIn, past, disturbed>>
  BY DEF deleteAnswered, past
<1>. HIDE DEF id
<1>2. NoCall \in GoodCalls /\ NoCall.kind # "create"
  BY NoCallIs DEF GoodCalls, Numbered, Carries
<1>3. calls' \in [Slots -> GoodCalls'] /\ Room'
  BY <1>1, <1>2, GoingOnKeeps
<1>4. Fits(rows', Requests) /\ Fits(buffers', Begun)
  BY <1>1, RemoveFits DEF EditorInv, TextsFit
<1>5. TextsFit'
  BY <1>1, <1>4, TypedKept DEF EditorInv, TextsFit
<1>6. EditorFits'
  <2>1. CASE editingId' = 0 /\ open' = FALSE /\ baseline' = Blank /\ form' = Blank /\ active' = open
    <3>1. open \in BOOLEAN
      BY DEF EditorInv, EditorFits
    <3>. QED
      BY <1>1, <2>1, <3>1, NoCallIs, ZeroFits DEF EditorInv, EditorFits
  <2>2. CASE UNCHANGED <<editingId, open, baseline, form, active>>
    BY <1>1, <2>2, TypedKept DEF EditorInv, EditorFits
  <2>. QED
    BY <1>1, <2>1, <2>2
<1>. QED
  BY <1>1, <1>3, <1>5, <1>6, TypedKept DEF EditorInv

\* and when the session is over, with everything written locally;
LEMMA ClearingKeeps ==
  ASSUME EditorInv, NEW s \in Slots, sessionEnded(s) \/ logoutAnswered(s)
  PROVE  EditorInv'
<1>1. PICK d \in GoodCalls : then(s, d) /\ d.kind # "create"
  <2>1. NoCall \in GoodCalls /\ NoCall.kind # "create"
    BY NoCallIs DEF GoodCalls, Numbered, Carries
  <2>. QED
    BY <2>1, OnwardIs DEF sessionEnded, logoutAnswered
<1>2. endLocalSession
  BY DEF sessionEnded, logoutAnswered
<1>3. calls' \in [Slots -> GoodCalls'] /\ Room'
  BY <1>1, <1>2, GoingOnKeeps DEF endLocalSession
<1>4. TextsFit'
  BY <1>2, TypedKept DEF endLocalSession, EditorInv, TextsFit, Fits, past
<1>5. EditorFits'
  <2>1. open \in BOOLEAN /\ session \in BOOLEAN /\ disturbed \in 0..MaxDisturbances
    BY DEF EditorInv, EditorFits
  <2>. QED
    BY <1>2, <2>1, NoCallIs, ZeroFits DEF endLocalSession, EditorFits
<1>. QED
  BY <1>2, <1>3, <1>4, <1>5, TypedKept DEF EditorInv, endLocalSession, past

\* a failure shows a notice.
LEMMA FailingKeeps ==
  ASSUME EditorInv, NEW s \in Slots, callFailed(s)
  PROVE  EditorInv'
<1>1. calls' \in [Slots -> GoodCalls'] /\ Room'
  BY OnwardIs, GoingOnKeeps DEF callFailed
<1>. QED
  BY <1>1, CallingKeeps DEF callFailed, EditorInv, EditorFits

\* Nothing was begun yet.
LEMMA EditorInitGood == Init => EditorInv
<1>. SUFFICES ASSUME Init PROVE EditorInv
  OBVIOUS
<1>1. TextsFit
  BY DEF Init, TextsFit, Fits
<1>2. NoCall \in GoodCalls
  BY NoCallIs DEF GoodCalls, Numbered, Carries
<1>3. Creating = {} /\ DOMAIN server = {}
  BY NoCallIs DEF Init, Creating
<1>4. Room
  BY <1>3, FS_EmptySet, BoundTypes DEF Room
<1>5. EditorFits
  BY NoCallIs, ZeroFits DEF Init, EditorFits
<1>6. TypedFits
  BY BoundTypes DEF Init, TypedFits
<1>. QED
  BY <1>1, <1>2, <1>4, <1>5, <1>6 DEF Init, EditorInv

\* Every step keeps the invariant.
LEMMA EditorNextGood == EditorInv /\ [Next]_dvars => EditorInv'
<1>. SUFFICES ASSUME EditorInv, [Next]_dvars PROVE EditorInv'
  OBVIOUS
<1>1. CASE user
  BY <1>1, StartKeeps, ResumeKeeps, TypeKeeps, SavesKeep, LeavingKeeps DEF user
<1>2. CASE autosave \/ Expire
  BY <1>2, SavesKeep, EndingKeeps
<1>3. ASSUME NEW s \in Slots, arrives(s) \/ Lose(s) PROVE EditorInv'
  BY <1>3, CreateKeeps, UpdateKeeps, SubmitKeeps, DeleteKeeps, EndingKeeps DEF arrives
<1>4. ASSUME NEW s \in Slots, answered(s) PROVE EditorInv'
  BY <1>4, SavedKeeps, SubmittedKeeps, DeletedKeeps, ClearingKeeps, FailingKeeps DEF answered
<1>5. CASE UNCHANGED dvars
  <2>1. calls' \in [Slots -> GoodCalls'] /\ Room'
    BY <1>5, SlotsKept DEF dvars, past
  <2>. QED
    BY <1>5, <2>1, CallingKeeps DEF dvars, EditorInv, EditorFits
<1>. QED
  BY <1>1, <1>2, <1>3, <1>4, <1>5 DEF Next

\* The invariant of every run holds.
THEOREM EditorInvAlways == FairSpec => []EditorInv
BY EditorInitGood, EditorNextGood, PTL DEF FairSpec

\* Every variable stays in its type, and the editor on the screen belongs to
\* a session the page believes in and to a purchase.
THEOREM EditorTypes == FairSpec => []EditorTypeOK
<1>1. EditorInv => EditorTypeOK
  <2>. SUFFICES ASSUME EditorInv PROVE EditorTypeOK
    OBVIOUS
  <2>1. Begun \subseteq Form /\ Requests \subseteq Record
    BY DEF Begun, Requests, Record
  <2>2. /\ DOMAIN server \subseteq 1..MaxDrafts /\ \A i \in DOMAIN server : server[i] \in Record
        /\ DOMAIN rows \subseteq 1..MaxDrafts /\ \A i \in DOMAIN rows : rows[i] \in Record
        /\ DOMAIN buffers \subseteq 1..MaxDrafts /\ \A i \in DOMAIN buffers : buffers[i] \in Form
    BY <2>1 DEF EditorInv, TextsFit, Fits
  <2>3. calls \in [Slots -> Call]
    BY DEF EditorInv, GoodCalls
  <2>4. Len(typed) <= MaxPurchases /\ reverted \subseteq DOMAIN typed /\ \A p \in DOMAIN typed : typed[p] \in Texts
    BY ItemFits DEF EditorInv, TypedFits
  <2>5. open => signedIn /\ form.purchase # 0
    <3>1. 0 \notin DOMAIN typed
      BY DEF EditorInv, TypedFits
    <3>. QED
      BY <3>1 DEF EditorInv, EditorFits, Begun
  <2>. QED
    BY <2>2, <2>3, <2>4, <2>5 DEF EditorInv, EditorFits, EditorTypeOK
<1>. QED
  BY <1>1, EditorInvAlways, PTL

\* What SubmittedNeverChanges says of one step.
SubmittedStays ==
  \A i \in DOMAIN server : server[i].status # "Draft" => i \in DOMAIN server' /\ server'[i] = server[i]

\* The server writes over, submits and deletes drafts alone, and gives a new
\* one a number nobody has.
LEMMA SubmittedStaysPut ==
  ASSUME EditorInv, [Next]_dvars
  PROVE  SubmittedStays
<1>1. CASE server' = server
  BY <1>1 DEF SubmittedStays
<1>2. ASSUME NEW s \in Slots, createArrives(s), server' # server PROVE SubmittedStays
  <2>1. server' = put(server, nextNumber, Draft(calls[s].form))
    BY <1>2 DEF createArrives, refused
  <2>2. nextNumber \notin DOMAIN server
    BY NextIsNew DEF EditorInv
  <2>. QED
    BY <2>1, <2>2 DEF put, SubmittedStays
<1>3. ASSUME NEW s \in Slots, updateArrives(s), server' # server PROVE SubmittedStays
  BY <1>3 DEF updateArrives, refused, isDraft, SubmittedStays
<1>4. ASSUME NEW s \in Slots, submitArrives(s), server' # server PROVE SubmittedStays
  BY <1>4 DEF submitArrives, refused, isDraft, SubmittedStays
<1>5. ASSUME NEW s \in Slots, deleteArrives(s), server' # server PROVE SubmittedStays
  BY <1>5 DEF deleteArrives, refused, isDraft, SubmittedStays
<1>6. CASE user \/ autosave \/ Expire \/ UNCHANGED dvars
  <2>1. server' = server
    <3>1. CASE user
      BY <3>1 DEF user, startNew, type, save, closeEditor, submitNative, signOut, resume, deleteDraft
    <3>2. CASE autosave \/ Expire \/ UNCHANGED dvars
      BY <3>2 DEF autosave, Expire, dvars
    <3>. QED
      BY <1>6, <3>1, <3>2
  <2>. QED
    BY <1>1, <2>1
<1>7. ASSUME NEW s \in Slots, logoutArrives(s) \/ Lose(s) \/ answered(s) PROVE SubmittedStays
  <2>1. server' = server
    BY <1>7 DEF logoutArrives, Lose, answered, saveAnswered, submitAnswered, deleteAnswered, callFailed,
                sessionEnded, logoutAnswered, endLocalSession
  <2>. QED
    BY <1>1, <2>1
<1>. QED
  BY <1>1, <1>2, <1>3, <1>4, <1>5, <1>6, <1>7 DEF Next, arrives

\* Saves of an editor may be served in any order and long after a request was
\* submitted: none changes or removes it.
THEOREM SubmittedIsFinal == FairSpec => SubmittedNeverChanges
<1>1. EditorInv /\ [Next]_dvars => [SubmittedStays]_dvars
  BY SubmittedStaysPut
<1>. QED
  BY <1>1, EditorInvAlways, PTL DEF FairSpec, SubmittedNeverChanges, SubmittedStays

-----------------------------------------------------------------------------
(* A user who waits for each answer: nothing is lost, nothing is doubled.  *)

\* Nothing has disturbed the user, and this is the call under way.
Waiting(c) == EditorInv /\ disturbed = 0 /\ Alone(c) /\ CalmWith(c)

\* The user overlapped nothing with this step either.
LEMMA NotDisturbed ==
  ASSUME disturbed = 0, disturbed' = 0, NEW condition, disturbIf(condition)
  PROVE  ~condition
BY DEF disturbIf, disturb

\* The call under way is the only one.
LEMMA AloneIs ==
  ASSUME EditorInv, NEW c, Alone(c)
  PROVE  /\ c \in GoodCalls /\ c \in Call /\ \A t \in Slots : calls[t] \in {c, NoCall}
         /\ c = NoCall \/ \E s \in Slots : calls[s] = c
         /\ Busy <=> c # NoCall
<1>1. NoCall \in GoodCalls /\ calls \in [Slots -> GoodCalls] /\ GoodCalls \subseteq Call
  BY NoCallIs DEF GoodCalls, Numbered, Carries, EditorInv
<1>2. \A t \in Slots : calls[t] \in {c, NoCall}
  BY DEF Alone
<1>3. c = NoCall \/ \E s \in Slots : calls[s] = c
  BY DEF Alone
<1>4. Busy <=> \E s \in Slots : calls[s] # NoCall
  BY DEF Busy, Free
<1>. QED
  BY <1>1, <1>2, <1>3, <1>4

\* One that is sent while there is none is alone,
LEMMA AloneSent ==
  ASSUME EditorInv, Alone(NoCall), NEW d, d # NoCall, send(d)
  PROVE  Alone(d)'
<1>1. PICK s \in Slots : calls' = [calls EXCEPT ![s] = d]
  BY SendTakesASlot
<1>2. calls = [t \in Slots |-> calls[t]] /\ \A t \in Slots : calls[t] = NoCall
  BY DEF EditorInv, Alone
<1>3. calls' = [t \in Slots |-> IF t = s THEN d ELSE NoCall]
  BY <1>1, <1>2
<1>. QED
  BY <1>3 DEF Alone

\* and so is what becomes of it.
LEMMA AloneAnswered ==
  ASSUME EditorInv, NEW c, Alone(c), NEW s \in Slots, calls[s] # NoCall, NEW d, calls' = [calls EXCEPT ![s] = d]
  PROVE  calls[s] = c /\ c # NoCall /\ Alone(d)'
<1>1. PICK r \in Slots : calls = [t \in Slots |-> IF t = r THEN c ELSE NoCall] /\ c # NoCall
  BY DEF Alone
<1>2. s = r
  BY <1>1
<1>3. calls' = [t \in Slots |-> IF t = s THEN d ELSE NoCall]
  BY <1>1, <1>2
<1>4. d = NoCall => \A t \in Slots : calls'[t] = NoCall
  BY <1>3
<1>. QED
  BY <1>1, <1>2, <1>3, <1>4 DEF Alone

\* It stays alone while the calls are left as they are.
LEMMA AloneKept ==
  ASSUME NEW c, Alone(c), calls' = calls
  PROVE  Alone(c)'
BY DEF Alone

\* Every text is of a purchase that was begun, and no draft has number 0.
LEMMA TextsKnown ==
  ASSUME EditorInv
  PROVE  /\ 0 \notin DOMAIN server /\ 0 \notin DOMAIN rows /\ 0 \notin DOMAIN buffers
         /\ \A i \in DOMAIN server : server[i].form \in Begun
         /\ \A i \in DOMAIN rows : rows[i].form \in Begun
         /\ open => form \in Begun /\ signedIn
         /\ \A f \in Begun : f \in Form /\ f.purchase \in DOMAIN typed
<1>1. 0 \notin DOMAIN server /\ 0 \notin DOMAIN rows /\ 0 \notin DOMAIN buffers
  BY BoundTypes DEF EditorInv, TextsFit, Fits
<1>2. \A r \in Requests : r.form \in Begun
  BY DEF Requests
<1>3. /\ \A i \in DOMAIN server : server[i].form \in Begun
      /\ \A i \in DOMAIN rows : rows[i].form \in Begun
  BY <1>2 DEF EditorInv, TextsFit, Fits
<1>4. open => form \in Begun /\ signedIn
  BY DEF EditorInv, EditorFits
<1>. QED
  BY <1>1, <1>3, <1>4 DEF Begun

\* What was typed last of a purchase.
LEMMA LastIs ==
  ASSUME NEW p
  PROVE  /\ LastOf(p).purchase = p /\ LastOf(p).text = typed[p]
         /\ (LastOf(p)').purchase = p /\ (LastOf(p)').text = typed'[p]
         /\ typed'[p] = typed[p] => LastOf(p)' = LastOf(p)
BY DEF LastOf

\* While the server does not change, what is said of it stays true.
LEMMA ServerSame ==
  ASSUME server' = server
  PROVE  /\ UniqueDrafts' <=> UniqueDrafts
         /\ \A f : Written(f)' <=> Written(f)
         /\ \A p : Unwritten(p)' <=> Unwritten(p)
         /\ \A id : isDraft(id)' <=> isDraft(id)
BY DEF UniqueDrafts, Written, Unwritten, isDraft

\* No call says nothing, and is not done.
LEMMA CalmNoCall == CalmCall(NoCall) /\ CalmCall(NoCall)' /\ \A kind : ~Done(NoCall, kind)
BY NoCallIs DEF CalmCall, Done

\* A row stays right when its request and its row do, when it is on the screen
\* still or its copy stays, and when nothing new was typed of it.
LEMMA RowKept ==
  ASSUME NEW c, NEW d, NEW id, CalmRow(c, id), ~(Done(c, "delete") /\ c.id = id),
         id \in DOMAIN server' \/ id \notin DOMAIN server,
         server'[id].form.purchase = server[id].form.purchase, server'[id].status = server[id].status,
         rows'[id] = rows[id],
         Done(c, "submit") /\ c.id = id => Done(d, "submit") /\ d.id = id,
         \/ open' /\ editingId' = id
         \/ /\ ~(open /\ editingId = id)
            /\ id \in DOMAIN buffers' <=> id \in DOMAIN buffers
            /\ id \in DOMAIN buffers => buffers'[id] = buffers[id]
            /\ typed'[rows[id].form.purchase] = typed[rows[id].form.purchase]
  PROVE  CalmRow(d, id)'
<1>1. /\ id \in DOMAIN server' /\ server'[id].form.purchase = rows'[id].form.purchase
      /\ rows'[id].status = "Draft" /\ ~(Done(d, "submit") /\ d.id = id) => isDraft(id)'
  BY DEF CalmRow, isDraft
<1>2. ~(open' /\ editingId' = id) => shown(id)' = LastOf(rows[id].form.purchase)'
  <2>. SUFFICES ASSUME ~(open' /\ editingId' = id) PROVE shown(id)' = LastOf(rows[id].form.purchase)'
    OBVIOUS
  <2>1. shown(id)' = shown(id)
    BY DEF shown
  <2>2. shown(id) = LastOf(rows[id].form.purchase)
    BY DEF CalmRow
  <2>. QED
    BY <2>1, <2>2 DEF LastOf
<1>. QED
  BY <1>1, <1>2 DEF CalmRow, Done

\* A local copy is written for the draft of the editor alone.
LEMMA StoredElsewhere ==
  ASSUME NEW id, NEW f, buffers' = stored(id, f)
  PROVE  /\ \A k : k # id => (k \in DOMAIN buffers' <=> k \in DOMAIN buffers)
                             /\ (k \in DOMAIN buffers => buffers'[k] = buffers[k])
         /\ id # 0 => id \in DOMAIN buffers' /\ buffers'[id] = f
BY DEF stored, put

\* The draft on the screen, while no call is done.
LEMMA OnScreen ==
  ASSUME NEW c, EditorInv, CalmEditor(c), CalmRows(c), open, \A kind : ~Done(c, kind)
  PROVE  /\ form = LastOf(form.purchase) /\ form \in Begun /\ form \in Form
         /\ editingId = 0 => /\ baseline = [purchase |-> form.purchase, text |-> fresh]
                             /\ Unwritten(form.purchase)
         /\ editingId # 0 => /\ editingId \in DOMAIN rows /\ rows[editingId].form.purchase = form.purchase
                             /\ isDraft(editingId) /\ server[editingId].form.purchase = form.purchase
<1>1. form \in Begun /\ form \in Form
  BY TextsKnown
<1>2. editingId # 0 => /\ editingId \in DOMAIN rows /\ rows[editingId].form.purchase = form.purchase
                       /\ isDraft(editingId)
  BY DEF CalmEditor
<1>3. editingId # 0 => server[editingId].form.purchase = form.purchase
  BY <1>2 DEF CalmRows, CalmRow
<1>. QED
  BY <1>1, <1>2, <1>3 DEF CalmEditor

\* Opening an editor for a new purchase,
LEMMA StartCalm ==
  ASSUME NEW c, Waiting(c), disturbed' = 0, startNew
  PROVE  Alone(NoCall)' /\ CalmWith(NoCall)'
<1>1. c = NoCall
  BY NotDisturbed, AloneIs DEF Waiting, startNew
<1>2. EditorInv /\ Alone(NoCall) /\ CalmWith(NoCall)
  BY <1>1 DEF Waiting
<1>3. PICK n : n = Len(typed) + 1
  OBVIOUS
<1>4. /\ UNCHANGED <<server, session, calls, signedIn, rows, buffers, reverted>>
      /\ typed' = Append(typed, fresh) /\ form' = [purchase |-> n, text |-> fresh]
      /\ baseline' = form' /\ editingId' = 0 /\ open' = TRUE /\ ~open
  BY <1>3 DEF startNew
<1>5. /\ DOMAIN typed = 1..Len(typed) /\ Len(typed) \in Nat /\ DOMAIN typed' = DOMAIN typed \cup {n}
      /\ n \notin DOMAIN typed /\ typed'[n] = fresh /\ \A p \in DOMAIN typed : typed'[p] = typed[p]
  BY <1>2, <1>3, <1>4 DEF EditorInv, TypedFits
<1>6. CalmEditor(NoCall)'
  <2>1. form' = LastOf(n)' /\ form'.purchase = n
    BY <1>4, <1>5 DEF LastOf
  <2>2. Unwritten(n)'
    BY <1>2, <1>4, <1>5, TextsKnown DEF Unwritten
  <2>3. form' = LastOf(form.purchase)' /\ Unwritten(form.purchase)'
    BY <2>1, <2>2 DEF Unwritten, LastOf
  <2>. QED
    BY <1>4, <2>1, <2>3 DEF CalmEditor
<1>7. CalmRows(NoCall)'
  <2>. SUFFICES ASSUME NEW id \in DOMAIN rows PROVE CalmRow(NoCall, id)'
    BY <1>4 DEF CalmRows
  <2>1. CalmRow(NoCall, id)
    BY <1>2 DEF CalmWith, CalmRows
  <2>2. typed'[rows[id].form.purchase] = typed[rows[id].form.purchase]
    BY <1>2, <1>5, TextsKnown
  <2>. QED
    BY <1>4, <2>1, <2>2, RowKept, CalmNoCall
<1>8. CalmTexts(NoCall)'
  <2>. SUFFICES ASSUME NEW q \in DOMAIN typed' PROVE Saved(NoCall, q)' /\ (signedIn => Recorded(NoCall, q)')
    BY <1>4 DEF CalmTexts
  <2>1. CASE q = n
    BY <1>4, <1>5, <2>1, BoundTypes DEF Saved, Recorded
  <2>2. CASE q # n
    <3>1. q \in DOMAIN typed /\ typed'[q] = typed[q]
      BY <1>5, <2>2
    <3>2. Saved(NoCall, q) /\ (signedIn => Recorded(NoCall, q))
      BY <1>2, <3>1 DEF CalmWith, CalmTexts
    <3>3. Saved(NoCall, q)'
      BY <1>4, <3>1, <3>2, NoCallIs DEF Saved, Written, LastOf
    <3>4. signedIn => Recorded(NoCall, q)'
      BY <1>4, <3>1, <3>2, NoCallIs DEF Recorded
    <3>. QED
      BY <3>3, <3>4
  <2>. QED
    BY <2>1, <2>2
<1>9. UniqueDrafts' /\ CalmSession(NoCall)'
  BY <1>2, <1>4, ServerSame DEF CalmWith, CalmSession, startNew
<1>. QED
  BY <1>2, <1>4, <1>6, <1>7, <1>8, <1>9, AloneKept, CalmNoCall DEF CalmWith

\* or on a draft of the list,
LEMMA ResumeCalm ==
  ASSUME NEW c, Waiting(c), disturbed' = 0, NEW id \in DOMAIN rows, resume(id)
  PROVE  Alone(NoCall)' /\ CalmWith(NoCall)'
<1>1. c = NoCall
  BY NotDisturbed, AloneIs DEF Waiting, resume
<1>2. EditorInv /\ Alone(NoCall) /\ CalmWith(NoCall)
  BY <1>1 DEF Waiting
<1>3. /\ UNCHANGED <<server, session, calls, signedIn, rows, typed, reverted>> /\ ~open /\ signedIn
      /\ rows[id].status = "Draft" /\ form' = shown(id) /\ editingId' = id /\ open' = TRUE
      /\ buffers' = stored(id, form')
  BY DEF resume, past
<1>4. \A k \in DOMAIN rows : CalmRow(NoCall, k)
  BY <1>2 DEF CalmWith, CalmRows
<1>5. /\ isDraft(id) /\ id \in DOMAIN server /\ form' = LastOf(rows[id].form.purchase) /\ id # 0
  BY <1>2, <1>3, <1>4, TextsKnown, CalmNoCall DEF CalmRow
<1>6. CalmEditor(NoCall)'
  <2>1. form'.purchase = rows[id].form.purchase
    BY <1>5, LastIs
  <2>2. form' = LastOf(form.purchase)'
    BY <1>3, <1>5, <2>1 DEF LastOf
  <2>3. isDraft(editingId)' /\ editingId' \in DOMAIN server'
    BY <1>3, <1>5 DEF isDraft
  <2>. QED
    BY <1>3, <1>5, <2>1, <2>2, <2>3 DEF CalmEditor
<1>7. CalmRows(NoCall)'
  <2>. SUFFICES ASSUME NEW k \in DOMAIN rows PROVE CalmRow(NoCall, k)'
    BY <1>3 DEF CalmRows
  <2>1. k # id => (k \in DOMAIN buffers' <=> k \in DOMAIN buffers) /\ (k \in DOMAIN buffers => buffers'[k] = buffers[k])
    BY <1>3, StoredElsewhere
  <2>. QED
    BY <1>3, <1>4, <2>1, RowKept, CalmNoCall
<1>8. CalmTexts(NoCall)'
  BY <1>2, <1>3, NoCallIs DEF CalmWith, CalmTexts, Saved, Recorded, Written, LastOf
<1>9. UniqueDrafts' /\ CalmSession(NoCall)'
  BY <1>2, <1>3, ServerSame DEF CalmWith, CalmSession
<1>. QED
  BY <1>2, <1>3, <1>6, <1>7, <1>8, <1>9, AloneKept, CalmNoCall DEF CalmWith

\* typing while a save of the timer or the button is under way, or nothing,
LEMMA TypeCalm ==
  ASSUME NEW c, Waiting(c), disturbed' = 0, NEW text \in Texts, type(text)
  PROVE  Alone(c)' /\ CalmWith(c)'
<1>1. c.kind \in {"none", "create", "update"} /\ c.next = "nothing"
  <2>1. ~Closing
    BY NotDisturbed DEF Waiting, type
  <2>2. c = NoCall \/ \E s \in Slots : calls[s] = c
    BY AloneIs DEF Waiting
  <2>3. c.kind \notin {"submit", "delete", "logout"} /\ c.next = "nothing"
    BY <2>1, <2>2, NoCallIs DEF Closing
  <2>4. c \in Call
    BY AloneIs DEF Waiting
  <2>. QED
    BY <2>3, <2>4, CallFields
<1>2. EditorInv /\ Alone(c) /\ CalmWith(c)
  BY DEF Waiting
<1>3. PICK p : p = form.purchase
  OBVIOUS
<1>4. /\ UNCHANGED <<server, session, calls, signedIn, open, baseline, editingId, rows, reverted>> /\ open
      /\ typed' = [typed EXCEPT ![p] = text] /\ form' = [form EXCEPT !.text = text]
      /\ buffers' = stored(editingId, form')
  BY <1>3 DEF type
<1>5. form \in Form /\ p \in DOMAIN typed /\ typed \in Seq(Texts)
  BY <1>2, <1>3, <1>4, TextsKnown DEF EditorInv, TypedFits
<1>6. /\ form'.purchase = p /\ form' = [purchase |-> p, text |-> typed'[p]]
      /\ DOMAIN typed' = DOMAIN typed /\ \A q \in DOMAIN typed \ {p} : typed'[q] = typed[q]
  <2>1. typed'[p] = text /\ DOMAIN typed' = DOMAIN typed /\ \A q \in DOMAIN typed \ {p} : typed'[q] = typed[q]
    BY <1>4, <1>5
  <2>2. form' = [purchase |-> p, text |-> text]
    BY <1>3, <1>4, <1>5 DEF Form
  <2>. QED
    BY <2>1, <2>2
<1>7. ~Done(c, "delete") /\ ~Done(c, "submit")
  BY <1>1 DEF Done
<1>8. CalmCall(c)'
  <2>1. c # NoCall => c.stage \in {"sent", "done", "failed"}
    BY <1>2 DEF CalmWith, CalmCall
  <2>2. c.kind = "create" => CreateFits(c)'
    BY <1>2, <1>3, <1>4, <1>6 DEF CalmWith, CalmCall, CreateFits, Unwritten, isDraft
  <2>3. c.kind = "update" => UpdateFits(c)'
    BY <1>2, <1>3, <1>4, <1>6 DEF CalmWith, CalmCall, UpdateFits, isDraft
  <2>4. c.kind \in {"create", "update"} => SaveFits(c)'
    BY <1>1, <1>2, <1>4 DEF CalmWith, CalmCall, SaveFits
  <2>. QED
    BY <1>1, <2>1, <2>2, <2>3, <2>4 DEF CalmCall
<1>9. CalmEditor(c)'
  <2>1. form' = LastOf(form.purchase)'
    BY <1>6 DEF LastOf
  <2>2. CalmEditor(c) /\ open
    BY <1>2, <1>4 DEF CalmWith
  <2>3. editingId = 0 => /\ baseline' = [purchase |-> form'.purchase, text |-> fresh]
                         /\ ~Done(c, "create") => Unwritten(form.purchase)'
    BY <2>2, <1>3, <1>4, <1>6 DEF CalmEditor, Unwritten
  <2>4. editingId # 0 => /\ editingId' \in DOMAIN rows' /\ rows'[editingId'].form.purchase = form'.purchase
                         /\ editingId' \in DOMAIN server' /\ isDraft(editingId)'
    BY <2>2, <1>3, <1>4, <1>6, <1>7 DEF CalmEditor, isDraft
  <2>. QED
    BY <1>4, <1>7, <2>1, <2>3, <2>4 DEF CalmEditor
<1>10. CalmRows(c)'
  <2>. SUFFICES ASSUME NEW id \in DOMAIN rows PROVE CalmRow(c, id)'
    BY <1>4 DEF CalmRows
  <2>1. CalmRow(c, id) /\ CalmEditor(c) /\ CalmRows(c) /\ UniqueDrafts /\ CalmCall(c)
    BY <1>2 DEF CalmWith, CalmRows
  <2>2. id # editingId => (id \in DOMAIN buffers' <=> id \in DOMAIN buffers)
                          /\ (id \in DOMAIN buffers => buffers'[id] = buffers[id])
    BY <1>4, StoredElsewhere
  <2>3. id # editingId => rows[id].form.purchase # p
    <3>. SUFFICES ASSUME id # editingId, rows[id].form.purchase = p PROVE FALSE
      OBVIOUS
    <3>1. id \in DOMAIN server /\ server[id].form.purchase = p
      BY <1>7, <2>1 DEF CalmRow
    <3>2. CASE editingId # 0
      <4>1. editingId \in DOMAIN rows /\ rows[editingId].form.purchase = p
        BY <1>3, <1>4, <2>1, <3>2 DEF CalmEditor
      <4>2. editingId \in DOMAIN server /\ server[editingId].form.purchase = p
        BY <1>7, <2>1, <4>1 DEF CalmRows, CalmRow
      <4>. QED
        BY <2>1, <3>1, <4>2 DEF UniqueDrafts
    <3>3. CASE editingId = 0 /\ ~Done(c, "create")
      BY <1>3, <1>4, <2>1, <3>1, <3>3 DEF CalmEditor, Unwritten
    <3>4. CASE Done(c, "create")
      <4>1. c.id \in DOMAIN server /\ server[c.id].form.purchase = p /\ c.id \notin DOMAIN rows
        BY <1>3, <1>4, <2>1, <3>4 DEF Done, CalmCall, CreateFits, isDraft
      <4>. QED
        BY <2>1, <3>1, <4>1 DEF UniqueDrafts
    <3>. QED
      BY <3>2, <3>3, <3>4
  <2>4. id # editingId => typed'[rows[id].form.purchase] = typed[rows[id].form.purchase]
    BY <1>2, <1>6, <2>3, TextsKnown
  <2>. QED
    BY <1>4, <1>7, <2>1, <2>2, <2>4, RowKept
<1>11. CalmTexts(c)'
  <2>. SUFFICES ASSUME NEW q \in DOMAIN typed PROVE Saved(c, q)' /\ (signedIn => Recorded(c, q)')
    BY <1>4, <1>6 DEF CalmTexts
  <2>1. CASE q = p
    BY <1>4, <1>6, <2>1 DEF Saved, Recorded
  <2>2. CASE q # p
    <3>1. typed'[q] = typed[q] /\ LastOf(q)' = LastOf(q)
      BY <1>6, <2>2, LastIs
    <3>2. Saved(c, q) /\ (signedIn => Recorded(c, q))
      BY <1>2 DEF CalmWith, CalmTexts
    <3>3. Saved(c, q)'
      BY <1>3, <1>4, <2>2, <3>1, <3>2 DEF Saved, Written
    <3>4. signedIn => Recorded(c, q)'
      BY <1>3, <1>4, <2>2, <3>1, <3>2 DEF Recorded
    <3>. QED
      BY <3>3, <3>4
  <2>. QED
    BY <2>1, <2>2
<1>12. UniqueDrafts' /\ CalmSession(c)'
  BY <1>2, <1>4, ServerSame DEF CalmWith, CalmSession
<1>. QED
  BY <1>2, <1>4, <1>8, <1>9, <1>10, <1>11, <1>12, AloneKept DEF CalmWith

\* saving while nothing is under way, and closing at the same time or not,
LEMMA SavingCalm ==
  ASSUME NEW c, Waiting(c), disturbed' = 0, NEW next \in {"nothing", "submit", "logout"},
         saveNativeDraft(next), open, UNCHANGED <<server, session, signedIn, editingId, rows, typed>>,
         \A q : q # form.purchase => (q \in reverted' <=> q \in reverted),
         \/ UNCHANGED <<open, form, baseline>> /\ buffers' \in {buffers, stored(editingId, form)}
         \/ open' = FALSE /\ next = "nothing" /\ buffers' = stored(editingId, form)
  PROVE  \E d : Alone(d)' /\ CalmWith(d)'
<1>1. c = NoCall
  BY NotDisturbed, AloneIs DEF Waiting, saveNativeDraft
<1>2. EditorInv /\ Alone(NoCall) /\ CalmWith(NoCall)
  BY <1>1 DEF Waiting
<1>3. PICK f : f = form
  OBVIOUS
<1>4. PICK d : d = NewCall(IF editingId = 0 THEN "create" ELSE "update", editingId, f, next)
  OBVIOUS
<1>5. /\ d # NoCall /\ d.kind = (IF editingId = 0 THEN "create" ELSE "update") /\ d.id = editingId
      /\ d.form = f /\ d.next = next /\ d.stage = "sent"
  <2>1. editingId \in 0..MaxDrafts /\ f \in Form
    BY <1>2, <1>3 DEF EditorInv, EditorFits
  <2>2. (IF editingId = 0 THEN "create" ELSE "update") \in {"create", "update", "submit", "delete", "logout"}
    OBVIOUS
  <2>. QED
    BY <1>4, <2>1, <2>2, NewCallIs
<1>6. Alone(d)'
  BY <1>2, <1>3, <1>4, <1>5, AloneSent DEF saveNativeDraft
<1>7. /\ f = LastOf(f.purchase) /\ f \in Begun
      /\ editingId = 0 => baseline = [purchase |-> f.purchase, text |-> fresh] /\ Unwritten(f.purchase)
      /\ editingId # 0 => /\ editingId \in DOMAIN rows /\ rows[editingId].form.purchase = f.purchase
                          /\ isDraft(editingId) /\ server[editingId].form.purchase = f.purchase
  BY <1>2, <1>3, OnScreen, CalmNoCall DEF CalmWith
<1>8. \A kind : ~Done(d, kind) /\ ~Done(NoCall, kind)
  BY <1>5, CalmNoCall DEF Done
<1>9. f = LastOf(f.purchase)'
  BY <1>7 DEF LastOf
<1>10. CalmCall(d)'
  <2>1. editingId = 0 => CreateFits(d)'
    BY <1>3, <1>5, <1>7 DEF CreateFits, Unwritten
  <2>2. editingId # 0 => UpdateFits(d)'
    BY <1>3, <1>5, <1>7 DEF UpdateFits, isDraft
  <2>3. SaveFits(d)'
    BY <1>3, <1>5, <1>9 DEF SaveFits
  <2>. QED
    BY <1>5, <2>1, <2>2, <2>3 DEF CalmCall
<1>11. CalmEditor(d)'
  <2>. SUFFICES ASSUME open' PROVE CalmEditor(d)'
    BY DEF CalmEditor
  <2>1. form' = f /\ baseline' = baseline
    BY <1>3
  <2>2. form' = LastOf(form.purchase)'
    BY <1>9, <2>1 DEF LastOf
  <2>3. editingId = 0 => Unwritten(form.purchase)'
    BY <1>7, <2>1 DEF Unwritten
  <2>4. editingId # 0 => isDraft(editingId)' /\ editingId' \in DOMAIN server'
    BY <1>7 DEF isDraft
  <2>. QED
    BY <1>7, <2>1, <2>2, <2>3, <2>4 DEF CalmEditor
<1>12. CalmRows(d)'
  <2>. SUFFICES ASSUME NEW id \in DOMAIN rows PROVE CalmRow(d, id)'
    BY DEF CalmRows
  <2>1. CalmRow(NoCall, id)
    BY <1>2 DEF CalmWith, CalmRows
  <2>2. id # editingId => (id \in DOMAIN buffers' <=> id \in DOMAIN buffers)
                          /\ (id \in DOMAIN buffers => buffers'[id] = buffers[id])
    BY StoredElsewhere
  <2>3. CASE id # editingId \/ open'
    BY <1>8, <2>1, <2>2, <2>3, RowKept
  <2>4. CASE id = editingId /\ ~open'
    <3>1. id # 0 /\ isDraft(id)' /\ id \in DOMAIN server
      BY <1>2, <1>7, <2>4, TextsKnown DEF isDraft
    <3>2. shown(id)' = f
      BY <1>3, <2>4, <3>1, StoredElsewhere DEF shown
    <3>3. rows[id].form.purchase = f.purchase /\ server[id].form.purchase = f.purchase
      BY <1>7, <2>4, <3>1
    <3>. QED
      BY <1>9, <3>1, <3>2, <3>3 DEF CalmRow
  <2>. QED
    BY <2>3, <2>4
<1>13. CalmTexts(d)'
  <2>. SUFFICES ASSUME NEW q \in DOMAIN typed PROVE Saved(d, q)' /\ (signedIn => Recorded(d, q)')
    BY DEF CalmTexts
  <2>1. CASE q = f.purchase
    <3>1. Saved(d, q)'
      BY <1>5, <1>9, <2>1 DEF Saved
    <3>2. Recorded(d, q)'
      BY <1>5, <1>7, <2>1 DEF Recorded
    <3>. QED
      BY <3>1, <3>2
  <2>2. CASE q # f.purchase
    <3>1. Saved(NoCall, q) /\ (signedIn => Recorded(NoCall, q))
      BY <1>2 DEF CalmWith, CalmTexts
    <3>2. Saved(d, q)'
      BY <1>3, <2>2, <3>1, NoCallIs DEF Saved, Written, LastOf
    <3>3. signedIn => Recorded(d, q)'
      BY <1>3, <2>2, <3>1, NoCallIs DEF Recorded
    <3>. QED
      BY <3>2, <3>3
  <2>. QED
    BY <2>1, <2>2
<1>14. UniqueDrafts' /\ CalmSession(d)'
  <2>1. session /\ signedIn
    BY <1>2, TextsKnown, NoCallIs DEF CalmWith, CalmSession
  <2>. QED
    BY <1>2, <2>1, ServerSame DEF CalmWith, CalmSession
<1>. QED
  BY <1>6, <1>10, <1>11, <1>12, <1>13, <1>14 DEF CalmWith

\* closing as it was opened: a new form then is empty, and of a draft it is
\* put down whether the server holds another text,
LEMMA CloseCalm ==
  ASSUME NEW c, Waiting(c), disturbed' = 0, closeEditor, ~dirty
  PROVE  Alone(NoCall)' /\ CalmWith(NoCall)'
<1>1. c = NoCall
  BY NotDisturbed, AloneIs DEF Waiting, closeEditor
<1>2. EditorInv /\ Alone(NoCall) /\ CalmWith(NoCall)
  BY <1>1 DEF Waiting
<1>3. PICK f : f = form
  OBVIOUS
<1>4. /\ open /\ open' = FALSE /\ buffers' = stored(editingId, f) /\ baseline = f
      /\ UNCHANGED <<server, session, calls, signedIn, editingId, rows, typed>>
      /\ \A q : q # f.purchase => (q \in reverted' <=> q \in reverted)
      /\ f.purchase \notin reverted' => \A i \in DOMAIN server : server[i].form.purchase = f.purchase => server[i].form = f
  BY <1>3 DEF closeEditor, dirty, noteReverted
<1>5. /\ f = LastOf(f.purchase) /\ f \in Begun
      /\ editingId = 0 => baseline = [purchase |-> f.purchase, text |-> fresh] /\ Unwritten(f.purchase)
      /\ editingId # 0 => /\ editingId \in DOMAIN rows /\ rows[editingId].form.purchase = f.purchase
                          /\ isDraft(editingId) /\ server[editingId].form.purchase = f.purchase
  BY <1>2, <1>3, <1>4, OnScreen, CalmNoCall DEF CalmWith
<1>6. f = LastOf(f.purchase)' /\ f.text = typed[f.purchase]
  BY <1>4, <1>5 DEF LastOf
<1>7. CalmRows(NoCall)'
  <2>. SUFFICES ASSUME NEW id \in DOMAIN rows PROVE CalmRow(NoCall, id)'
    BY <1>4 DEF CalmRows
  <2>1. CASE id # editingId
    <3>1. CalmRow(NoCall, id)
      BY <1>2 DEF CalmWith, CalmRows
    <3>2. (id \in DOMAIN buffers' <=> id \in DOMAIN buffers) /\ (id \in DOMAIN buffers => buffers'[id] = buffers[id])
      BY <1>4, <2>1, StoredElsewhere
    <3>. QED
      BY <1>4, <2>1, <3>1, <3>2, RowKept, CalmNoCall
  <2>2. CASE id = editingId
    <3>1. id # 0 /\ isDraft(id)' /\ id \in DOMAIN server
      BY <1>2, <1>4, <1>5, <2>2, TextsKnown DEF isDraft
    <3>2. shown(id)' = f
      BY <1>4, <2>2, <3>1, StoredElsewhere DEF shown
    <3>. QED
      BY <1>4, <1>5, <1>6, <2>2, <3>1, <3>2 DEF CalmRow
  <2>. QED
    BY <2>1, <2>2
<1>8. CalmTexts(NoCall)'
  <2>. SUFFICES ASSUME NEW q \in DOMAIN typed PROVE Saved(NoCall, q)' /\ (signedIn => Recorded(NoCall, q)')
    BY <1>4 DEF CalmTexts
  <2>1. CASE q = f.purchase /\ editingId = 0
    <3>1. typed[q] = fresh
      BY <1>4, <1>5, <1>6, <2>1
    <3>. QED
      BY <1>4, <3>1, BoundTypes DEF Saved, Recorded
  <2>2. CASE q = f.purchase /\ editingId # 0
    <3>1. Recorded(NoCall, q)'
      BY <1>4, <1>5, <2>2 DEF Recorded
    <3>2. q \notin reverted' => Written(LastOf(q))'
      BY <1>4, <1>5, <1>6, <2>2 DEF Written, isDraft
    <3>. QED
      BY <3>1, <3>2 DEF Saved
  <2>3. CASE q # f.purchase
    <3>1. Saved(NoCall, q) /\ (signedIn => Recorded(NoCall, q))
      BY <1>2 DEF CalmWith, CalmTexts
    <3>2. Saved(NoCall, q)'
      BY <1>3, <1>4, <2>3, <3>1, NoCallIs DEF Saved, Written, LastOf
    <3>3. signedIn => Recorded(NoCall, q)'
      BY <1>3, <1>4, <2>3, <3>1, NoCallIs DEF Recorded
    <3>. QED
      BY <3>2, <3>3
  <2>. QED
    BY <2>1, <2>2, <2>3
<1>9. UniqueDrafts' /\ CalmSession(NoCall)' /\ CalmEditor(NoCall)'
  <2>1. signedIn
    BY <1>2, <1>4, TextsKnown
  <2>. QED
    BY <1>2, <1>4, <2>1, ServerSame DEF CalmWith, CalmSession, CalmEditor
<1>. QED
  BY <1>2, <1>4, <1>7, <1>8, <1>9, AloneKept, CalmNoCall DEF CalmWith

\* What the user is shown and what was typed, and what the server holds, while
\* the call under way is another one.
LEMMA ScreenCalm ==
  ASSUME NEW c, NEW d, UNCHANGED <<server, screen, past>>, CalmWith(c),
         \A kind : ~Done(c, kind) /\ ~Done(d, kind)
  PROVE  UniqueDrafts' /\ CalmEditor(d)' /\ CalmRows(d)'
<1>1. UNCHANGED <<signedIn, open, form, baseline, editingId, rows, buffers, typed>>
  BY DEF screen, past
<1>2. UniqueDrafts' /\ CalmEditor(d)'
  BY <1>1, ServerSame DEF CalmWith, CalmEditor, LastOf, Unwritten, isDraft
<1>3. CalmRows(d)'
  BY <1>1, RowKept DEF CalmWith, CalmRows
<1>. QED
  BY <1>2, <1>3

\* deleting a draft or signing out.
LEMMA AskingCalm ==
  ASSUME NEW c, Waiting(c), disturbed' = 0, UNCHANGED <<server, session, screen, past>>, signedIn,
         NEW d, d # NoCall, d.stage = "sent", send(d), disturbIf(Busy), CalmCall(d)'
  PROVE  Alone(d)' /\ CalmWith(d)'
<1>1. c = NoCall
  BY NotDisturbed, AloneIs DEF Waiting
<1>2. EditorInv /\ Alone(NoCall) /\ CalmWith(NoCall)
  BY <1>1 DEF Waiting
<1>3. UNCHANGED <<signedIn, open, form, rows, typed, reverted>>
  BY DEF screen, past
<1>4. \A kind : ~Done(d, kind) /\ ~Done(NoCall, kind)
  BY CalmNoCall DEF Done
<1>5. UniqueDrafts' /\ CalmEditor(d)' /\ CalmRows(d)'
  BY <1>2, <1>4, ScreenCalm
<1>6. CalmTexts(d)'
  BY <1>2, <1>3, NoCallIs DEF CalmWith, CalmTexts, Saved, Recorded, Written, LastOf
<1>7. CalmSession(d)'
  BY <1>2, <1>3, NoCallIs DEF CalmWith, CalmSession
<1>. QED
  BY <1>2, <1>5, <1>6, <1>7, AloneSent DEF CalmWith

\* The draft that is deleted is one, and the one on the screen if there is one.
LEMMA DeletingCalm ==
  ASSUME NEW c, Waiting(c), disturbed' = 0, NEW id \in DOMAIN rows, deleteDraft(id)
  PROVE  \E d : Alone(d)' /\ CalmWith(d)'
<1>1. c = NoCall
  BY NotDisturbed, AloneIs DEF Waiting, deleteDraft
<1>2. EditorInv /\ CalmWith(NoCall)
  BY <1>1 DEF Waiting
<1>3. PICK d : d = NewCall("delete", id, Blank, "nothing")
  OBVIOUS
<1>4. id \in 0..MaxDrafts /\ id # 0
  BY <1>2, BoundTypes DEF EditorInv, TextsFit, Fits
<1>5. d # NoCall /\ d.kind = "delete" /\ d.id = id /\ d.stage = "sent" /\ d.next = "nothing"
  BY <1>3, <1>4, NewCallIs, NoCallIs
<1>6. isDraft(id) /\ (open => editingId = id)
  BY <1>2, CalmNoCall DEF deleteDraft, CalmWith, CalmRows, CalmRow
<1>7. CalmCall(d)'
  BY <1>5, <1>6 DEF CalmCall, DeleteFits, isDraft, deleteDraft, screen
<1>. QED
  BY <1>3, <1>5, <1>7, AskingCalm DEF deleteDraft

\* A sign-out without a save is one with nothing worth a save.
LEMMA LeavingCalm ==
  ASSUME NEW c, Waiting(c), disturbed' = 0, signOut, ~(open /\ hasContent(form))
  PROVE  \E d : Alone(d)' /\ CalmWith(d)'
<1>1. /\ send(NewCall("logout", 0, Blank, "nothing")) /\ disturbIf(Busy) /\ signedIn
      /\ UNCHANGED <<server, session, screen, past>>
  BY DEF signOut
<1>2. c = NoCall
  BY <1>1, NotDisturbed, AloneIs DEF Waiting
<1>3. session
  BY <1>1, <1>2, NoCallIs DEF Waiting, CalmWith, CalmSession
<1>4. PICK d : d = NewCall("logout", 0, Blank, "nothing")
  OBVIOUS
<1>5. d # NoCall /\ d.kind = "logout" /\ d.stage = "sent"
  BY <1>4, ZeroFits, NewCallIs, NoCallIs
<1>6. CalmCall(d)'
  BY <1>1, <1>3, <1>5 DEF CalmCall, LogoutFits, hasContent, screen
<1>. QED
  BY <1>1, <1>4, <1>5, <1>6, AskingCalm

\* The steps of the user, and of the timer.
LEMMA UserCalm ==
  ASSUME NEW c, Waiting(c), disturbed' = 0, user \/ autosave
  PROVE  \E d : Alone(d)' /\ CalmWith(d)'
<1>1. CASE startNew
  BY <1>1, StartCalm
<1>2. ASSUME NEW text \in Texts, type(text) PROVE \E d : Alone(d)' /\ CalmWith(d)'
  BY <1>2, TypeCalm
<1>3. CASE save
  BY <1>3, SavingCalm DEF save, screen, past
<1>4. CASE closeEditor /\ dirty
  <2>1. \A q : q # form.purchase => (q \in reverted' <=> q \in reverted)
    BY <1>4 DEF closeEditor, noteReverted
  <2>. QED
    BY <1>4, <2>1, SavingCalm DEF closeEditor
<1>5. CASE closeEditor /\ ~dirty
  BY <1>5, CloseCalm
<1>6. CASE submitNative
  BY <1>6, SavingCalm DEF submitNative, screen, past
<1>7. CASE signOut /\ open /\ hasContent(form)
  BY <1>7, SavingCalm DEF signOut, screen, past
<1>8. CASE signOut /\ ~(open /\ hasContent(form))
  BY <1>8, LeavingCalm
<1>9. CASE autosave
  BY <1>9, SavingCalm DEF autosave, past
<1>10. ASSUME NEW id \in DOMAIN rows, resume(id) \/ deleteDraft(id) PROVE \E d : Alone(d)' /\ CalmWith(d)'
  BY <1>10, ResumeCalm, DeletingCalm
<1>. QED
  BY <1>1, <1>2, <1>3, <1>4, <1>5, <1>6, <1>7, <1>8, <1>9, <1>10 DEF user

-----------------------------------------------------------------------------
(* The server gets the call.                                               *)

\* What arrives is what was sent, and the server has a session for it.
LEMMA ArrivingCalm ==
  ASSUME NEW c, Waiting(c), NEW s \in Slots, calls[s].kind # "none", calls[s].stage = "sent"
  PROVE  /\ calls[s] = c /\ c # NoCall /\ c.stage = "sent" /\ c \in Call /\ c \in GoodCalls /\ session
         /\ EditorInv /\ Alone(c) /\ CalmWith(c) /\ signedIn /\ \A kind : ~Done(c, kind)
<1>1. calls[s] # NoCall
  BY NoCallIs
<1>2. calls[s] = c /\ c # NoCall /\ c \in Call /\ c \in GoodCalls
  BY <1>1, AloneIs DEF Waiting
<1>3. c.kind = "logout" => session
  BY <1>2 DEF Waiting, CalmWith, CalmCall, LogoutFits
<1>4. session /\ signedIn
  BY <1>2, <1>3 DEF Waiting, CalmWith, CalmSession
<1>. QED
  BY <1>2, <1>4 DEF Waiting, Done

\* What becomes of a call that is answered.
LEMMA AnsweredCalm ==
  ASSUME NEW c, EditorInv, Alone(c), NEW s \in Slots, calls[s] = c, c # NoCall, c \in Call,
         NEW t \in {"done", "failed"}, Answer(s, t)
  PROVE  \E d \in Call : /\ Alone(d)' /\ d.stage = t /\ d.kind = c.kind /\ d.id = c.id
                         /\ d.form = c.form /\ d.next = c.next
<1>1. calls \in [Slots -> Call]
  BY DEF EditorInv, GoodCalls
<1>2. PICK d \in Call :
        /\ calls' = [calls EXCEPT ![s] = d] /\ d.stage = t
        /\ d.kind = calls[s].kind /\ d.id = calls[s].id /\ d.form = calls[s].form /\ d.next = calls[s].next
  BY <1>1, AnsweredCall
<1>3. Alone(d)'
  BY <1>2, AloneAnswered
<1>. QED
  BY <1>2, <1>3

\* A save is refused for its text alone, a submission for what the server has.
LEMMA RefusedCalm ==
  ASSUME NEW c, Waiting(c), NEW s \in Slots, calls[s].stage = "sent",
         calls[s].kind \in {"create", "update", "submit"},
         calls[s].kind # "submit" => calls[s].form.text \notin Sound,
         Answer(s, "failed"), UNCHANGED <<server, session, screen, past>>
  PROVE  \E d : Alone(d)' /\ CalmWith(d)'
<1>1. /\ calls[s] = c /\ c # NoCall /\ c.stage = "sent" /\ c \in Call /\ session
      /\ EditorInv /\ Alone(c) /\ CalmWith(c) /\ \A kind : ~Done(c, kind)
  BY ArrivingCalm
<1>2. PICK d \in Call : /\ Alone(d)' /\ d.stage = "failed" /\ d.kind = c.kind /\ d.id = c.id
                        /\ d.form = c.form /\ d.next = c.next
  BY <1>1, AnsweredCalm
<1>3. UNCHANGED <<signedIn, open, form, baseline, editingId, rows, buffers, typed, reverted>>
  BY DEF screen, past
<1>4. CalmCall(d)'
  <2>1. c.kind = "create" => CreateFits(d)'
    BY <1>1, <1>2, <1>3 DEF CalmWith, CalmCall, CreateFits, Unwritten
  <2>2. c.kind = "update" => UpdateFits(d)'
    BY <1>1, <1>2, <1>3 DEF CalmWith, CalmCall, UpdateFits, isDraft
  <2>3. c.kind # "submit" => SaveFits(d)'
    BY <1>1, <1>2, <1>3 DEF CalmWith, CalmCall, SaveFits, LastOf
  <2>4. c.kind = "submit" => SubmitFits(d)'
    BY <1>1, <1>2, <1>3 DEF CalmWith, CalmCall, SubmitFits, isDraft
  <2>. QED
    BY <1>1, <1>2, <2>1, <2>2, <2>3, <2>4 DEF CalmCall
<1>5. UniqueDrafts' /\ CalmEditor(d)' /\ CalmRows(d)'
  <2>1. \A kind : ~Done(d, kind)
    BY <1>2 DEF Done
  <2>. QED
    BY <1>1, <2>1, ScreenCalm
<1>6. CalmTexts(d)'
  <2>. SUFFICES ASSUME NEW q \in DOMAIN typed PROVE Saved(d, q)' /\ (signedIn => Recorded(d, q)')
    BY <1>3 DEF CalmTexts
  <2>1. Saved(c, q) /\ (signedIn => Recorded(c, q))
    BY <1>1 DEF CalmWith, CalmTexts
  <2>2. c.kind \in {"create", "update"} /\ c.form = LastOf(q) => typed[q] \notin Sound
    BY <1>1, LastIs
  <2>3. Saved(d, q)'
    BY <1>3, <2>1, <2>2 DEF Saved, Written, LastOf
  <2>4. signedIn => Recorded(d, q)'
    BY <1>2, <1>3, <2>1 DEF Recorded
  <2>. QED
    BY <2>3, <2>4
<1>7. CalmSession(d)'
  BY <1>1, <1>2, <1>3, AloneIs, ArrivingCalm DEF CalmSession
<1>. QED
  BY <1>2, <1>4, <1>5, <1>6, <1>7 DEF CalmWith

\* The server makes the draft;
LEMMA CreateCalm ==
  ASSUME NEW c, Waiting(c), NEW s \in Slots, createArrives(s), sound(s)
  PROVE  \E d : Alone(d)' /\ CalmWith(d)'
<1>1. /\ calls[s] = c /\ c # NoCall /\ c.stage = "sent" /\ c \in Call /\ c \in GoodCalls /\ session
      /\ EditorInv /\ Alone(c) /\ CalmWith(c) /\ signedIn /\ \A kind : ~Done(c, kind)
  BY ArrivingCalm DEF createArrives, arriving
<1>2. /\ c.kind = "create" /\ server' = put(server, nextNumber, Draft(c.form))
      /\ calls' = [calls EXCEPT ![s].stage = "done", ![s].id = nextNumber]
      /\ UNCHANGED <<session, screen, past>>
  BY <1>1 DEF createArrives, arriving, refused
<1>3. UNCHANGED <<signedIn, open, form, baseline, editingId, rows, buffers, typed, reverted>>
  BY <1>2 DEF screen, past
<1>4. PICK n : n = nextNumber
  OBVIOUS
<1>5. n \notin DOMAIN server /\ n # 0 /\ n \in 0..MaxDrafts
  <2>1. Room /\ TextsFit /\ nextNumber - 1 \in {0} \cup DOMAIN server /\ s \in Creating
    BY <1>1, <1>2, NextIsNew DEF EditorInv, Creating
  <2>2. nextNumber - 1 + Cardinality(Creating) <= MaxDrafts
    BY <2>1 DEF Room
  <2>3. Cardinality(Creating) > 0
    BY <2>1, CreatesCount, FS_EmptySet
  <2>4. nextNumber \in 0..MaxDrafts
    BY <2>1, <2>2, <2>3, CreatesCount, NextIsNew, BoundTypes
  <2>. QED
    BY <1>4, <2>1, <2>4, NextIsNew
<1>6. PICK d : d = [c EXCEPT !.stage = "done", !.id = n]
  OBVIOUS
<1>7. d \in Call /\ d.stage = "done" /\ d.kind = c.kind /\ d.id = n /\ d.form = c.form /\ d.next = c.next
  BY <1>1, <1>5, <1>6, CreateAnswered DEF Call
<1>8. calls' = [calls EXCEPT ![s] = d]
  BY <1>1, <1>2, <1>4, <1>6
<1>9. Alone(d)'
  BY <1>1, <1>8, AloneAnswered
<1>10. /\ DOMAIN server' = DOMAIN server \cup {n} /\ server'[n].form = c.form /\ server'[n].status = "Draft"
       /\ \A i \in DOMAIN server : server'[i] = server[i]
  BY <1>2, <1>4, <1>5 DEF put, Draft
<1>11. Unwritten(c.form.purchase) /\ SaveFits(c) /\ (open => editingId = 0 /\ form.purchase = c.form.purchase)
  BY <1>1, <1>2 DEF CalmWith, CalmCall, CreateFits
<1>12. UniqueDrafts'
  BY <1>1, <1>10, <1>11 DEF CalmWith, UniqueDrafts, Unwritten
<1>13. \A id \in DOMAIN rows : id \in DOMAIN server /\ id # n
  BY <1>1, <1>5 DEF CalmWith, CalmRows, CalmRow
<1>14. CalmCall(d)'
  <2>1. CreateFits(d)'
    BY <1>3, <1>7, <1>10, <1>11, <1>13 DEF CreateFits, isDraft
  <2>2. SaveFits(d)'
    BY <1>3, <1>7, <1>11 DEF SaveFits, LastOf
  <2>. QED
    BY <1>2, <1>7, <2>1, <2>2 DEF CalmCall
<1>15. \A kind : kind # "create" => ~Done(d, kind)
  BY <1>2, <1>7 DEF Done
<1>16. CalmEditor(d)'
  <2>1. open => form = LastOf(form.purchase) /\ baseline = [purchase |-> form.purchase, text |-> fresh]
    BY <1>1, <1>11 DEF CalmWith, CalmEditor
  <2>2. Done(d, "create")
    BY <1>2, <1>7 DEF Done
  <2>. QED
    BY <1>3, <1>11, <1>15, <2>1, <2>2 DEF CalmEditor, LastOf
<1>17. CalmRows(d)'
  <2>. SUFFICES ASSUME NEW id \in DOMAIN rows PROVE CalmRow(d, id)'
    BY <1>3 DEF CalmRows
  <2>1. CalmRow(c, id) /\ server'[id] = server[id] /\ id \in DOMAIN server'
    BY <1>1, <1>10, <1>13 DEF CalmWith, CalmRows
  <2>. QED
    BY <1>1, <1>3, <2>1, RowKept
<1>18. CalmTexts(d)'
  <2>. SUFFICES ASSUME NEW q \in DOMAIN typed PROVE Saved(d, q)' /\ (signedIn => Recorded(d, q)')
    BY <1>3 DEF CalmTexts
  <2>1. Saved(c, q) /\ (signedIn => Recorded(c, q)) /\ LastOf(q)' = LastOf(q)
    BY <1>1, <1>3 DEF CalmWith, CalmTexts, LastOf
  <2>2. c.form = LastOf(q) \/ Written(LastOf(q)) => Written(LastOf(q))'
    BY <1>10, <2>1 DEF Written
  <2>3. Saved(d, q)'
    BY <1>3, <2>1, <2>2 DEF Saved
  <2>4. signedIn => Recorded(d, q)'
    BY <1>3, <1>7, <2>1 DEF Recorded
  <2>. QED
    BY <2>3, <2>4
<1>19. CalmSession(d)'
  BY <1>1, <1>2, <1>3 DEF CalmSession
<1>. QED
  BY <1>9, <1>12, <1>14, <1>16, <1>17, <1>18, <1>19 DEF CalmWith

\* writes the save over the draft;
LEMMA UpdateCalm ==
  ASSUME NEW c, Waiting(c), NEW s \in Slots, updateArrives(s), sound(s)
  PROVE  \E d : Alone(d)' /\ CalmWith(d)'
<1>1. /\ calls[s] = c /\ c # NoCall /\ c.stage = "sent" /\ c \in Call /\ c \in GoodCalls /\ session
      /\ EditorInv /\ Alone(c) /\ CalmWith(c) /\ signedIn /\ \A kind : ~Done(c, kind)
  BY ArrivingCalm DEF updateArrives, arriving
<1>2. c.kind = "update" /\ UpdateFits(c) /\ SaveFits(c) /\ c.id # 0
  BY <1>1 DEF updateArrives, arriving, CalmWith, CalmCall, GoodCalls, Numbered
<1>3. /\ server' = [server EXCEPT ![c.id].form = c.form] /\ Answer(s, "done")
      /\ UNCHANGED <<session, screen, past>>
  BY <1>1, <1>2 DEF updateArrives, refused, UpdateFits
<1>4. UNCHANGED <<signedIn, open, form, baseline, editingId, rows, buffers, typed, reverted>>
  BY <1>3 DEF screen, past
<1>5. PICK d \in Call : /\ Alone(d)' /\ d.stage = "done" /\ d.kind = c.kind /\ d.id = c.id
                        /\ d.form = c.form /\ d.next = c.next
  BY <1>1, <1>3, AnsweredCalm
<1>6. /\ c.id \in DOMAIN server /\ server[c.id].status = "Draft" /\ server[c.id].form.purchase = c.form.purchase
      /\ open => editingId = c.id /\ form.purchase = c.form.purchase
  BY <1>2 DEF UpdateFits, isDraft
<1>7. /\ DOMAIN server' = DOMAIN server /\ server'[c.id].form = c.form /\ server'[c.id].status = "Draft"
      /\ \A i \in DOMAIN server \ {c.id} : server'[i] = server[i]
  <2>1. server[c.id] \in [form : Begun, status : {"Draft", "Pending Supervisor Approval"}]
    BY <1>1, <1>6 DEF EditorInv, TextsFit, Fits, Requests
  <2>2. /\ DOMAIN server' = DOMAIN server /\ server'[c.id] = [server[c.id] EXCEPT !.form = c.form]
        /\ \A i \in DOMAIN server \ {c.id} : server'[i] = server[i]
    BY <1>3, <1>6
  <2>. QED
    BY <1>6, <2>1, <2>2
<1>8. \A i \in DOMAIN server : /\ server'[i].form.purchase = server[i].form.purchase
                               /\ server'[i].status = server[i].status
  BY <1>6, <1>7
<1>9. UniqueDrafts'
  BY <1>1, <1>7, <1>8 DEF CalmWith, UniqueDrafts
<1>10. CalmCall(d)'
  <2>1. UpdateFits(d)'
    BY <1>4, <1>5, <1>6, <1>7 DEF UpdateFits, isDraft
  <2>2. SaveFits(d)'
    BY <1>2, <1>4, <1>5 DEF SaveFits, LastOf
  <2>. QED
    BY <1>2, <1>5, <2>1, <2>2 DEF CalmCall
<1>11. \A kind : kind # "update" => ~Done(d, kind)
  BY <1>2, <1>5 DEF Done
<1>12. CalmEditor(d)'
  <2>1. open => /\ form = LastOf(form.purchase) /\ editingId \in DOMAIN rows
                /\ rows[editingId].form.purchase = form.purchase
    BY <1>1, <1>2, <1>6 DEF CalmWith, CalmEditor
  <2>. QED
    BY <1>2, <1>4, <1>6, <1>7, <1>11, <2>1 DEF CalmEditor, LastOf, isDraft
<1>13. CalmRows(d)'
  <2>. SUFFICES ASSUME NEW id \in DOMAIN rows PROVE CalmRow(d, id)'
    BY <1>4 DEF CalmRows
  <2>1. CalmRow(c, id) /\ id \in DOMAIN server
    BY <1>1 DEF CalmWith, CalmRows, CalmRow
  <2>. QED
    BY <1>1, <1>4, <1>7, <1>8, <2>1, RowKept
<1>14. CalmTexts(d)'
  <2>. SUFFICES ASSUME NEW q \in DOMAIN typed PROVE Saved(d, q)' /\ (signedIn => Recorded(d, q)')
    BY <1>4 DEF CalmTexts
  <2>1. Saved(c, q) /\ (signedIn => Recorded(c, q)) /\ LastOf(q)' = LastOf(q)
    BY <1>1, <1>4 DEF CalmWith, CalmTexts, LastOf
  <2>2. CASE c.form.purchase = q /\ open
    BY <1>4, <1>6, <2>2 DEF Saved, Recorded
  <2>3. CASE c.form.purchase = q /\ ~open
    <3>1. Written(LastOf(q))'
      BY <1>2, <1>6, <1>7, <2>1, <2>3 DEF SaveFits, Written
    <3>. QED
      BY <1>2, <1>4, <2>1, <3>1 DEF Saved, Recorded
  <2>4. CASE c.form.purchase # q
    <3>1. Written(LastOf(q)) => Written(LastOf(q))'
      <4>. SUFFICES ASSUME NEW i \in DOMAIN server, server[i].form = LastOf(q) PROVE Written(LastOf(q))'
        BY DEF Written
      <4>1. i # c.id
        BY <1>6, <2>4, LastIs
      <4>. QED
        BY <1>7, <2>1, <4>1 DEF Written
    <3>2. c.form # LastOf(q)
      BY <2>4, LastIs
    <3>. QED
      BY <1>2, <1>4, <2>1, <3>1, <3>2 DEF Saved, Recorded
  <2>. QED
    BY <2>2, <2>3, <2>4
<1>15. CalmSession(d)'
  BY <1>1, <1>3, <1>4 DEF CalmSession
<1>. QED
  BY <1>5, <1>9, <1>10, <1>12, <1>13, <1>14, <1>15 DEF CalmWith

\* takes the draft as it holds it;
LEMMA SubmitCalm ==
  ASSUME NEW c, Waiting(c), NEW s \in Slots, submitArrives(s), ~refused(s, FALSE)
  PROVE  \E d : Alone(d)' /\ CalmWith(d)'
<1>1. /\ calls[s] = c /\ c # NoCall /\ c.stage = "sent" /\ c \in Call /\ c \in GoodCalls /\ session
      /\ EditorInv /\ Alone(c) /\ CalmWith(c) /\ signedIn /\ \A kind : ~Done(c, kind)
  BY ArrivingCalm DEF submitArrives, arriving
<1>2. c.kind = "submit" /\ SubmitFits(c) /\ c.id # 0
  BY <1>1 DEF submitArrives, arriving, CalmWith, CalmCall, GoodCalls, Numbered
<1>3. /\ server' = [server EXCEPT ![c.id].status = "Pending Supervisor Approval"]
      /\ calls' = [calls EXCEPT ![s].stage = "done", ![s].form = server[c.id].form]
      /\ UNCHANGED <<session, screen, past>>
  BY <1>1 DEF submitArrives, refused
<1>4. UNCHANGED <<signedIn, open, form, baseline, editingId, rows, buffers, typed, reverted>>
  BY <1>3 DEF screen, past
<1>5. c.id \in DOMAIN server /\ open /\ editingId = c.id /\ form = server[c.id].form
  BY <1>2 DEF SubmitFits
<1>6. PICK f : f = server[c.id].form
  OBVIOUS
<1>7. f \in Form
  BY <1>1, <1>5, <1>6, TextsKnown
<1>8. PICK d : d = [c EXCEPT !.stage = "done", !.form = f]
  OBVIOUS
<1>9. d \in Call /\ d.stage = "done" /\ d.kind = c.kind /\ d.id = c.id /\ d.form = f
  BY <1>1, <1>7, <1>8, SubmitAnswered DEF Call
<1>10. calls' = [calls EXCEPT ![s] = d]
  BY <1>1, <1>3, <1>6, <1>8
<1>11. Alone(d)'
  BY <1>1, <1>10, AloneAnswered
<1>12. /\ DOMAIN server' = DOMAIN server /\ server'[c.id].form = f
       /\ server'[c.id].status = "Pending Supervisor Approval"
       /\ \A i \in DOMAIN server \ {c.id} : server'[i] = server[i]
  <2>1. server[c.id] \in [form : Begun, status : {"Draft", "Pending Supervisor Approval"}]
    BY <1>1, <1>5 DEF EditorInv, TextsFit, Fits, Requests
  <2>2. /\ DOMAIN server' = DOMAIN server
        /\ server'[c.id] = [server[c.id] EXCEPT !.status = "Pending Supervisor Approval"]
        /\ \A i \in DOMAIN server \ {c.id} : server'[i] = server[i]
    BY <1>3, <1>5
  <2>. QED
    BY <1>6, <2>1, <2>2
<1>13. \A i \in DOMAIN server : server'[i].form = server[i].form
  BY <1>6, <1>12
<1>14. UniqueDrafts'
  BY <1>1, <1>12, <1>13 DEF CalmWith, UniqueDrafts
<1>15. CalmCall(d)'
  <2>1. SubmitFits(d)'
    BY <1>2, <1>4, <1>5, <1>6, <1>9, <1>12 DEF SubmitFits
  <2>. QED
    BY <1>2, <1>9, <2>1 DEF CalmCall
<1>16. Done(d, "submit") /\ ~Done(d, "create") /\ ~Done(d, "delete")
  BY <1>2, <1>9 DEF Done
<1>17. CalmEditor(d)'
  <2>1. form = LastOf(form.purchase) /\ editingId \in DOMAIN rows /\ rows[editingId].form.purchase = form.purchase
    BY <1>1, <1>2, <1>5 DEF CalmWith, CalmEditor
  <2>. QED
    BY <1>2, <1>4, <1>5, <1>12, <1>16, <2>1 DEF CalmEditor, LastOf
<1>18. CalmRows(d)'
  <2>. SUFFICES ASSUME NEW id \in DOMAIN rows PROVE CalmRow(d, id)'
    BY <1>4 DEF CalmRows
  <2>1. CalmRow(c, id) /\ id \in DOMAIN server /\ server[id].form.purchase = rows[id].form.purchase
    BY <1>1 DEF CalmWith, CalmRows, CalmRow
  <2>2. CASE id = c.id
    BY <1>4, <1>5, <1>9, <1>12, <1>13, <1>16, <2>1, <2>2 DEF CalmRow
  <2>3. CASE id # c.id
    BY <1>1, <1>4, <1>12, <2>1, <2>3, RowKept
  <2>. QED
    BY <2>2, <2>3
<1>19. CalmTexts(d)'
  <2>. SUFFICES ASSUME NEW q \in DOMAIN typed PROVE Saved(d, q)' /\ (signedIn => Recorded(d, q)')
    BY <1>4 DEF CalmTexts
  <2>1. Saved(c, q) /\ (signedIn => Recorded(c, q)) /\ LastOf(q)' = LastOf(q)
    BY <1>1, <1>4 DEF CalmWith, CalmTexts, LastOf
  <2>2. Written(LastOf(q)) => Written(LastOf(q))'
    BY <1>12, <1>13, <2>1 DEF Written
  <2>. QED
    BY <1>2, <1>4, <2>1, <2>2 DEF Saved, Recorded
<1>20. CalmSession(d)'
  BY <1>1, <1>3, <1>4 DEF CalmSession
<1>. QED
  BY <1>11, <1>14, <1>15, <1>17, <1>18, <1>19, <1>20 DEF CalmWith

\* removes it, with what its author gives up;
LEMMA DeleteCalm ==
  ASSUME NEW c, Waiting(c), NEW s \in Slots, deleteArrives(s)
  PROVE  \E d : Alone(d)' /\ CalmWith(d)'
<1>1. /\ calls[s] = c /\ c # NoCall /\ c.stage = "sent" /\ c \in Call /\ c \in GoodCalls /\ session
      /\ EditorInv /\ Alone(c) /\ CalmWith(c) /\ signedIn /\ \A kind : ~Done(c, kind)
  BY ArrivingCalm DEF deleteArrives, arriving
<1>2. /\ c.kind = "delete" /\ isDraft(c.id) /\ c.id # 0 /\ c.id \in DOMAIN rows /\ (open => editingId = c.id)
  BY <1>1 DEF deleteArrives, arriving, CalmWith, CalmCall, DeleteFits, GoodCalls, Numbered
<1>3. PICK p : p = server[c.id].form.purchase
  OBVIOUS
<1>4. /\ server' = [i \in DOMAIN server \ {c.id} |-> server[i]]
      /\ typed' = [typed EXCEPT ![p] = fresh] /\ reverted' = reverted \ {p}
      /\ Answer(s, "done") /\ UNCHANGED <<session, screen>>
  BY <1>1, <1>2, <1>3 DEF deleteArrives, refused
<1>5. UNCHANGED <<signedIn, open, form, baseline, editingId, rows, buffers>>
  BY <1>4 DEF screen
<1>6. PICK d \in Call : /\ Alone(d)' /\ d.stage = "done" /\ d.kind = c.kind /\ d.id = c.id
                        /\ d.form = c.form /\ d.next = c.next
  BY <1>1, <1>4, AnsweredCalm
<1>7. /\ p \in DOMAIN typed /\ typed'[p] = fresh /\ DOMAIN typed' = DOMAIN typed
      /\ \A q \in DOMAIN typed \ {p} : typed'[q] = typed[q]
  <2>1. p \in DOMAIN typed
    BY <1>1, <1>2, <1>3, TextsKnown DEF isDraft
  <2>2. typed = [q \in DOMAIN typed |-> typed[q]]
    BY <1>1 DEF EditorInv, TypedFits
  <2>. QED
    BY <1>4, <2>1, <2>2
<1>8. UniqueDrafts'
  BY <1>1, <1>4 DEF CalmWith, UniqueDrafts
<1>9. rows[c.id].form.purchase = p
  BY <1>1, <1>2, <1>3 DEF CalmWith, CalmRows, CalmRow
<1>10. CalmCall(d)'
  BY <1>2, <1>4, <1>5, <1>6, <1>7, <1>9 DEF CalmCall, DeleteFits
<1>11. Done(d, "delete") /\ ~Done(d, "submit")
  BY <1>2, <1>6 DEF Done
<1>12. CalmEditor(d)'
  <2>1. open => editingId # 0 /\ editingId \in DOMAIN rows /\ rows[editingId].form.purchase = form.purchase
    BY <1>1, <1>2 DEF CalmWith, CalmEditor
  <2>. QED
    BY <1>5, <1>11, <2>1 DEF CalmEditor
<1>13. CalmRows(d)'
  <2>. SUFFICES ASSUME NEW id \in DOMAIN rows, id # c.id PROVE CalmRow(d, id)'
    BY <1>5, <1>6, <1>11 DEF CalmRows, CalmRow
  <2>1. CalmRow(c, id) /\ id \in DOMAIN server /\ server[id].form.purchase = rows[id].form.purchase
    BY <1>1 DEF CalmWith, CalmRows, CalmRow
  <2>2. rows[id].form.purchase \in DOMAIN typed \ {p}
    BY <1>1, <1>2, <1>3, <2>1, TextsKnown DEF isDraft, CalmWith, UniqueDrafts
  <2>3. id \in DOMAIN server' /\ server'[id] = server[id]
    BY <1>4, <2>1
  <2>. QED
    BY <1>1, <1>2, <1>5, <1>7, <2>1, <2>2, <2>3, RowKept
<1>14. CalmTexts(d)'
  <2>. SUFFICES ASSUME NEW q \in DOMAIN typed PROVE Saved(d, q)' /\ (signedIn => Recorded(d, q)')
    BY <1>5, <1>7 DEF CalmTexts
  <2>1. CASE q = p
    BY <1>7, <2>1, BoundTypes DEF Saved, Recorded
  <2>2. CASE q # p
    <3>1. Saved(c, q) /\ (signedIn => Recorded(c, q)) /\ typed'[q] = typed[q] /\ LastOf(q)' = LastOf(q)
      BY <1>1, <1>7, <2>2, LastIs DEF CalmWith, CalmTexts
    <3>2. Written(LastOf(q)) => Written(LastOf(q))'
      <4>. SUFFICES ASSUME NEW i \in DOMAIN server, server[i].form = LastOf(q) PROVE Written(LastOf(q))'
        BY DEF Written
      <4>1. i \in DOMAIN server' /\ server'[i] = server[i]
        BY <1>3, <1>4, <2>2, LastIs
      <4>. QED
        BY <3>1, <4>1 DEF Written
    <3>. QED
      BY <1>2, <1>4, <1>5, <2>2, <3>1, <3>2 DEF Saved, Recorded
  <2>. QED
    BY <2>1, <2>2
<1>15. CalmSession(d)'
  BY <1>1, <1>4, <1>5 DEF CalmSession
<1>. QED
  BY <1>6, <1>8, <1>10, <1>12, <1>13, <1>14, <1>15 DEF CalmWith

\* or ends the session.
LEMMA LogoutCalm ==
  ASSUME NEW c, Waiting(c), NEW s \in Slots, logoutArrives(s)
  PROVE  \E d : Alone(d)' /\ CalmWith(d)'
<1>1. /\ calls[s] = c /\ c # NoCall /\ c.stage = "sent" /\ c \in Call
      /\ EditorInv /\ Alone(c) /\ CalmWith(c) /\ signedIn /\ \A kind : ~Done(c, kind)
  BY ArrivingCalm DEF logoutArrives, arriving
<1>2. c.kind = "logout" /\ session' = FALSE /\ Answer(s, "done") /\ UNCHANGED <<server, screen, past>>
  BY <1>1 DEF logoutArrives, arriving
<1>3. UNCHANGED <<signedIn, open, form, baseline, editingId, rows, buffers, typed, reverted>>
  BY <1>2 DEF screen, past
<1>4. PICK d \in Call : /\ Alone(d)' /\ d.stage = "done" /\ d.kind = c.kind /\ d.id = c.id
                        /\ d.form = c.form /\ d.next = c.next
  BY <1>1, <1>2, AnsweredCalm
<1>5. CalmCall(d)'
  <2>1. LogoutFits(c)
    BY <1>1, <1>2 DEF CalmWith, CalmCall
  <2>2. LogoutFits(d)'
    BY <1>2, <1>3, <1>4, <2>1 DEF LogoutFits, Written
  <2>. QED
    BY <1>2, <1>4, <2>2 DEF CalmCall
<1>6. ~Done(d, "submit") /\ ~Done(d, "create") /\ ~Done(d, "delete")
  BY <1>2, <1>4 DEF Done
<1>7. CalmEditor(d)'
  BY <1>1, <1>2, <1>3, <1>6 DEF CalmWith, CalmEditor, LastOf, Unwritten, isDraft
<1>8. CalmRows(d)'
  BY <1>1, <1>2, <1>3, RowKept DEF CalmWith, CalmRows
<1>9. CalmTexts(d)'
  BY <1>1, <1>2, <1>3 DEF CalmWith, CalmTexts, Saved, Recorded, Written, LastOf
<1>10. UniqueDrafts' /\ CalmSession(d)'
  BY <1>1, <1>2, <1>3, <1>4, ServerSame DEF CalmWith, CalmSession
<1>. QED
  BY <1>4, <1>5, <1>7, <1>8, <1>9, <1>10 DEF CalmWith

\* The steps of the server.
LEMMA ArrivedCalm ==
  ASSUME NEW c, Waiting(c), NEW s \in Slots, arrives(s)
  PROVE  \E d : Alone(d)' /\ CalmWith(d)'
<1>1. arrives(s) => calls[s].stage = "sent" /\ calls[s].kind # "none"
  BY DEF arrives, createArrives, updateArrives, submitArrives, deleteArrives, logoutArrives, arriving
<1>2. session /\ EditorInv /\ CalmWith(c) /\ calls[s] = c
  BY <1>1, ArrivingCalm
<1>3. CASE createArrives(s)
  <2>1. CASE ~sound(s)
    BY <1>2, <1>3, <2>1, RefusedCalm DEF createArrives, arriving, refused, sound
  <2>. QED
    BY <1>3, <2>1, CreateCalm
<1>4. CASE updateArrives(s)
  <2>1. isDraft(calls[s].id)
    BY <1>2, <1>4 DEF updateArrives, arriving, CalmWith, CalmCall, UpdateFits
  <2>2. CASE ~sound(s)
    BY <1>2, <1>4, <2>1, <2>2, RefusedCalm DEF updateArrives, arriving, refused, sound
  <2>. QED
    BY <1>4, <2>2, UpdateCalm
<1>5. CASE submitArrives(s)
  <2>1. CASE refused(s, FALSE)
    BY <1>2, <1>5, <2>1, RefusedCalm DEF submitArrives, arriving, refused
  <2>. QED
    BY <1>5, <2>1, SubmitCalm
<1>. QED
  BY <1>3, <1>4, <1>5, DeleteCalm, LogoutCalm DEF arrives

-----------------------------------------------------------------------------
(* The page takes up the answer.                                           *)

\* The call the page goes on to make takes its place.
LEMMA TakenUpCalm ==
  ASSUME NEW c, Waiting(c), NEW s \in Slots, calls[s].stage # "none"
  PROVE  /\ calls[s] = c /\ c # NoCall /\ c \in Call /\ c \in GoodCalls /\ EditorInv /\ Alone(c) /\ CalmWith(c)
         /\ c.stage \in {"sent", "done", "failed"} /\ signedIn /\ (session \/ c.kind = "logout")
         /\ \A d : then(s, d) => Alone(d)'
<1>1. calls[s] # NoCall
  BY NoCallIs
<1>2. calls[s] = c /\ c # NoCall /\ c \in Call /\ c \in GoodCalls
  BY <1>1, AloneIs DEF Waiting
<1>3. \A d : then(s, d) => Alone(d)'
  BY <1>1, AloneAnswered DEF Waiting, then
<1>. QED
  BY <1>2, <1>3 DEF Waiting, CalmWith, CalmCall, CalmSession

\* What the page goes on to do after a save or a submission.
LEMMA OnwardCalm ==
  ASSUME NEW next \in {"nothing", "submit", "logout"}
  PROVE  /\ next # "logout" => onward(next) = NoCall
         /\ next = "logout" => /\ onward(next).kind = "logout" /\ onward(next).stage = "sent"
                               /\ onward(next) # NoCall
         /\ \A kind : kind # "none" => ~Done(onward(next), kind)
<1>1. logout = NewCall("logout", 0, Blank, "nothing")
  BY DEF logout
<1>2. logout.kind = "logout" /\ logout.stage = "sent" /\ logout # NoCall
  BY <1>1, NewCallIs, NoCallIs, ZeroFits
<1>. QED
  BY <1>2, CalmNoCall DEF onward, Done

\* A save: the number it was given is the editor's from now on;
LEMMA SavedCalm ==
  ASSUME NEW c, Waiting(c), NEW s \in Slots, saveAnswered(s)
  PROVE  \E d : Alone(d)' /\ CalmWith(d)'
<1>1. /\ calls[s] = c /\ c # NoCall /\ c \in Call /\ c \in GoodCalls /\ EditorInv /\ Alone(c) /\ CalmWith(c)
      /\ signedIn /\ \A d : then(s, d) => Alone(d)'
  BY TakenUpCalm DEF saveAnswered
<1>2. PICK d : d = IF c.next = "submit" THEN NewCall("submit", c.id, Blank, "nothing") ELSE onward(c.next)
  OBVIOUS
<1>3. /\ c.kind \in {"create", "update"} /\ c.stage = "done" /\ then(s, d)
      /\ rows' = put(rows, c.id, Draft(c.form)) /\ editingId' = c.id
      /\ buffers' = stored(c.id, IF open /\ editingId # c.id THEN form ELSE c.form)
      /\ UNCHANGED <<server, session, signedIn, open, form, baseline, typed, reverted>>
  BY <1>1, <1>2 DEF saveAnswered, past
<1>4. Alone(d)'
  BY <1>1, <1>3
<1>5. /\ isDraft(c.id) /\ server[c.id].form = c.form /\ SaveFits(c) /\ c.id # 0 /\ c.id \in DOMAIN server
      /\ open => editingId \in {0, c.id} /\ form.purchase = c.form.purchase
  BY <1>1, <1>3 DEF CalmWith, CalmCall, CreateFits, UpdateFits, GoodCalls, Numbered, isDraft
<1>6. ~Done(c, "delete") /\ ~Done(c, "submit") /\ session
  BY <1>1, <1>3 DEF Done, CalmWith, CalmSession
<1>7. \/ d = NoCall
      \/ c.next = "submit" /\ d.kind = "submit" /\ d.id = c.id /\ d.stage = "sent"
      \/ c.next = "logout" /\ d.kind = "logout" /\ d.stage = "sent"
  <2>1. c.id \in 0..MaxDrafts /\ c.next \in {"nothing", "submit", "logout"}
    BY <1>1, CallFields
  <2>2. CASE c.next = "submit"
    BY <1>2, <2>1, <2>2, NewCallIs, NoCallIs
  <2>3. CASE c.next # "submit"
    BY <1>2, <2>1, <2>3, OnwardCalm
  <2>. QED
    BY <2>2, <2>3
<1>8. \A kind : kind # "none" => ~Done(d, kind)
  BY <1>7, CalmNoCall DEF Done
<1>9. open => form = LastOf(form.purchase)
  BY <1>1, <1>6 DEF CalmWith, CalmEditor
<1>10. /\ DOMAIN rows' = DOMAIN rows \cup {c.id} /\ rows'[c.id].form = c.form /\ rows'[c.id].status = "Draft"
       /\ \A id \in DOMAIN rows \ {c.id} : rows'[id] = rows[id]
  BY <1>3 DEF put, Draft
<1>11. CalmCall(d)'
  <2>1. CASE d = NoCall
    BY <2>1, CalmNoCall
  <2>2. CASE c.next = "submit" /\ d.kind = "submit" /\ d.id = c.id /\ d.stage = "sent"
    <3>1. open /\ form = c.form
      BY <1>5, <2>2 DEF SaveFits
    <3>2. c.id \in DOMAIN buffers' /\ buffers'[c.id] = form
      BY <1>3, <1>5, <3>1, StoredElsewhere
    <3>3. SubmitFits(d)'
      BY <1>3, <1>5, <2>2, <3>1, <3>2 DEF SubmitFits, isDraft
    <3>. QED
      BY <2>2, <3>3 DEF CalmCall
  <2>3. CASE c.next = "logout" /\ d.kind = "logout" /\ d.stage = "sent"
    <3>1. open /\ form = c.form
      BY <1>5, <2>3 DEF SaveFits
    <3>2. LogoutFits(d)'
      BY <1>3, <1>5, <1>6, <2>3, <3>1 DEF LogoutFits, Written
    <3>. QED
      BY <2>3, <3>2 DEF CalmCall
  <2>. QED
    BY <1>7, <2>1, <2>2, <2>3
<1>12. CalmEditor(d)'
  BY <1>3, <1>5, <1>8, <1>9, <1>10 DEF CalmEditor, LastOf, isDraft
<1>13. CalmRows(d)'
  <2>. SUFFICES ASSUME NEW id \in DOMAIN rows' PROVE CalmRow(d, id)'
    BY DEF CalmRows
  <2>1. CASE id = c.id
    <3>1. id \in DOMAIN buffers' /\ (~open => buffers'[id] = c.form)
      BY <1>3, <1>5, <2>1, StoredElsewhere
    <3>2. ~open => shown(id)' = LastOf(c.form.purchase)'
      BY <1>3, <1>5, <3>1 DEF shown, SaveFits, LastOf
    <3>3. isDraft(id)' /\ rows'[id].form = c.form /\ server'[id].form = c.form /\ id \in DOMAIN server'
      BY <1>3, <1>5, <1>10, <2>1 DEF isDraft
    <3>. QED
      BY <1>3, <2>1, <3>2, <3>3 DEF CalmRow, LastOf
  <2>2. CASE id # c.id
    <3>1. CalmRow(c, id) /\ id # 0 /\ rows'[id] = rows[id]
      BY <1>1, <1>10, <2>2, TextsKnown DEF CalmWith, CalmRows
    <3>2. (id \in DOMAIN buffers' <=> id \in DOMAIN buffers) /\ (id \in DOMAIN buffers => buffers'[id] = buffers[id])
      BY <1>3, <2>2, StoredElsewhere
    <3>. QED
      BY <1>3, <1>5, <1>6, <2>2, <3>1, <3>2, RowKept
  <2>. QED
    BY <2>1, <2>2
<1>14. CalmTexts(d)'
  <2>. SUFFICES ASSUME NEW q \in DOMAIN typed PROVE Saved(d, q)' /\ (signedIn => Recorded(d, q)')
    BY <1>3 DEF CalmTexts
  <2>1. Saved(c, q) /\ Recorded(c, q)
    BY <1>1 DEF CalmWith, CalmTexts
  <2>2. c.id \in DOMAIN rows => rows[c.id].form.purchase = c.form.purchase
    BY <1>1, <1>5, <1>6 DEF CalmWith, CalmRows, CalmRow
  <2>3. (c.form.purchase = q \/ \E id \in DOMAIN rows : rows[id].form.purchase = q)
          => \E id \in DOMAIN rows' : rows'[id].form.purchase = q
    BY <1>10, <2>2
  <2>4. Saved(d, q)'
    BY <1>3, <2>1 DEF Saved, Written, LastOf
  <2>5. Recorded(d, q)'
    BY <1>3, <2>1, <2>3 DEF Recorded
  <2>. QED
    BY <2>4, <2>5
<1>15. UniqueDrafts' /\ CalmSession(d)'
  BY <1>1, <1>3, <1>6, ServerSame DEF CalmWith, CalmSession
<1>. QED
  BY <1>4, <1>11, <1>12, <1>13, <1>14, <1>15 DEF CalmWith

\* What is left when the editor is closed and no call follows.
LEMMA ClosedCalm ==
  ASSUME UniqueDrafts', open' = FALSE, CalmRows(NoCall)', CalmTexts(NoCall)', CalmSession(NoCall)'
  PROVE  CalmWith(NoCall)'
BY CalmNoCall DEF CalmWith, CalmEditor

\* a submission: the editor closes on what was submitted;
LEMMA SubmittedCalm ==
  ASSUME NEW c, Waiting(c), NEW s \in Slots, submitAnswered(s)
  PROVE  Alone(NoCall)' /\ CalmWith(NoCall)'
<1>1. /\ calls[s] = c /\ c # NoCall /\ c \in Call /\ c \in GoodCalls /\ EditorInv /\ Alone(c) /\ CalmWith(c)
      /\ signedIn /\ (session \/ c.kind = "logout") /\ \A d : then(s, d) => Alone(d)'
  BY TakenUpCalm DEF submitAnswered
<1>2. /\ c.kind = "submit" /\ c.stage = "done" /\ then(s, NoCall) /\ open' = FALSE
      /\ rows' = IF c.id \in DOMAIN rows
                 THEN [rows EXCEPT ![c.id] = [form |-> c.form, status |-> "Pending Supervisor Approval"]]
                 ELSE rows
      /\ UNCHANGED <<server, session, signedIn, buffers, typed, reverted>>
  BY <1>1 DEF submitAnswered, past
<1>3. PICK f : f = form
  OBVIOUS
<1>4. /\ open /\ editingId = c.id /\ c.id # 0 /\ c.form = f
      /\ c.id \in DOMAIN server /\ server[c.id].form = f /\ c.id \in DOMAIN buffers /\ buffers[c.id] = f
  BY <1>1, <1>2, <1>3 DEF CalmWith, CalmCall, SubmitFits, GoodCalls, Numbered
<1>5. f = LastOf(f.purchase) /\ c.id \in DOMAIN rows /\ rows[c.id].form.purchase = f.purchase
  BY <1>1, <1>2, <1>3, <1>4 DEF CalmWith, CalmEditor, Done
<1>6. /\ DOMAIN rows' = DOMAIN rows /\ rows'[c.id].form = f /\ rows'[c.id].status # "Draft"
      /\ \A id \in DOMAIN rows \ {c.id} : rows'[id] = rows[id]
  BY <1>2, <1>4, <1>5
<1>7. CalmRows(NoCall)'
  <2>. SUFFICES ASSUME NEW id \in DOMAIN rows PROVE CalmRow(NoCall, id)'
    BY <1>6 DEF CalmRows
  <2>1. CASE id = c.id
    <3>1. shown(id)' = LastOf(f.purchase)'
      BY <1>2, <1>4, <1>5, <2>1 DEF shown, LastOf
    <3>. QED
      BY <1>2, <1>4, <1>6, <2>1, <3>1 DEF CalmRow, LastOf
  <2>2. CASE id # c.id
    <3>1. CalmRow(c, id) /\ ~Done(c, "delete")
      BY <1>1, <1>2 DEF CalmWith, CalmRows, Done
    <3>. QED
      BY <1>2, <1>4, <1>6, <2>2, <3>1, RowKept
  <2>. QED
    BY <2>1, <2>2
<1>8. CalmTexts(NoCall)'
  <2>. SUFFICES ASSUME NEW q \in DOMAIN typed PROVE Saved(NoCall, q)' /\ (signedIn => Recorded(NoCall, q)')
    BY <1>2 DEF CalmTexts
  <2>1. Saved(c, q) /\ Recorded(c, q) /\ LastOf(q)' = LastOf(q)
    BY <1>1, <1>2 DEF CalmWith, CalmTexts, LastOf
  <2>2. q = f.purchase => Written(LastOf(q))'
    BY <1>2, <1>4, <1>5, <2>1 DEF Written
  <2>3. (q = f.purchase \/ \E id \in DOMAIN rows : rows[id].form.purchase = q)
          => \E id \in DOMAIN rows' : rows'[id].form.purchase = q
    BY <1>5, <1>6
  <2>4. Saved(NoCall, q)'
    BY <1>2, <1>3, <2>1, <2>2 DEF Saved, Written
  <2>5. Recorded(NoCall, q)'
    BY <1>2, <1>3, <2>1, <2>3 DEF Recorded
  <2>. QED
    BY <2>4, <2>5
<1>9. UniqueDrafts' /\ CalmSession(NoCall)'
  BY <1>1, <1>2, ServerSame DEF CalmWith, CalmSession
<1>. QED
  BY <1>1, <1>2, <1>7, <1>8, <1>9, ClosedCalm

\* a deletion: it closes on what was given up;
LEMMA DeletedCalm ==
  ASSUME NEW c, Waiting(c), NEW s \in Slots, deleteAnswered(s)
  PROVE  Alone(NoCall)' /\ CalmWith(NoCall)'
<1>1. /\ calls[s] = c /\ c # NoCall /\ c \in Call /\ c \in GoodCalls /\ EditorInv /\ Alone(c) /\ CalmWith(c)
      /\ signedIn /\ (session \/ c.kind = "logout") /\ \A d : then(s, d) => Alone(d)'
  BY TakenUpCalm DEF deleteAnswered
<1>2. /\ c.kind = "delete" /\ c.stage = "done" /\ then(s, NoCall)
      /\ rows' = [i \in DOMAIN rows \ {c.id} |-> rows[i]]
      /\ buffers' = [i \in DOMAIN buffers \ {c.id} |-> buffers[i]]
      /\ open' = FALSE \/ (editingId # c.id /\ open' = open)
      /\ UNCHANGED <<server, session, signedIn, typed, reverted>>
  BY <1>1 DEF deleteAnswered, past
<1>3. /\ open => editingId = c.id /\ c.id # 0
      /\ c.id \in DOMAIN rows /\ typed[rows[c.id].form.purchase] = fresh
  BY <1>1, <1>2 DEF CalmWith, CalmCall, DeleteFits, GoodCalls, Numbered
<1>4. open' = FALSE
  BY <1>1, <1>2, <1>3 DEF EditorInv, EditorFits
<1>5. open => typed[form.purchase] = fresh
  BY <1>1, <1>3 DEF CalmWith, CalmEditor
<1>6. CalmRows(NoCall)'
  <2>. SUFFICES ASSUME NEW id \in DOMAIN rows, id # c.id PROVE CalmRow(NoCall, id)'
    BY <1>2 DEF CalmRows
  <2>1. CalmRow(c, id) /\ ~Done(c, "submit")
    BY <1>1, <1>2 DEF CalmWith, CalmRows, Done
  <2>. QED
    BY <1>2, <1>3, <2>1, RowKept
<1>7. CalmTexts(NoCall)'
  <2>. SUFFICES ASSUME NEW q \in DOMAIN typed PROVE Saved(NoCall, q)' /\ (signedIn => Recorded(NoCall, q)')
    BY <1>2 DEF CalmTexts
  <2>1. Saved(c, q) /\ Recorded(c, q)
    BY <1>1 DEF CalmWith, CalmTexts
  <2>2. Saved(NoCall, q)'
    BY <1>2, <1>5, <2>1, BoundTypes DEF Saved, Written, LastOf
  <2>3. Recorded(NoCall, q)'
    BY <1>2, <1>3, <1>5, <2>1 DEF Recorded
  <2>. QED
    BY <2>2, <2>3
<1>8. UniqueDrafts' /\ CalmSession(NoCall)'
  BY <1>1, <1>2, ServerSame DEF CalmWith, CalmSession
<1>. QED
  BY <1>1, <1>2, <1>4, <1>6, <1>7, <1>8, ClosedCalm

\* a refusal: the editor stays, and a sign-out goes on without the save;
LEMMA FailedCalm ==
  ASSUME NEW c, Waiting(c), NEW s \in Slots, callFailed(s)
  PROVE  \E d : Alone(d)' /\ CalmWith(d)'
<1>1. /\ calls[s] = c /\ c # NoCall /\ c \in Call /\ c \in GoodCalls /\ EditorInv /\ Alone(c) /\ CalmWith(c)
      /\ signedIn /\ (session \/ c.kind = "logout") /\ \A d : then(s, d) => Alone(d)'
  BY TakenUpCalm DEF callFailed
<1>2. /\ c.stage = "failed" /\ c.kind # "logout" /\ then(s, onward(c.next))
      /\ UNCHANGED <<server, session, screen, past>>
  BY <1>1 DEF callFailed
<1>3. PICK d : d = onward(c.next)
  OBVIOUS
<1>4. UNCHANGED <<signedIn, open, form, baseline, editingId, rows, buffers, typed, reverted>>
  BY <1>2 DEF screen, past
<1>5. c.kind \in {"create", "update", "submit"} /\ c.next \in {"nothing", "submit", "logout"}
  <2>1. c.kind # "none" /\ c.kind # "delete"
    BY <1>1, <1>2 DEF GoodCalls, CalmWith, CalmCall, DeleteFits
  <2>. QED
    BY <1>1, <1>2, <2>1, CallFields
<1>6. /\ c.next # "logout" => d = NoCall
      /\ c.next = "logout" => d.kind = "logout" /\ d.stage = "sent" /\ d # NoCall
      /\ \A kind : kind # "none" => ~Done(c, kind) /\ ~Done(d, kind)
  BY <1>2, <1>3, <1>5, OnwardCalm DEF Done
<1>7. CalmCall(d)'
  <2>1. CASE c.next # "logout"
    BY <1>6, <2>1, CalmNoCall
  <2>2. CASE c.next = "logout"
    <3>1. c.kind \in {"create", "update"} => form = c.form /\ c.form.text \notin Sound
      BY <1>1, <1>2, <2>2 DEF CalmWith, CalmCall, SaveFits
    <3>2. c.kind = "submit" => Written(form)
      BY <1>1 DEF CalmWith, CalmCall, SubmitFits, Written
    <3>3. LogoutFits(d)'
      BY <1>1, <1>2, <1>4, <1>5, <1>6, <2>2, <3>1, <3>2 DEF LogoutFits, Written
    <3>. QED
      BY <1>6, <2>2, <3>3 DEF CalmCall
  <2>. QED
    BY <2>1, <2>2
<1>8. CalmEditor(d)'
  BY <1>1, <1>2, <1>4, <1>6 DEF CalmWith, CalmEditor, LastOf, Unwritten, isDraft
<1>9. CalmRows(d)'
  BY <1>1, <1>2, <1>4, <1>6, RowKept DEF CalmWith, CalmRows
<1>10. CalmTexts(d)'
  <2>. SUFFICES ASSUME NEW q \in DOMAIN typed PROVE Saved(d, q)' /\ (signedIn => Recorded(d, q)')
    BY <1>4 DEF CalmTexts
  <2>1. Saved(c, q) /\ Recorded(c, q)
    BY <1>1 DEF CalmWith, CalmTexts
  <2>2. Saved(d, q)'
    BY <1>2, <1>4, <2>1 DEF Saved, Written, LastOf
  <2>3. c.kind = "create" /\ c.form.purchase = q => (open /\ form.purchase = q) \/ typed[q] \notin Sound
    BY <1>1, <1>2, LastIs DEF CalmWith, CalmCall, CreateFits, SaveFits
  <2>4. Recorded(d, q)'
    BY <1>4, <2>1, <2>3 DEF Recorded
  <2>. QED
    BY <2>2, <2>4
<1>11. UniqueDrafts' /\ CalmSession(d)'
  BY <1>1, <1>2, <1>4, ServerSame DEF CalmWith, CalmSession
<1>. QED
  BY <1>1, <1>2, <1>3, <1>7, <1>8, <1>9, <1>10, <1>11 DEF CalmWith

\* a sign-out: it closes on what was saved before.
LEMMA SignedOutCalm ==
  ASSUME NEW c, Waiting(c), NEW s \in Slots, logoutAnswered(s)
  PROVE  Alone(NoCall)' /\ CalmWith(NoCall)'
<1>1. /\ calls[s] = c /\ c # NoCall /\ c \in Call /\ c \in GoodCalls /\ EditorInv /\ Alone(c) /\ CalmWith(c)
      /\ \A d : then(s, d) => Alone(d)'
  BY TakenUpCalm DEF logoutAnswered
<1>2. /\ c.kind = "logout" /\ then(s, NoCall)
      /\ signedIn' = FALSE /\ rows' = <<>> /\ open' = FALSE /\ UNCHANGED <<server, session, typed, reverted>>
  BY <1>1 DEF logoutAnswered, endLocalSession, past
<1>3. CalmTexts(NoCall)'
  <2>. SUFFICES ASSUME NEW q \in DOMAIN typed PROVE Saved(NoCall, q)'
    BY <1>2 DEF CalmTexts
  <2>1. Saved(c, q)
    BY <1>1 DEF CalmWith, CalmTexts
  <2>2. open => form.text \notin Sound \cap Worthy \/ Written(form)
    BY <1>1, <1>2 DEF CalmWith, CalmCall, LogoutFits
  <2>3. open => form = LastOf(form.purchase)
    BY <1>1, <1>2 DEF CalmWith, CalmEditor, Done
  <2>4. open /\ form.purchase = q => form.text = typed[q] /\ form = LastOf(q)
    BY <2>3, LastIs
  <2>. QED
    BY <1>2, <2>1, <2>2, <2>4 DEF Saved, Written, LastOf
<1>4. CalmRows(NoCall)' /\ CalmSession(NoCall)' /\ UniqueDrafts'
  BY <1>1, <1>2, ServerSame DEF CalmRows, CalmSession, CalmWith
<1>. QED
  BY <1>1, <1>2, <1>3, <1>4, ClosedCalm

\* Nothing was begun, and nothing is under way.
LEMMA CalmInitGood == Init => CalmInv
<1>. SUFFICES ASSUME Init PROVE Alone(NoCall) /\ CalmWith(NoCall)
  BY DEF CalmInv
<1>1. Alone(NoCall)
  BY DEF Init, Alone
<1>2. CalmWith(NoCall)
  BY CalmNoCall DEF Init, CalmWith, UniqueDrafts, CalmEditor, CalmRows, CalmTexts, CalmSession
<1>. QED
  BY <1>1, <1>2

\* Every step of a user who waits, and of the server and the page meanwhile,
\* leaves one call at most, and what it needs to know.
LEMMA CalmNextGood == EditorInv /\ CalmInv /\ [Next]_dvars => CalmInv'
<1>. SUFFICES ASSUME EditorInv, CalmInv, [Next]_dvars, disturbed' = 0 PROVE CalmInv'
  BY DEF CalmInv
<1>1. disturbed \in Nat
  BY BoundTypes DEF EditorInv, EditorFits
<1>2. ~Expire /\ \A s \in Slots : ~Lose(s)
  BY <1>1 DEF Expire, Lose, disturb
<1>3. disturbed = 0
  <2>1. CASE user \/ autosave
    <3>1. disturbed' = disturbed \/ disturbed' = disturbed + 1
      BY <2>1 DEF user, startNew, type, save, closeEditor, submitNative, signOut, resume, deleteDraft, autosave,
                  saveNativeDraft, disturbIf, disturb
    <3>. QED
      BY <1>1, <3>1
  <2>2. CASE \E s \in Slots : arrives(s) \/ answered(s)
    BY <2>2 DEF arrives, answered, createArrives, updateArrives, submitArrives, deleteArrives, logoutArrives,
                saveAnswered, submitAnswered, deleteAnswered, callFailed, sessionEnded, logoutAnswered,
                endLocalSession
  <2>3. CASE UNCHANGED dvars
    BY <2>3 DEF dvars
  <2>. QED
    BY <1>2, <2>1, <2>2, <2>3 DEF Next
<1>4. PICK c : Waiting(c)
  BY <1>3 DEF CalmInv, Waiting
<1>5. \E d : Alone(d)' /\ CalmWith(d)'
  <2>1. CASE user \/ autosave
    BY <1>4, <2>1, UserCalm
  <2>2. ASSUME NEW s \in Slots, arrives(s) PROVE \E d : Alone(d)' /\ CalmWith(d)'
    BY <1>4, <2>2, ArrivedCalm
  <2>3. ASSUME NEW s \in Slots, answered(s) PROVE \E d : Alone(d)' /\ CalmWith(d)'
    <3>1. ~sessionEnded(s)
      BY <1>4, TakenUpCalm DEF sessionEnded
    <3>. QED
      BY <1>4, <2>3, <3>1, SavedCalm, SubmittedCalm, DeletedCalm, FailedCalm, SignedOutCalm DEF answered
  <2>4. CASE UNCHANGED dvars
    <3>1. CalmWith(c)'
      BY <1>4, <2>4 DEF Waiting, dvars, screen, past, CalmWith, UniqueDrafts, CalmCall, CreateFits, UpdateFits,
                        SaveFits, SubmitFits, DeleteFits, LogoutFits, CalmEditor, CalmRows, CalmRow, CalmTexts,
                        Saved, Recorded, Written, Unwritten, isDraft, shown, LastOf, CalmSession
    <3>. QED
      BY <1>4, <2>4, <3>1, AloneKept DEF Waiting, dvars
  <2>. QED
    BY <1>2, <2>1, <2>2, <2>3, <2>4 DEF Next
<1>6. PICK d : Alone(d)' /\ CalmWith(d)'
  BY <1>5
<1>7. d \in {NoCall} \cup {calls'[s] : s \in Slots}
  BY <1>6 DEF Alone
<1>. QED
  BY <1>6, <1>7 DEF CalmInv

\* The invariant of a user who waits holds: whatever the texts are that the
\* server refuses and the page does not save, the one call under way, the
\* editor, the list with its copies and the server agree as CalmWith says.
THEOREM CalmInvAlways == FairSpec => []CalmInv
<1>1. EditorInv /\ CalmInv /\ EditorInv' /\ [Next]_dvars => CalmInv'
  BY CalmNextGood
<1>. QED
  BY <1>1, CalmInitGood, EditorInvAlways, PTL DEF FairSpec

\* However the timer, the button, submitting and closing follow each other,
\* a purchase has one request: each save finds the number an earlier one was
\* given, as long as the user waits and nothing is lost.
THEOREM OneDraft == FairSpec => []OneDraftPerPurchase
<1>1. EditorInv /\ CalmInv => OneDraftPerPurchase
  <2>1. EditorInv => disturbed \in Nat
    BY BoundTypes DEF EditorInv, EditorFits
  <2>. QED
    BY <2>1 DEF CalmInv, CalmWith, UniqueDrafts, OneDraftPerPurchase
<1>. QED
  BY <1>1, EditorInvAlways, CalmInvAlways, PTL

\* Once the calls are answered, what was typed last of a purchase is in the
\* editor or is what opening its request shows, unless it is a new form that
\* is empty or that the server refuses; and after a sign-out the server has
\* what the page thinks worth a save and the server takes, unless its editor
\* was left as it was opened while another text had been saved.
THEOREM NothingLost == FairSpec => []PatientUserLosesNothing
<1>1. EditorInv /\ CalmInv => PatientUserLosesNothing
  <2>. SUFFICES ASSUME EditorInv, CalmInv, disturbed = 0, ~Busy, NEW p \in DOMAIN typed
                PROVE  IF signedIn
                       THEN \/ open /\ form = LastOf(p)
                            \/ \E i \in DOMAIN rows : shown(i) = LastOf(p)
                            \/ Unrecorded(p)
                       ELSE typed[p] \in Sound \cap Worthy /\ p \notin reverted => Written(LastOf(p))
    <3>1. EditorInv => disturbed \in Nat
      BY BoundTypes DEF EditorInv, EditorFits
    <3>. QED
      BY <3>1 DEF PatientUserLosesNothing
  <2>1. PICK c : Alone(c) /\ CalmWith(c)
    BY DEF CalmInv
  <2>2. c = NoCall
    BY <2>1, AloneIs
  <2>3. CalmEditor(NoCall) /\ CalmRows(NoCall) /\ Saved(NoCall, p) /\ (signedIn => Recorded(NoCall, p))
    BY <2>1, <2>2 DEF CalmWith, CalmTexts
  <2>4. open /\ form.purchase = p => form = LastOf(p)
    BY <2>3, CalmNoCall DEF CalmEditor
  <2>5. CASE ~signedIn
    <3>1. ~open
      BY <2>1, <2>5 DEF CalmWith, CalmSession
    <3>. QED
      BY <2>3, <2>5, <3>1, NoCallIs DEF Saved
  <2>6. CASE signedIn
    <3>1. ASSUME NEW i \in DOMAIN rows, rows[i].form.purchase = p
          PROVE  (open /\ form = LastOf(p)) \/ shown(i) = LastOf(p)
      <4>1. CASE open /\ editingId = i
        <5>1. form.purchase = p
          BY <2>3, <3>1, <4>1, TextsKnown DEF CalmEditor
        <5>. QED
          BY <2>4, <4>1, <5>1
      <4>2. CASE ~(open /\ editingId = i)
        BY <2>3, <3>1, <4>2, CalmNoCall DEF CalmRows, CalmRow
      <4>. QED
        BY <4>1, <4>2
    <3>2. CASE \E i \in DOMAIN rows : rows[i].form.purchase = p
      BY <2>6, <3>1, <3>2
    <3>3. CASE \A i \in DOMAIN rows : rows[i].form.purchase # p
      BY <2>3, <2>4, <2>6, <3>3, NoCallIs DEF Recorded, Unrecorded
    <3>. QED
      BY <3>2, <3>3
  <2>. QED
    BY <2>5, <2>6
<1>. QED
  BY <1>1, EditorInvAlways, CalmInvAlways, PTL

=============================================================================
