--------------------------- MODULE PrfStoreProofs ---------------------------
(***************************************************************************)
(* Proofs about the data layer, for every set of accounts, every content   *)
(* a form may hold and every bound: first the signing ladder it is built   *)
(* on, for every amount and every value of Infinity, then the state, then  *)
(* what one step does to a record and what follows: the action properties, *)
(* the promise of TwoGates, the account log, the bell.                     *)
(***************************************************************************)
EXTENDS PrfStoreProperties, FiniteSetTheorems, SequenceTheorems, WellFoundedInduction, TLAPS

-----------------------------------------------------------------------------
(* The signing ladder.                                                     *)

\* Limits are natural numbers and grow, or stay unlimited, up the ladder.
LEMMA LimitTypes ==
  /\ \A tier \in Tiers : tierLimit(tier) \in Nat /\ tierLimit(tier) > 0
  /\ tierLimit(NoTier) = 0
  /\ \A i \in 1..6 : TIERS[i] \in Tiers
  /\ \A i, j \in 1..6 : i <= j => tierLimit(TIERS[i]) <= tierLimit(TIERS[j])
  /\ \A i, j \in 1..6 : i < j /\ i < 5 => tierLimit(TIERS[i]) < tierLimit(TIERS[j])
  /\ tierLimit(TIERS[5]) = Infinity /\ tierLimit(TIERS[6]) = Infinity
<1>. DEFINE limit == <<500000, 1500000, 2500000, 7500000, Infinity, Infinity>>
<1>1. \A i \in 1..6 : TIERS[i] \in Tiers
  BY DEF TIERS, Tiers
<1>2. \A tier \in Tiers : tierLimit(tier) \in Nat /\ tierLimit(tier) > 0
  BY InfinityAssumption DEF tierLimit, TIER_LIMIT, Tiers
<1>3. tierLimit(NoTier) = 0
  BY NoTierAssumption DEF tierLimit
<1>4. /\ tierLimit(TIERS[1]) = 500000  /\ tierLimit(TIERS[2]) = 1500000
      /\ tierLimit(TIERS[3]) = 2500000 /\ tierLimit(TIERS[4]) = 7500000
      /\ tierLimit(TIERS[5]) = Infinity /\ tierLimit(TIERS[6]) = Infinity
  BY DEF tierLimit, TIER_LIMIT, Tiers, TIERS
<1>5. \A i \in 1..6 : i = 1 \/ i = 2 \/ i = 3 \/ i = 4 \/ i = 5 \/ i = 6
  OBVIOUS
<1>6. \A i, j \in 1..6 : i <= j => tierLimit(TIERS[i]) <= tierLimit(TIERS[j])
  BY <1>4, <1>5, InfinityAssumption
<1>7. \A i, j \in 1..6 : i < j /\ i < 5 => tierLimit(TIERS[i]) < tierLimit(TIERS[j])
  BY <1>4, <1>5, InfinityAssumption
<1>. QED
  BY <1>1, <1>2, <1>3, <1>4, <1>6, <1>7

\* The tier chosen for an amount is the first of the ladder that covers it.
LEMMA FirstThatCovers ==
  ASSUME NEW amount \in Nat, amount < Infinity, amount > 0
  PROVE  \E i \in 1..6 : /\ tierForAmount(amount) = TIERS[i]
                         /\ amount <= tierLimit(TIERS[i])
                         /\ \A j \in 1..(i-1) : amount > tierLimit(TIERS[j])
<1>. DEFINE P(i) == /\ amount <= tierLimit(TIERS[i])
                    /\ \A j \in 1..(i-1) : amount > tierLimit(TIERS[j])
<1>1. \A i \in 1..6 : tierLimit(TIERS[i]) \in Nat
  BY LimitTypes
<1>2. amount <= tierLimit(TIERS[6])
  BY LimitTypes, InfinityAssumption
<1>3. \E i \in 1..6 : P(i)
  <2>1. CASE P(1)  BY <2>1
  <2>2. CASE ~P(1) /\ P(2)  BY <2>2
  <2>3. CASE ~P(1) /\ ~P(2) /\ P(3)  BY <2>3
  <2>4. CASE ~P(1) /\ ~P(2) /\ ~P(3) /\ P(4)  BY <2>4
  <2>5. CASE ~P(1) /\ ~P(2) /\ ~P(3) /\ ~P(4) /\ P(5)  BY <2>5
  <2>6. CASE ~P(1) /\ ~P(2) /\ ~P(3) /\ ~P(4) /\ ~P(5)
    <3>1. amount > tierLimit(TIERS[1])
      BY <2>6, <1>1
    <3>2. amount > tierLimit(TIERS[2])
      BY <2>6, <3>1, <1>1
    <3>3. amount > tierLimit(TIERS[3])
      BY <2>6, <3>1, <3>2, <1>1
    <3>4. amount > tierLimit(TIERS[4])
      BY <2>6, <3>1, <3>2, <3>3, <1>1
    <3>5. amount > tierLimit(TIERS[5])
      BY <2>6, <3>1, <3>2, <3>3, <3>4, <1>1
    <3>. QED
      BY <3>1, <3>2, <3>3, <3>4, <3>5, <1>2
  <2>. QED
    BY <2>1, <2>2, <2>3, <2>4, <2>5, <2>6
<1>4. PICK i \in 1..6 : P(i) /\ i = CHOOSE k \in 1..6 : P(k)
  BY <1>3
<1>5. tierForAmount(amount) = TIERS[i]
  BY <1>4 DEF tierForAmount
<1>. QED
  BY <1>4, <1>5

\* The tier chosen for an amount exists and its limit covers the amount.
THEOREM TierForAmountCovers ==
  ASSUME NEW amount \in Nat, amount < Infinity
  PROVE  /\ tierForAmount(amount) \in Tiers
         /\ amount <= tierLimit(tierForAmount(amount))
<1>1. CASE amount <= 0
  BY <1>1, LimitTypes DEF tierForAmount, Tiers
<1>2. CASE amount > 0
  BY <1>2, FirstThatCovers, LimitTypes
<1>. QED
  BY <1>1, <1>2

\* No tier that covers the amount has a lower limit than the one chosen.
THEOREM TierForAmountIsLowest ==
  ASSUME NEW amount \in Nat, amount < Infinity,
         NEW tier \in Tiers, tierLimit(tier) >= amount
  PROVE  tierLimit(tierForAmount(amount)) <= tierLimit(tier)
<1>1. PICK k \in 1..6 : TIERS[k] = tier
  BY DEF Tiers, TIERS
<1>2. CASE amount <= 0
  <2>1. tierForAmount(amount) = TIERS[1]
    BY <1>2 DEF tierForAmount, TIERS
  <2>2. tierLimit(TIERS[1]) <= tierLimit(TIERS[k])
    BY LimitTypes
  <2>. QED
    BY <1>1, <2>1, <2>2
<1>3. CASE amount > 0
  <2>1. PICK i \in 1..6 : /\ tierForAmount(amount) = TIERS[i]
                         /\ \A j \in 1..(i-1) : amount > tierLimit(TIERS[j])
    BY <1>3, FirstThatCovers
  <2>2. ~(k \in 1..(i-1))
    <3>1. tierLimit(TIERS[k]) \in Nat /\ amount <= tierLimit(TIERS[k])
      BY <1>1, LimitTypes
    <3>. QED
      BY <2>1, <3>1
  <2>3. i <= k
    BY <2>2
  <2>. QED
    BY <1>1, <2>1, <2>3, LimitTypes
<1>. QED
  BY <1>2, <1>3

\* One rung up is on the ladder and never covers less.
THEOREM NextTierAboveCovers ==
  ASSUME NEW tier \in Tiers
  PROVE  /\ nextTierAbove(tier) \in Tiers
         /\ tierLimit(nextTierAbove(tier)) >= tierLimit(tier)
<1>1. \E k \in 1..6 : TIERS[k] = tier
  BY DEF Tiers, TIERS
<1>2. PICK i \in 1..6 : TIERS[i] = tier /\ i = CHOOSE k \in 1..6 : TIERS[k] = tier
  BY <1>1
<1> DEFINE up == IF i < 6 THEN i + 1 ELSE 6
<1>3. nextTierAbove(tier) = TIERS[up]
  BY <1>2 DEF nextTierAbove
<1>4. up \in 1..6 /\ i <= up
  OBVIOUS
<1>5. /\ TIERS[up] \in Tiers /\ tierLimit(TIERS[i]) <= tierLimit(TIERS[up])
      /\ tierLimit(TIERS[i]) \in Nat /\ tierLimit(TIERS[up]) \in Nat
  <2>. HIDE DEF up
  <2>. QED  BY <1>4, LimitTypes
<1>. HIDE DEF up
<1>. QED
  BY <1>2, <1>3, <1>5

\* Below the top of the ladder it covers more.
THEOREM NextTierAboveCoversMore ==
  ASSUME NEW tier \in Tiers, tierLimit(tier) # Infinity
  PROVE  tierLimit(nextTierAbove(tier)) > tierLimit(tier)
<1>1. PICK i \in 1..6 : TIERS[i] = tier /\ i = CHOOSE k \in 1..6 : TIERS[k] = tier
  BY DEF Tiers, TIERS
<1>2. i < 5
  <2>1. i # 5 /\ i # 6
    BY <1>1, LimitTypes
  <2>. QED
    BY <2>1
<1>3. nextTierAbove(tier) = TIERS[i + 1]
  <2>1. i < 6
    BY <1>2
  <2>. QED
    BY <1>1, <2>1 DEF nextTierAbove
<1>4. i + 1 \in 1..6 /\ i < i + 1
  BY <1>2
<1>5. tierLimit(TIERS[i]) < tierLimit(TIERS[i + 1])
  BY <1>2, <1>4, LimitTypes
<1>. QED
  BY <1>1, <1>3, <1>5

-----------------------------------------------------------------------------
(* The shape of what the helpers return.                                   *)

\* What auditEntry and systemEntry write are audit entries, the first in the
\* form the properties call entryBy.
LEMMA EntryTypes ==
  ASSUME NEW actor \in Actor, NEW action \in AuditAction, NEW tier \in Tiers \cup {NoTier}
  PROVE  /\ auditEntry(actor, action) \in AuditEntry
         /\ systemEntry(action, tier) \in AuditEntry
         /\ auditEntry(actor, action) = entryBy(action, actor.userId)
BY DEF entryBy, Actor, AuditEntry, auditEntry, systemEntry

\* A band that is missing authorises nothing, so the tier a submission must
\* reach is on the ladder and covers the amount whoever the author is.
LEMMA RequiredCovers ==
  ASSUME NEW actor \in Actor, NEW amount \in Nat, amount < Infinity
  PROVE  /\ requiredAtSubmission(actor, amount) \in Tiers
         /\ amount <= tierLimit(requiredAtSubmission(actor, amount))
<1>. DEFINE byAmount == tierForAmount(amount)
<1>1. byAmount \in Tiers /\ amount <= tierLimit(byAmount)
  BY TierForAmountCovers
<1>2. CASE isApprover(actor.role) /\ actor.tier # NoTier /\ tierLimit(actor.tier) >= tierLimit(byAmount)
  <2>1. actor.tier \in Tiers
    BY <1>2 DEF Actor
  <2>2. requiredAtSubmission(actor, amount) = nextTierAbove(actor.tier)
    BY <1>2 DEF requiredAtSubmission
  <2>3. /\ nextTierAbove(actor.tier) \in Tiers
        /\ tierLimit(nextTierAbove(actor.tier)) >= tierLimit(actor.tier)
    BY <2>1, NextTierAboveCovers
  <2>4. /\ tierLimit(actor.tier) \in Nat /\ tierLimit(byAmount) \in Nat
        /\ tierLimit(nextTierAbove(actor.tier)) \in Nat
    BY <1>1, <2>1, <2>3, LimitTypes
  <2>. HIDE DEF byAmount
  <2>. QED
    BY <1>1, <1>2, <2>2, <2>3, <2>4
<1>3. CASE ~(isApprover(actor.role) /\ actor.tier # NoTier /\ tierLimit(actor.tier) >= tierLimit(byAmount))
  BY <1>1, <1>3 DEF requiredAtSubmission
<1>. QED
  BY <1>2, <1>3

\* A trail that keeps its first entry still starts with its owner's draft.
LEMMA StillBegun ==
  ASSUME NEW r, NEW q, BegunByOwner(r), q.ownerId = r.ownerId,
         q.audit[1] = r.audit[1], Len(q.audit) > 0
  PROVE  BegunByOwner(q)
BY DEF BegunByOwner

\* Appending one entry to a trail moves every other entry one place back.
LEMMA TrailAfterOne ==
  ASSUME NEW r \in Request, NEW q, NEW e \in AuditEntry, q.audit = Append(r.audit, e)
  PROVE  /\ q.audit \in Seq(AuditEntry)
         /\ Len(q.audit) = Len(r.audit) + 1 /\ Len(r.audit) \in Nat
         /\ At(q, 0) = e
         /\ \A k \in 0..(Len(r.audit) - 1) : At(q, k + 1) = At(r, k)
         /\ Len(r.audit) > 0 => q.audit[1] = r.audit[1] /\ Len(q.audit) > 0
<1>1. r.audit \in Seq(AuditEntry)
  BY DEF Request
<1>. QED
  BY <1>1 DEF At

\* What two more elements at the end do to a sequence.
LEMMA TwoMore ==
  ASSUME NEW S, NEW old \in Seq(S), NEW new \in Seq(S), Len(new) = 2
  PROVE  /\ old \o new \in Seq(S)
         /\ Len(old) \in Nat /\ Len(old \o new) = Len(old) + 2
         /\ \A i \in 1..Len(old) : (old \o new)[i] = old[i]
         /\ (old \o new)[Len(old) + 1] = new[1]
         /\ (old \o new)[Len(old) + 2] = new[2]
<1>1. Len(old) \in Nat
  OBVIOUS
<1>2. old \o new \in Seq(S) /\ Len(old \o new) = Len(old) + Len(new)
  BY ConcatProperties, Zenon
<1>3. \A i \in 1..(Len(old) + Len(new)) :
        (old \o new)[i] = IF i <= Len(old) THEN old[i] ELSE new[i - Len(old)]
  BY ConcatProperties, Zenon
<1>4. (old \o new)[Len(old) + 1] = new[1]
  <2>1. Len(old) + 1 \in 1..(Len(old) + 2) /\ ~(Len(old) + 1 <= Len(old)) /\ (Len(old) + 1) - Len(old) = 1
    BY <1>1
  <2>. QED  BY <1>3, <2>1
<1>5. (old \o new)[Len(old) + 2] = new[2]
  <2>1. Len(old) + 2 \in 1..(Len(old) + 2) /\ ~(Len(old) + 2 <= Len(old)) /\ (Len(old) + 2) - Len(old) = 2
    BY <1>1
  <2>. QED  BY <1>3, <2>1
<1>6. \A i \in 1..Len(old) : (old \o new)[i] = old[i]
  BY <1>1, <1>3
<1>. QED
  BY <1>1, <1>2, <1>4, <1>5, <1>6

\* Appending two moves them two places back.
LEMMA TrailAfterTwo ==
  ASSUME NEW r \in Request, NEW q, NEW new \in Seq(AuditEntry), Len(new) = 2,
         q.audit = r.audit \o new
  PROVE  /\ q.audit \in Seq(AuditEntry)
         /\ Len(q.audit) = Len(r.audit) + 2 /\ Len(r.audit) \in Nat
         /\ At(q, 0) = new[2] /\ At(q, 1) = new[1]
         /\ \A k \in 0..(Len(r.audit) - 1) : At(q, k + 2) = At(r, k)
         /\ Len(r.audit) > 0 => q.audit[1] = r.audit[1] /\ Len(q.audit) > 0
<1>. DEFINE old == r.audit
            both == q.audit
<1>1. old \in Seq(AuditEntry) /\ both = old \o new
  BY DEF Request
<1>2. /\ both \in Seq(AuditEntry)
      /\ Len(old) \in Nat /\ Len(both) = Len(old) + 2
      /\ \A i \in 1..Len(old) : both[i] = old[i]
      /\ both[Len(old) + 1] = new[1] /\ both[Len(old) + 2] = new[2]
  <2>1. /\ old \o new \in Seq(AuditEntry)
        /\ Len(old) \in Nat /\ Len(old \o new) = Len(old) + 2
        /\ \A i \in 1..Len(old) : (old \o new)[i] = old[i]
        /\ (old \o new)[Len(old) + 1] = new[1]
        /\ (old \o new)[Len(old) + 2] = new[2]
    BY <1>1, TwoMore, Zenon
  <2>. QED  BY <1>1, <2>1, Zenon
<1>3. At(q, 0) = both[Len(both)] /\ At(q, 1) = both[Len(both) - 1]
  BY <1>2 DEF At
<1>4. \A k : At(q, k + 2) = both[Len(both) - (k + 2)] /\ At(r, k) = old[Len(old) - k]
  BY DEF At
<1>. HIDE DEF old, both
<1>5. At(q, 0) = new[2] /\ At(q, 1) = new[1]
  BY <1>2, <1>3
<1>6. \A k \in 0..(Len(old) - 1) : At(q, k + 2) = At(r, k)
  <2>. SUFFICES ASSUME NEW k \in 0..(Len(old) - 1)  PROVE  At(q, k + 2) = At(r, k)
    OBVIOUS
  <2>1. Len(both) - (k + 2) = Len(old) - k /\ Len(old) - k \in 1..Len(old)
    BY <1>2
  <2>. QED
    BY <1>2, <1>4, <2>1
<1>7. Len(old) > 0 => both[1] = old[1] /\ Len(both) > 0
  BY <1>2
<1>. QED
  BY <1>2, <1>5, <1>6, <1>7 DEF old, both

\* Signing the last line of an approvals list rewrites only that line, the
\* one of the gate the request is waiting at.
LEMMA SignLastOfTwo ==
  ASSUME NEW a \in Approval, NEW b \in Approval, NEW actor \in Actor, NEW status \in ApprovalStatus
  PROVE  LET signed == [gate |-> b.gate, name |-> actor.userId, status |-> status]
         IN  /\ signLast(<<a, b>>, actor, status) = <<a, signed>>
             /\ signed \in Approval
             /\ <<a, signed>> \in Seq(Approval)
<1>. DEFINE signed == [gate |-> b.gate, name |-> actor.userId, status |-> status]
<1>1. signed \in Approval
  BY DEF Approval, Actor
<1>2. Len(<<a, b>>) = 2 /\ <<a, b>>[2] = b
  OBVIOUS
<1>3. signLast(<<a, b>>, actor, status) = <<a, signed>>
  BY <1>2 DEF signLast
<1>. HIDE DEF signed
<1>4. <<a, signed>> \in Seq(Approval)
  BY <1>1
<1>. QED
  BY <1>1, <1>3, <1>4 DEF signed

\* What one more element at the end does to a sequence.
LEMMA OneMore ==
  ASSUME NEW S, NEW old \in Seq(S), NEW elt \in S
  PROVE  /\ Append(old, elt) \in Seq(S) /\ Len(Append(old, elt)) = Len(old) + 1
         /\ \A i \in 1..Len(old) : Append(old, elt)[i] = old[i]
         /\ Append(old, elt)[Len(old) + 1] = elt
<1>1. Append(old, elt) \in Seq(S) /\ Len(Append(old, elt)) = Len(old) + 1
  OBVIOUS
<1>2. \A i \in 1..Len(old) : Append(old, elt)[i] = old[i]
  OBVIOUS
<1>3. Append(old, elt)[Len(old) + 1] = elt
  OBVIOUS
<1>. QED
  BY <1>1, <1>2, <1>3

\* The line of gate 2 goes under the other two.
LEMMA ThirdGate ==
  ASSUME NEW a \in Approval, NEW b \in Approval, NEW c \in Approval
  PROVE  Append(<<a, b>>, c) = <<a, b, c>> /\ <<a, b, c>> \in Seq(Approval)
<1>. DEFINE two == <<a, b>>
            three == <<a, b, c>>
            longer == Append(two, c)
<1>1. two \in Seq(Approval) /\ Len(two) = 2 /\ two[1] = a /\ two[2] = b
  OBVIOUS
<1>2. three \in Seq(Approval) /\ Len(three) = 3 /\ three[1] = a /\ three[2] = b /\ three[3] = c
  OBVIOUS
<1>. HIDE DEF two, three
<1>3. /\ longer \in Seq(Approval) /\ Len(longer) = Len(two) + 1
      /\ \A i \in 1..Len(two) : longer[i] = two[i]
      /\ longer[Len(two) + 1] = c
  <2>. HIDE DEF longer
  <2>1. /\ Append(two, c) \in Seq(Approval) /\ Len(Append(two, c)) = Len(two) + 1
        /\ \A i \in 1..Len(two) : Append(two, c)[i] = two[i]
        /\ Append(two, c)[Len(two) + 1] = c
    BY <1>1, OneMore, Zenon
  <2>. QED
    BY <2>1, Zenon DEF longer
<1>. HIDE DEF longer
<1>4. Len(longer) = Len(three) /\ \A i \in 1..Len(longer) : longer[i] = three[i]
  BY <1>1, <1>2, <1>3
<1>5. longer = three
  BY <1>2, <1>3, <1>4, SeqEqual, Zenon
<1>. QED
  BY <1>2, <1>5 DEF longer, two, three

\* Signing at gate 2 rewrites the third of three approvals and keeps the
\* two before it (financeReview, returnToRequester).
LEMMA SignLastOfThree ==
  ASSUME NEW a \in Approval, NEW b \in Approval, NEW c \in Approval,
         NEW actor \in Actor, NEW status \in ApprovalStatus
  PROVE  LET signed == [gate |-> c.gate, name |-> actor.userId, status |-> status]
         IN  /\ signLast(<<a, b, c>>, actor, status) = <<a, b, signed>>
             /\ <<a, b, signed>> \in Seq(Approval)
<1>. DEFINE signed == [gate |-> c.gate, name |-> actor.userId, status |-> status]
<1>1. signed \in Approval
  BY DEF Approval, Actor
<1>2. Len(<<a, b, c>>) = 3 /\ <<a, b, c>>[3] = c
  OBVIOUS
<1>3. signLast(<<a, b, c>>, actor, status) = <<a, b, signed>>
  BY <1>2 DEF signLast
<1>. HIDE DEF signed
<1>4. <<a, b, signed>> \in Seq(Approval)
  BY <1>1
<1>. QED
  BY <1>3, <1>4 DEF signed

-----------------------------------------------------------------------------
(* Every operation writes a good record: one of the right shape whose trail *)
(* and approvals list explain its status.                                  *)

GoodRecord(r) == r \in Request /\ TrailExplainsStatus(r) /\ ApprovalsFit(r)

\* A new draft is good.
LEMMA NewDraftGood ==
  ASSUME NEW actor \in Actor, NEW content \in Content
  PROVE  GoodRecord(NewDraft(actor, content))
<1>. DEFINE d == NewDraft(actor, content)
            e == auditEntry(actor, "Draft created")
<1>1. e \in AuditEntry /\ e.action \in Edits /\ e.actorId = actor.userId
  BY EntryTypes DEF AuditAction, Edits, auditEntry, Actor, AuditEntry
<1>2. /\ d.audit = <<e>> /\ d.ownerId = actor.userId /\ d.status = "Draft" /\ d.approvals = <<>>
  BY DEF NewDraft
<1>3. /\ <<e>> \in Seq(AuditEntry) /\ Len(<<e>>) = 1 /\ <<e>>[1] = e
      /\ <<>> \in Seq(Approval)
  <2>. HIDE DEF e
  <2>. QED  BY <1>1
<1>4. d \in Request
  BY <1>3 DEF NewDraft, Request, Actor, Status
<1>5. OnlyEditedSince(d, Len(d.audit))
  <2>. HIDE DEF e, d
  <2>1. \A j \in 0..(Len(d.audit) - 1) : j = 0
    BY <1>2, <1>3
  <2>2. At(d, 0) = e
    BY <1>2, <1>3 DEF At
  <2>. QED
    BY <1>1, <1>2, <2>1, <2>2 DEF OnlyEditedSince
<1>. HIDE DEF d, e
<1>6. TrailExplainsStatus(d)
  <2>1. e = entryBy("Draft created", d.ownerId)
    BY <1>2 DEF e, auditEntry, entryBy
  <2>2. Len(d.audit) > 0 /\ d.audit[1] = e
    BY <1>2, <1>3
  <2>. QED
    BY <1>2, <1>5, <2>1, <2>2 DEF TrailExplainsStatus, BegunByOwner
<1>7. ApprovalsFit(d)
  BY <1>2 DEF ApprovalsFit
<1>. QED
  BY <1>4, <1>6, <1>7 DEF GoodRecord, d

\* An edit by the owner, in an editable status, keeps a record good.
LEMMA EditGood ==
  ASSUME NEW r, GoodRecord(r), r.status \in EDITABLE,
         NEW actor \in Actor, actor.userId = r.ownerId,
         NEW action \in Edits,
         NEW q \in Request,
         q.status = r.status, q.ownerId = r.ownerId, q.returnedBy = r.returnedBy,
         q.approverId = r.approverId, q.requiredTier = r.requiredTier,
         q.approvals = r.approvals,
         q.audit = Append(r.audit, auditEntry(actor, action))
  PROVE  GoodRecord(q)
<1>. DEFINE e == auditEntry(actor, action)
<1>1. r \in Request /\ TrailExplainsStatus(r) /\ ApprovalsFit(r)
  BY DEF GoodRecord
<1>2. e \in AuditEntry /\ e.action = action /\ e.actorId = r.ownerId
  BY EntryTypes DEF Edits, AuditAction, auditEntry, AuditEntry
<1>. HIDE DEF e
<1>3. /\ Len(q.audit) = Len(r.audit) + 1 /\ Len(r.audit) \in Nat
      /\ At(q, 0) = e
      /\ \A k \in 0..(Len(r.audit) - 1) : At(q, k + 1) = At(r, k)
      /\ Len(r.audit) > 0 => q.audit[1] = r.audit[1] /\ Len(q.audit) > 0
  BY <1>1, <1>2, TrailAfterOne DEF e
<1>4. ASSUME NEW k \in 0..Len(r.audit), OnlyEditedSince(r, k)
      PROVE  OnlyEditedSince(q, k + 1)
  <2>. SUFFICES ASSUME NEW j \in 0..k
                PROVE  At(q, j).action \in Edits /\ At(q, j).actorId = q.ownerId
    BY DEF OnlyEditedSince
  <2>1. CASE j = 0
    BY <2>1, <1>2, <1>3
  <2>2. CASE j > 0
    <3>1. j - 1 \in 0..(k - 1) /\ j - 1 \in 0..(Len(r.audit) - 1) /\ (j - 1) + 1 = j
      BY <2>2, <1>3
    <3>2. At(q, j) = At(r, j - 1)
      BY <3>1, <1>3
    <3>. QED
      BY <3>1, <3>2, <1>4 DEF OnlyEditedSince
  <2>. QED
    BY <2>1, <2>2
<1>b. BegunByOwner(q)
  <2>1. BegunByOwner(r)
    BY <1>1 DEF TrailExplainsStatus
  <2>2. Len(r.audit) > 0
    BY <2>1 DEF BegunByOwner
  <2>. QED
    BY <1>3, <2>1, <2>2, StillBegun
<1>5. CASE r.status = "Draft"
  <2>1. OnlyEditedSince(q, Len(q.audit))
    BY <1>1, <1>3, <1>4, <1>5 DEF TrailExplainsStatus
  <2>. QED
    BY <1>b, <1>1, <1>5, <2>1 DEF GoodRecord, TrailExplainsStatus, ApprovalsFit
<1>6. CASE r.status = "Needs Revision"
  <2>1. PICK k \in 0..(Len(r.audit) - 1) :
          /\ At(r, k).action \in {"Returned", "Returned by Finance"}
          /\ At(r, k).actorId = r.returnedBy
          /\ OnlyEditedSince(r, k)
    BY <1>1, <1>6 DEF TrailExplainsStatus
  <2>2. /\ k + 1 \in 0..(Len(q.audit) - 1) /\ k \in 0..Len(r.audit)
        /\ At(q, k + 1) = At(r, k)
    BY <1>3
  <2>3. OnlyEditedSince(q, k + 1)
    BY <1>4, <2>1, <2>2
  <2>4. \E m \in 0..(Len(q.audit) - 1) :
          /\ At(q, m).action \in {"Returned", "Returned by Finance"}
          /\ At(q, m).actorId = q.returnedBy
          /\ OnlyEditedSince(q, m)
    BY <2>1, <2>2, <2>3
  <2>5. TrailExplainsStatus(q)
    BY <1>b, <1>6, <2>4 DEF TrailExplainsStatus
  <2>6. ApprovalsFit(q)
    BY <1>1, <1>6 DEF ApprovalsFit
  <2>. QED
    BY <2>5, <2>6 DEF GoodRecord
<1>. QED
  BY <1>5, <1>6 DEF EDITABLE

\* Two entries that record a submission end the trail with a submission.
LEMMA SubmissionEndsTrail ==
  ASSUME NEW r \in Request, BegunByOwner(r),
         NEW q, NEW e \in AuditEntry, NEW f \in AuditEntry,
         q.audit = r.audit \o <<e, f>>, q.ownerId = r.ownerId,
         e = entryBy("Submitted", q.ownerId), f = systemEntry("Routed", q.requiredTier),
         q.requiredTier # NoTier, q.content.amount <= tierLimit(q.requiredTier),
         q.requesterSigned, q.content.complete
  PROVE  q.audit \in Seq(AuditEntry) /\ BegunByOwner(q) /\ SubmissionAt(q, 0)
<1>1. Len(r.audit) > 0
  BY DEF BegunByOwner
<1>. DEFINE new == <<e, f>>
<1>a. new \in Seq(AuditEntry) /\ Len(new) = 2 /\ new[1] = e /\ new[2] = f
  OBVIOUS
<1>b. q.audit = r.audit \o new
  OBVIOUS
<1>. HIDE DEF new
<1>2. /\ q.audit \in Seq(AuditEntry)
      /\ Len(q.audit) = Len(r.audit) + 2 /\ Len(r.audit) \in Nat
      /\ At(q, 0) = f /\ At(q, 1) = e
      /\ Len(r.audit) > 0 => q.audit[1] = r.audit[1] /\ Len(q.audit) > 0
  BY <1>a, <1>b, TrailAfterTwo
<1>3. BegunByOwner(q)
  BY <1>1, <1>2, StillBegun
<1>4. Len(q.audit) >= 0 + 3 /\ 0 + 1 = 1
  BY <1>1, <1>2
<1>5. At(q, 0 + 1) = e
  BY <1>2, <1>4
<1>. QED
  BY <1>2, <1>3, <1>4, <1>5, Zenon DEF SubmissionAt

\* The owner's submission of a complete request is good.
LEMMA SubmittedGood ==
  ASSUME NEW r, GoodRecord(r), r.content.complete,
         NEW actor \in Actor, actor.userId = r.ownerId
  PROVE  GoodRecord(Submitted(r, actor))
<1>. DEFINE required == requiredAtSubmission(actor, r.content.amount)
            e == auditEntry(actor, "Submitted")
            f == systemEntry("Routed", required)
            q == Submitted(r, actor)
            asked == [gate |-> "Requester", name |-> actor.userId, status |-> "Signed"]
            waiting == [gate |-> required, name |-> NoUser, status |-> "Pending"]
<1>1. r \in Request /\ r.content \in Content /\ BegunByOwner(r)
  BY DEF GoodRecord, Request, TrailExplainsStatus
<1>2. required \in Tiers /\ r.content.amount <= tierLimit(required)
  BY <1>1, RequiredCovers DEF Content
<1>3. /\ e \in AuditEntry /\ f \in AuditEntry
      /\ e = entryBy("Submitted", r.ownerId)
  BY <1>2, EntryTypes DEF AuditAction
<1>4. asked \in Approval /\ waiting \in Approval
  BY <1>2 DEF Approval, ApprovalGate, ApprovalStatus, Actor
<1>5. /\ q.status = "Pending Supervisor Approval" /\ q.requesterSigned /\ q.requiredTier = required
      /\ q.ownerId = r.ownerId /\ q.content = r.content
      /\ q.approvals = <<asked, waiting>> /\ q.audit = r.audit \o <<e, f>>
  BY <1>1 DEF Submitted, Request
<1>6. required # NoTier
  BY <1>2, NoTierAssumption
<1>7. <<asked, waiting>> \in Seq(Approval)
  <2>. HIDE DEF asked, waiting
  <2>. QED  BY <1>4
<1>8. f = systemEntry("Routed", q.requiredTier)
  BY <1>5
<1>9. q.audit \in Seq(AuditEntry) /\ BegunByOwner(q) /\ SubmissionAt(q, 0)
  <2>. HIDE DEF q, e, f, required
  <2>. QED
    BY <1>1, <1>2, <1>3, <1>5, <1>6, <1>8, SubmissionEndsTrail
<1>10. q \in Request
  <2>1. r.audit \o <<e, f>> \in Seq(AuditEntry)
    BY <1>5, <1>9
  <2>. HIDE DEF e, f, asked, waiting, required
  <2>. QED
    BY <1>1, <1>2, <1>7, <2>1 DEF Submitted, Request, Status, e, f, asked, waiting, required
<1>. HIDE DEF q, e, f, required
<1>11. TrailExplainsStatus(q)
  BY <1>5, <1>9 DEF TrailExplainsStatus
<1>12. ApprovalsFit(q)
  BY <1>5 DEF ApprovalsFit
<1>. QED
  BY <1>10, <1>11, <1>12 DEF GoodRecord, q

\* A record whose trail still tells of the submission k entries back, at a
\* new distance m, is a record submitted m entries back.
LEMMA SameSubmission ==
  ASSUME NEW r, NEW q, NEW k, NEW m, SubmissionAt(r, k),
         q.ownerId = r.ownerId, q.requiredTier = r.requiredTier, q.content = r.content,
         q.requesterSigned = r.requesterSigned,
         At(q, m + 1) = At(r, k + 1), At(q, m) = At(r, k), Len(q.audit) >= m + 3
  PROVE  SubmissionAt(q, m)
BY Zenon DEF SubmissionAt

\* A signature told by two trails alike is a signature in both.
LEMMA SameSignature ==
  ASSUME NEW r, NEW q, NEW k, NEW m, SignatureAt(r, k),
         q.ownerId = r.ownerId, q.requiredTier = r.requiredTier,
         q.approverId = r.approverId, q.approverSigned = r.approverSigned,
         At(q, m + 1) = At(r, k + 1), At(q, m) = At(r, k)
  PROVE  SignatureAt(q, m)
BY Zenon DEF SignatureAt

\* Two entries that record a signature end the trail with a signature on the
\* submission before it.
LEMMA SignatureEndsTrail ==
  ASSUME NEW r \in Request, BegunByOwner(r), SubmissionAt(r, 0),
         NEW q, NEW e \in AuditEntry, NEW f \in AuditEntry,
         q.audit = r.audit \o <<e, f>>,
         q.ownerId = r.ownerId, q.requiredTier = r.requiredTier, q.content = r.content,
         q.requesterSigned = r.requesterSigned
  PROVE  /\ q.audit \in Seq(AuditEntry) /\ BegunByOwner(q)
         /\ SubmissionAt(q, 2) /\ At(q, 0) = f /\ At(q, 0 + 1) = e
<1>. DEFINE new == <<e, f>>
<1>1. new \in Seq(AuditEntry) /\ Len(new) = 2 /\ new[1] = e /\ new[2] = f
  OBVIOUS
<1>2. q.audit = r.audit \o new
  OBVIOUS
<1>. HIDE DEF new
<1>3. /\ q.audit \in Seq(AuditEntry)
      /\ Len(q.audit) = Len(r.audit) + 2 /\ Len(r.audit) \in Nat
      /\ At(q, 0) = f /\ At(q, 1) = e
      /\ \A k \in 0..(Len(r.audit) - 1) : At(q, k + 2) = At(r, k)
      /\ Len(r.audit) > 0 => q.audit[1] = r.audit[1] /\ Len(q.audit) > 0
  <2>1. /\ q.audit \in Seq(AuditEntry)
        /\ Len(q.audit) = Len(r.audit) + 2 /\ Len(r.audit) \in Nat
        /\ At(q, 0) = new[2] /\ At(q, 1) = new[1]
        /\ \A k \in 0..(Len(r.audit) - 1) : At(q, k + 2) = At(r, k)
        /\ Len(r.audit) > 0 => q.audit[1] = r.audit[1] /\ Len(q.audit) > 0
    BY <1>1, <1>2, TrailAfterTwo, Zenon
  <2>. QED
    BY <1>1, <2>1, Zenon
<1>4. Len(r.audit) >= 3
  <2>1. Len(r.audit) >= 0 + 3
    BY Zenon DEF SubmissionAt
  <2>. QED
    BY <1>3, <2>1
<1>5. /\ At(q, 2) = At(r, 0) /\ At(q, 2 + 1) = At(r, 0 + 1)
      /\ Len(q.audit) >= 2 + 3 /\ 0 + 1 = 1
  <2>1. /\ 0 \in 0..(Len(r.audit) - 1) /\ 1 \in 0..(Len(r.audit) - 1)
        /\ 0 + 2 = 2 /\ 1 + 2 = 2 + 1 /\ 0 + 1 = 1 /\ Len(q.audit) >= 2 + 3
    BY <1>3, <1>4
  <2>2. At(q, 0 + 2) = At(r, 0) /\ At(q, 1 + 2) = At(r, 1)
    BY <1>3, <2>1, Zenon
  <2>. QED
    BY <2>1, <2>2, Zenon
<1>6. SubmissionAt(q, 2)
  BY <1>5, SameSubmission
<1>7. BegunByOwner(q)
  BY <1>3, <1>4, StillBegun
<1>. QED
  BY <1>3, <1>5, <1>6, <1>7

\* Without a band nobody has the authority any tier asks for.
LEMMA SignerHasBand ==
  ASSUME NEW tier \in Tiers \cup {NoTier}, NEW required \in Tiers,
         tierLimit(tier) >= tierLimit(required)
  PROVE  tier \in Tiers
<1>1. tierLimit(required) \in Nat /\ tierLimit(required) > 0 /\ tierLimit(NoTier) = 0
  BY LimitTypes
<1>2. tier # NoTier
  BY <1>1
<1>. QED
  BY <1>2

\* The signature of somebody else with the authority for it is good.
LEMMA SignedGood ==
  ASSUME NEW r, GoodRecord(r), r.status = "Pending Supervisor Approval",
         NEW actor \in Actor, actor.userId # r.ownerId, MaySign(actor, r)
  PROVE  GoodRecord(Signed(r, actor))
<1>. DEFINE e == signatureEntry(actor)
            f == systemEntry("Sent to Finance", NoTier)
            q == Signed(r, actor)
            asked == [gate |-> "Requester", name |-> r.ownerId, status |-> "Signed"]
            waiting == [gate |-> r.requiredTier, name |-> NoUser, status |-> "Pending"]
            signed == [gate |-> r.requiredTier, name |-> actor.userId, status |-> "Signed"]
            finance == [gate |-> "Finance", name |-> NoUser, status |-> "Pending"]
<1>1. /\ r \in Request /\ BegunByOwner(r) /\ SubmissionAt(r, 0)
      /\ r.approvals = <<asked, waiting>>
  BY DEF GoodRecord, TrailExplainsStatus, ApprovalsFit
<1>2. r.requiredTier \in Tiers /\ actor.tier \in Tiers \cup {NoTier} /\ actor.userId \in Users
  BY <1>1 DEF SubmissionAt, Request, Actor
<1>3. /\ tierLimit(actor.tier) >= tierLimit(r.requiredTier)
      /\ actor.tier \in Tiers /\ actor.tier # NoTier
  <2>1. requiredAuthority(r) = r.requiredTier
    BY <1>2, NoTierAssumption DEF requiredAuthority
  <2>2. tierLimit(actor.tier) >= tierLimit(r.requiredTier)
    BY <2>1 DEF MaySign
  <2>3. actor.tier \in Tiers
    BY <1>2, <2>2, SignerHasBand
  <2>. QED
    BY <2>2, <2>3, NoTierAssumption
<1>4. /\ e \in AuditEntry /\ f \in AuditEntry
      /\ e.action = "Approved" /\ e.actorId = actor.userId /\ e.tier = actor.tier
  <2>1. f \in AuditEntry
    BY EntryTypes DEF AuditAction
  <2>2. e = [action |-> "Approved", actorId |-> actor.userId, tier |-> actor.tier]
    BY <1>3 DEF signatureEntry
  <2>. HIDE DEF e, f
  <2>3. e.action = "Approved" /\ e.actorId = actor.userId /\ e.tier = actor.tier
    BY <2>2
  <2>4. e \in AuditEntry
    BY <1>2, <2>2 DEF AuditEntry, AuditAction
  <2>. QED
    BY <2>1, <2>3, <2>4
<1>. HIDE DEF e
<1>a. q = [r EXCEPT !.status = "Pending Finance Review", !.approverSigned = TRUE,
                    !.approverId = actor.userId,
                    !.approvals = Append(signLast(r.approvals, actor, "Signed"), finance),
                    !.audit = r.audit \o <<e, f>>]
  BY <1>1 DEF Signed, Request, e
<1>5. /\ q.status = "Pending Finance Review" /\ q.approverSigned /\ q.approverId = actor.userId
      /\ q.ownerId = r.ownerId /\ q.content = r.content /\ q.requiredTier = r.requiredTier
      /\ q.requesterSigned = r.requesterSigned
      /\ q.approvals = Append(signLast(r.approvals, actor, "Signed"), finance)
      /\ q.audit = r.audit \o <<e, f>>
  <2>. HIDE DEF q, e, f, finance
  <2>. QED
    BY <1>1, <1>a DEF Request
<1>6. /\ asked \in Approval /\ waiting \in Approval /\ finance \in Approval
      /\ r.ownerId \in Users
  BY <1>1, <1>2 DEF Approval, ApprovalGate, ApprovalStatus, Request
<1>7. q.approvals = <<asked, signed, finance>> /\ q.approvals \in Seq(Approval)
  <2>1. /\ signLast(<<asked, waiting>>, actor, "Signed") = <<asked, signed>>
        /\ signed \in Approval
    BY <1>6, SignLastOfTwo DEF ApprovalStatus
  <2>2. q.approvals = Append(<<asked, signed>>, finance)
    BY <1>1, <1>5, <2>1
  <2>. HIDE DEF asked, signed, finance, q
  <2>. QED
    <3>1. /\ Append(<<asked, signed>>, finance) = <<asked, signed, finance>>
          /\ <<asked, signed, finance>> \in Seq(Approval)
      BY <1>6, <2>1, ThirdGate
    <3>. QED
      BY <2>2, <3>1
<1>. HIDE DEF f
<1>8. /\ q.audit \in Seq(AuditEntry) /\ BegunByOwner(q)
      /\ SubmissionAt(q, 2) /\ At(q, 0) = f /\ At(q, 0 + 1) = e
  <2>. HIDE DEF q, asked, waiting, signed, finance
  <2>. QED
    BY <1>1, <1>4, <1>5, SignatureEndsTrail, Zenon
<1>9. SignatureAt(q, 0)
  <2>. HIDE DEF q, asked, waiting, signed, finance
  <2>. QED
    BY <1>2, <1>3, <1>4, <1>5, <1>8, Zenon DEF SignatureAt, f
<1>10. q \in Request
  <2>. HIDE DEF asked, waiting, signed, finance
  <2>1. /\ Append(signLast(r.approvals, actor, "Signed"), finance) \in Seq(Approval)
        /\ r.audit \o <<e, f>> \in Seq(AuditEntry)
    BY <1>5, <1>7, <1>8
  <2>. HIDE DEF q
  <2>. QED
    BY <1>1, <1>2, <1>a, <2>1 DEF Request, Status
<1>11. TrailExplainsStatus(q)
  <2>. HIDE DEF q
  <2>. QED  BY <1>5, <1>8, <1>9 DEF TrailExplainsStatus
<1>12. ApprovalsFit(q)
  BY <1>5, <1>7 DEF ApprovalsFit
<1>. QED
  BY <1>10, <1>11, <1>12 DEF GoodRecord

\* One more entry moves the submission and the signature one place back.
LEMMA SignedTrailAfterOne ==
  ASSUME NEW r \in Request, BegunByOwner(r), SubmissionAt(r, 2), SignatureAt(r, 0),
         NEW q, NEW e \in AuditEntry, q.audit = Append(r.audit, e),
         q.ownerId = r.ownerId, q.requiredTier = r.requiredTier, q.content = r.content,
         q.requesterSigned = r.requesterSigned,
         q.approverId = r.approverId, q.approverSigned = r.approverSigned
  PROVE  /\ q.audit \in Seq(AuditEntry) /\ BegunByOwner(q)
         /\ SubmissionAt(q, 3) /\ SignatureAt(q, 1) /\ At(q, 0) = e
<1>1. /\ q.audit \in Seq(AuditEntry)
      /\ Len(q.audit) = Len(r.audit) + 1 /\ Len(r.audit) \in Nat
      /\ At(q, 0) = e
      /\ \A k \in 0..(Len(r.audit) - 1) : At(q, k + 1) = At(r, k)
      /\ Len(r.audit) > 0 => q.audit[1] = r.audit[1] /\ Len(q.audit) > 0
  BY TrailAfterOne, ZenonT(60)
<1>2. Len(r.audit) >= 2 + 3
  BY Zenon DEF SubmissionAt
<1>3. /\ At(q, 3) = At(r, 2) /\ At(q, 3 + 1) = At(r, 2 + 1)
      /\ At(q, 1) = At(r, 0) /\ At(q, 1 + 1) = At(r, 0 + 1)
      /\ Len(q.audit) >= 3 + 3
  <2>1. /\ \A k \in {0, 1, 2, 3} : k \in 0..(Len(r.audit) - 1)
        /\ 0 + 1 = 1 /\ 1 + 1 = 2 /\ 2 + 1 = 3 /\ 3 + 1 = 4 /\ Len(q.audit) >= 3 + 3
    BY <1>1, <1>2
  <2>2. At(q, 0 + 1) = At(r, 0) /\ At(q, 1 + 1) = At(r, 1) /\ At(q, 2 + 1) = At(r, 2) /\ At(q, 3 + 1) = At(r, 3)
    BY <1>1, <2>1, Zenon
  <2>. QED
    BY <2>1, <2>2, Zenon
<1>4. SubmissionAt(q, 3)
  BY <1>3, SameSubmission
<1>5. SignatureAt(q, 1)
  BY <1>3, SameSignature
<1>6. BegunByOwner(q)
  <2>1. Len(r.audit) > 0
    BY <1>1, <1>2
  <2>. QED
    BY <1>1, <2>1, StillBegun
<1>. QED
  BY <1>1, <1>4, <1>5, <1>6, ZenonT(60)

\* Finance's clearance of a request at gate 2 is good.
LEMMA ClearedGood ==
  ASSUME NEW r, GoodRecord(r), r.status = "Pending Finance Review", NEW actor \in Actor
  PROVE  GoodRecord(Cleared(r, actor))
<1>. DEFINE e == auditEntry(actor, "Cleared")
            q == Cleared(r, actor)
            asked == [gate |-> "Requester", name |-> r.ownerId, status |-> "Signed"]
            signed == [gate |-> r.requiredTier, name |-> r.approverId, status |-> "Signed"]
            waiting == [gate |-> "Finance", name |-> NoUser, status |-> "Pending"]
            cleared == [gate |-> "Finance", name |-> actor.userId, status |-> "Cleared for payment"]
<1>1. /\ r \in Request /\ BegunByOwner(r) /\ SubmissionAt(r, 2) /\ SignatureAt(r, 0)
      /\ r.approvals = <<asked, signed, waiting>>
  BY DEF GoodRecord, TrailExplainsStatus, ApprovalsFit
<1>2. /\ r.requiredTier \in Tiers /\ r.approverId \in Users /\ r.ownerId \in Users
      /\ actor.userId \in Users
  BY <1>1 DEF SubmissionAt, SignatureAt, Request, Actor
<1>3. e \in AuditEntry /\ e = entryBy("Cleared", actor.userId)
  BY EntryTypes DEF AuditAction
<1>. HIDE DEF e
<1>4. q = [r EXCEPT !.status = "Approved", !.financeSigned = TRUE, !.financeId = actor.userId,
                    !.approvals = signLast(r.approvals, actor, "Cleared for payment"),
                    !.audit = Append(r.audit, e)]
  BY <1>1 DEF Cleared, Request, e
<1>5. /\ q.status = "Approved" /\ q.financeSigned /\ q.financeId = actor.userId
      /\ q.ownerId = r.ownerId /\ q.content = r.content /\ q.requiredTier = r.requiredTier
      /\ q.requesterSigned = r.requesterSigned
      /\ q.approverId = r.approverId /\ q.approverSigned = r.approverSigned
      /\ q.approvals = signLast(r.approvals, actor, "Cleared for payment")
      /\ q.audit = Append(r.audit, e)
  <2>. HIDE DEF q
  <2>. QED
    BY <1>1, <1>4 DEF Request
<1>6. asked \in Approval /\ signed \in Approval /\ waiting \in Approval
  BY <1>2 DEF Approval, ApprovalGate, ApprovalStatus
<1>7. q.approvals = <<asked, signed, cleared>> /\ q.approvals \in Seq(Approval)
  <2>1. /\ signLast(<<asked, signed, waiting>>, actor, "Cleared for payment") = <<asked, signed, cleared>>
        /\ <<asked, signed, cleared>> \in Seq(Approval)
    <3>1. "Cleared for payment" \in ApprovalStatus
      BY DEF ApprovalStatus
    <3>2. cleared = [gate |-> waiting.gate, name |-> actor.userId, status |-> "Cleared for payment"]
      OBVIOUS
    <3>. HIDE DEF asked, signed, waiting, cleared
    <3>. QED
      BY <1>6, <3>1, <3>2, SignLastOfThree, ZenonT(60)
  <2>. HIDE DEF asked, signed, waiting, cleared, q
  <2>. QED
    BY <1>1, <1>5, <2>1
<1>8. /\ q.audit \in Seq(AuditEntry) /\ BegunByOwner(q)
      /\ SubmissionAt(q, 3) /\ SignatureAt(q, 1) /\ At(q, 0) = e
  <2>. HIDE DEF q, asked, waiting, signed, cleared
  <2>. QED
    BY <1>1, <1>3, <1>5, SignedTrailAfterOne, ZenonT(60)
<1>9. q \in Request
  <2>1. /\ signLast(r.approvals, actor, "Cleared for payment") \in Seq(Approval)
        /\ Append(r.audit, e) \in Seq(AuditEntry)
    BY <1>5, <1>7, <1>8
  <2>. HIDE DEF asked, waiting, signed, cleared, q
  <2>. QED
    BY <1>1, <1>2, <1>4, <2>1 DEF Request, Status
<1>10. TrailExplainsStatus(q)
  <2>. HIDE DEF q
  <2>. QED  BY <1>3, <1>5, <1>8 DEF TrailExplainsStatus
<1>11. ApprovalsFit(q)
  BY <1>5, <1>7 DEF ApprovalsFit
<1>. QED
  BY <1>9, <1>10, <1>11 DEF GoodRecord

\* The newest entry is the last one, and nothing has happened since.
LEMMA NewestEntry ==
  ASSUME NEW r \in Request, NEW q, NEW e \in AuditEntry, q.audit = Append(r.audit, e)
  PROVE  /\ 0 \in 0..(Len(q.audit) - 1) /\ At(q, 0) = e
         /\ OnlyEditedSince(q, 0)
<1>1. Len(q.audit) = Len(r.audit) + 1 /\ Len(r.audit) \in Nat /\ At(q, 0) = e
  BY TrailAfterOne, ZenonT(60)
<1>. QED
  BY <1>1 DEF OnlyEditedSince

\* Sending a request back, from either gate, is good.
LEMMA ReturnedGood ==
  ASSUME NEW r, GoodRecord(r),
         r.status \in {"Pending Supervisor Approval", "Pending Finance Review"},
         NEW actor \in Actor, NEW action \in {"Returned", "Returned by Finance"}
  PROVE  GoodRecord(returnToRequester(r, actor, action))
<1>. DEFINE e == auditEntry(actor, action)
            q == returnToRequester(r, actor, action)
            asked == [gate |-> "Requester", name |-> r.ownerId, status |-> "Signed"]
            waiting1 == [gate |-> r.requiredTier, name |-> NoUser, status |-> "Pending"]
            returned1 == [gate |-> r.requiredTier, name |-> actor.userId, status |-> "Returned"]
            signed == [gate |-> r.requiredTier, name |-> r.approverId, status |-> "Signed"]
            waiting2 == [gate |-> "Finance", name |-> NoUser, status |-> "Pending"]
            returned2 == [gate |-> "Finance", name |-> actor.userId, status |-> "Returned"]
<1>1. r \in Request /\ BegunByOwner(r)
  BY DEF GoodRecord, TrailExplainsStatus
<1>2. r.requiredTier \in Tiers
  BY <1>1 DEF GoodRecord, TrailExplainsStatus, SubmissionAt, Request
<1>3. r.approverId \in Users \cup {NoUser} /\ r.ownerId \in Users /\ actor.userId \in Users
  BY <1>1 DEF Request, Actor
<1>4. e \in AuditEntry /\ e.action = action /\ e.actorId = actor.userId
  <2>1. action \in AuditAction
    BY DEF AuditAction
  <2>. QED
    BY <2>1, EntryTypes DEF auditEntry
<1>. HIDE DEF e
<1>5. q = [r EXCEPT !.status = "Needs Revision", !.returnedBy = actor.userId,
                    !.approvals = signLast(r.approvals, actor, "Returned"),
                    !.audit = Append(r.audit, e)]
  BY <1>1 DEF returnToRequester, Request, e
<1>6. /\ q.status = "Needs Revision" /\ q.returnedBy = actor.userId
      /\ q.ownerId = r.ownerId /\ q.requiredTier = r.requiredTier /\ q.approverId = r.approverId
      /\ q.approvals = signLast(r.approvals, actor, "Returned")
      /\ q.audit = Append(r.audit, e)
  <2>. HIDE DEF q
  <2>. QED
    BY <1>1, <1>5 DEF Request
<1>7. /\ asked \in Approval /\ waiting1 \in Approval /\ signed \in Approval
      /\ waiting2 \in Approval
  BY <1>2, <1>3 DEF Approval, ApprovalGate, ApprovalStatus
<1>8. "Returned" \in ApprovalStatus
  BY DEF ApprovalStatus
<1>9. /\ q.approvals \in Seq(Approval)
      /\ q.approvals = <<asked, returned1>> \/ q.approvals = <<asked, signed, returned2>>
  <2>1. CASE r.status = "Pending Supervisor Approval"
    <3>1. r.approvals = <<asked, waiting1>>
      BY <2>1 DEF GoodRecord, ApprovalsFit
    <3>2. returned1 = [gate |-> waiting1.gate, name |-> actor.userId, status |-> "Returned"]
      OBVIOUS
    <3>. HIDE DEF asked, waiting1, returned1, q
    <3>3. /\ signLast(<<asked, waiting1>>, actor, "Returned") = <<asked, returned1>>
          /\ <<asked, returned1>> \in Seq(Approval)
      BY <1>7, <1>8, <3>2, SignLastOfTwo, ZenonT(60)
    <3>. QED
      BY <1>6, <3>1, <3>3, ZenonT(60)
  <2>2. CASE r.status = "Pending Finance Review"
    <3>1. r.approvals = <<asked, signed, waiting2>>
      BY <2>2 DEF GoodRecord, ApprovalsFit
    <3>2. returned2 = [gate |-> waiting2.gate, name |-> actor.userId, status |-> "Returned"]
      OBVIOUS
    <3>. HIDE DEF asked, signed, waiting1, returned1, waiting2, returned2, q
    <3>3. /\ signLast(<<asked, signed, waiting2>>, actor, "Returned") = <<asked, signed, returned2>>
          /\ <<asked, signed, returned2>> \in Seq(Approval)
      BY <1>7, <1>8, <3>2, SignLastOfThree, ZenonT(60)
    <3>. QED
      BY <1>6, <3>1, <3>3, ZenonT(60)
  <2>. QED
    BY <2>1, <2>2
<1>10. /\ q.audit \in Seq(AuditEntry) /\ BegunByOwner(q)
       /\ Len(q.audit) = Len(r.audit) + 1 /\ Len(r.audit) \in Nat /\ At(q, 0) = e
  <2>. HIDE DEF q
  <2>1. /\ q.audit \in Seq(AuditEntry)
        /\ Len(q.audit) = Len(r.audit) + 1 /\ Len(r.audit) \in Nat
        /\ At(q, 0) = e
        /\ Len(r.audit) > 0 => q.audit[1] = r.audit[1] /\ Len(q.audit) > 0
    BY <1>1, <1>4, <1>6, TrailAfterOne, ZenonT(60)
  <2>2. Len(r.audit) > 0
    BY <1>1 DEF BegunByOwner
  <2>. QED
    BY <1>1, <1>6, <2>1, <2>2, StillBegun, ZenonT(60)
<1>11. q \in Request
  <2>1. /\ signLast(r.approvals, actor, "Returned") \in Seq(Approval)
        /\ Append(r.audit, e) \in Seq(AuditEntry)
    BY <1>6, <1>9, <1>10
  <2>. HIDE DEF q
  <2>. QED
    BY <1>1, <1>3, <1>5, <2>1 DEF Request, Status
<1>12. TrailExplainsStatus(q)
  <2>. HIDE DEF q
  <2>1. 0 \in 0..(Len(q.audit) - 1) /\ OnlyEditedSince(q, 0)
    BY <1>1, <1>4, <1>6, NewestEntry, ZenonT(60)
  <2>3. /\ At(q, 0).action \in {"Returned", "Returned by Finance"}
        /\ At(q, 0).actorId = q.returnedBy
    BY <1>4, <1>6, <1>10
  <2>. QED
    BY <1>6, <1>10, <2>1, <2>3 DEF TrailExplainsStatus
<1>13. ApprovalsFit(q)
  BY <1>6, <1>9 DEF ApprovalsFit
<1>. QED
  BY <1>11, <1>12, <1>13 DEF GoodRecord

-----------------------------------------------------------------------------
(* Notices.                                                                *)

\* The elements of a finite set, in some order, make a sequence over it.
LEMMA SetToSeqType ==
  ASSUME NEW T, NEW S \in SUBSET T, IsFiniteSet(S)
  PROVE  SetToSeq(S) \in Seq(T)
<1>. DEFINE n == Cardinality(S)
<1>1. n \in Nat /\ ExistsBijection(1..n, S)
  BY FS_CardinalityType
<1>2. \E f \in [1..n -> S] : IsInjective(f)
  BY <1>1 DEF ExistsBijection, Bijection, Injection
<1>3. SetToSeq(S) \in [1..n -> S]
  BY <1>2 DEF SetToSeq
<1>. HIDE DEF n
<1>4. SetToSeq(S) \in [1..n -> T]
  BY <1>3
<1>. QED
  BY <1>1, <1>4

\* What notice makes for a user is a notice.
LEMMA NoticeShape ==
  ASSUME NEW kind \in {"submitted", "approved", "returned"}, NEW id \in Nat
  PROVE  \A u \in Users : notice(kind, id, u) \in Notice
BY DEF notice, Notice

\* However many are told, the notices are finitely many, and of whatever set
\* one notice to each user is in.
LEMMA NoticesToType ==
  ASSUME NEW kind, NEW id, NEW T, \A u \in Users : notice(kind, id, u) \in T,
         NEW recipients \in SUBSET Users
  PROVE  noticesTo(kind, id, recipients) \in Seq(T)
<1>. DEFINE N == {notice(kind, id, u) : u \in recipients}
            f == [u \in recipients |-> notice(kind, id, u)]
<1>1. IsFiniteSet(recipients)
  BY StoreAssumption, FS_Subset
<1>2. f \in Surjection(recipients, N)
  <2>1. f \in [recipients -> N]
    OBVIOUS
  <2>2. \A t \in N : \E u \in recipients : f[u] = t
    OBVIOUS
  <2>. QED
    BY <2>1, <2>2 DEF Surjection
<1>3. IsFiniteSet(N)
  <2>. HIDE DEF f, N
  <2>. QED  BY <1>1, <1>2, FS_Surjection
<1>4. N \in SUBSET T
  OBVIOUS
<1>. HIDE DEF N
<1>5. SetToSeq(N) \in Seq(T)
  BY <1>3, <1>4, SetToSeqType
<1>. QED
  BY <1>5 DEF noticesTo, N

\* So are the owner's notice and, if there is one, the copied colleague's.
LEMMA OutcomeNoticesType ==
  ASSUME NEW kind, NEW id, NEW T, \A u \in Users : notice(kind, id, u) \in T, NEW r \in Request
  PROVE  outcomeNotices(kind, id, r) \in Seq(T)
<1>1. r.ownerId \in Users /\ r.content.copy \in Users \cup {NoUser}
  BY DEF Request, Content
<1>2. notice(kind, id, r.ownerId) \in T
  BY <1>1
<1>3. CASE r.content.copy = NoUser
  BY <1>2, <1>3 DEF outcomeNotices
<1>4. CASE r.content.copy # NoUser
  <2>1. notice(kind, id, r.content.copy) \in T
    BY <1>1, <1>4
  <2>. QED
    BY <1>2, <1>4, <2>1 DEF outcomeNotices
<1>. QED
  BY <1>3, <1>4

\* Whatever is added, and whatever is cut, what is kept is of the same kind.
LEMMA NotificationType ==
  ASSUME NEW T, NEW new \in Seq(T), notifications \in Seq(T), notification(new)
  PROVE  notifications' \in Seq(T)
<1>. DEFINE all == notifications \o new
            cut == Len(all) - MaxNotifications
<1>1. all \in Seq(T)
  BY ConcatProperties, Zenon
<1>2. notifications' = IF cut > 0 THEN SubSeq(all, cut + 1, Len(all)) ELSE all
  BY DEF notification
<1>. HIDE DEF all
<1>3. CASE cut > 0
  <2>1. Len(all) \in Nat /\ cut + 1 \in Nat /\ cut + 1 >= 1
    BY <1>1, <1>3, StoreAssumption
  <2>2. \A i \in (cut + 1)..Len(all) : all[i] \in T
    BY <1>1, <2>1
  <2>. HIDE DEF cut
  <2>3. SubSeq(all, cut + 1, Len(all)) \in Seq(T)
    BY <1>1, <2>1, <2>2, SubSeqProperties
  <2>. QED
    BY <1>2, <1>3, <2>3
<1>4. CASE ~(cut > 0)
  BY <1>1, <1>2, <1>4
<1>. QED
  BY <1>3, <1>4

-----------------------------------------------------------------------------
(* The inductive invariant.  That a signed request carries its signer's    *)
(* authority is not inductive on its own: it needs the shape of the record, *)
(* the trail that led to gate 1, and the approvals list, so all three are   *)
(* carried together, for every record of the store.                        *)

RecordsGood ==
  /\ DOMAIN requests \subseteq 1..MaxPrf
  /\ requests \in [DOMAIN requests -> Request]
  /\ \A id \in DOMAIN requests : GoodRecord(requests[id])

StoreInv ==
  /\ users \in [Users -> Account]
  /\ sessions \subseteq Actor
  /\ notifications \in Seq(Notice)
  /\ accountLog \in Seq(LogEntry)
  /\ RecordsGood

\* The inductive invariant is strong enough for the three that the runs check.
LEMMA StoreInvImplies ==
  StoreInv => TypeOK /\ TrailIsTrue /\ ApprovalsAgree
BY DEF StoreInv, RecordsGood, GoodRecord, TypeOK, TrailIsTrue, ApprovalsAgree

\* The seeded store satisfies the inductive invariant.
LEMMA InitGood == Init => StoreInv
<1>. SUFFICES ASSUME Init  PROVE StoreInv
  OBVIOUS
<1>1. requests = <<>> /\ DOMAIN requests = {}
  BY DEF Init
<1>2. RecordsGood
  BY <1>1 DEF RecordsGood
<1>. QED
  BY <1>2, StoreAssumption DEF Init, StoreInv

\* Writing one good record back leaves the store good.
LEMMA PutGood ==
  ASSUME RecordsGood, NEW id \in DOMAIN requests, NEW q, GoodRecord(q), Put(id, q)
  PROVE  RecordsGood'
<1>1. requests' = [requests EXCEPT ![id] = q]
  BY DEF Put
<1>2. DOMAIN requests' = DOMAIN requests
  BY <1>1
<1>3. \A other \in DOMAIN requests : requests'[other] = IF other = id THEN q ELSE requests[other]
  BY <1>1
<1>4. \A other \in DOMAIN requests' : GoodRecord(requests'[other])
  BY <1>2, <1>3 DEF RecordsGood
<1>5. requests' \in [DOMAIN requests' -> Request]
  <2>1. \A other \in DOMAIN requests' : requests'[other] \in Request
    BY <1>4 DEF GoodRecord
  <2>2. requests' = [other \in DOMAIN requests' |-> requests'[other]]
    BY <1>1, <1>2
  <2>. QED
    BY <2>1, <2>2
<1>. QED
  BY <1>2, <1>4, <1>5 DEF RecordsGood, GoodRecord

\* An edit that passes the checks of Edit is an edit of EditGood.
LEMMA EditStep ==
  ASSUME StoreInv, NEW actor \in Actor, NEW id \in DOMAIN requests, NEW action \in Edits,
         NEW edited \in Request, Edit(actor, id, action, edited),
         edited.status = requests[id].status, edited.ownerId = requests[id].ownerId,
         edited.returnedBy = requests[id].returnedBy,
         edited.approverId = requests[id].approverId,
         edited.requiredTier = requests[id].requiredTier,
         edited.approvals = requests[id].approvals, edited.audit = requests[id].audit
  PROVE  StoreInv'
<1>. DEFINE r == requests[id]
            e == auditEntry(actor, action)
            q == [edited EXCEPT !.audit = Append(@, e)]
<1>1. actor \in Actor /\ GoodRecord(r) /\ r \in Request /\ RecordsGood
  BY DEF StoreInv, RecordsGood
<1>2. actor.userId = r.ownerId /\ r.status \in EDITABLE /\ Put(id, q)
  BY DEF Edit
<1>3. e \in AuditEntry
  BY <1>1, EntryTypes DEF Edits, AuditAction
<1>. HIDE DEF e
<1>4. /\ q.status = r.status /\ q.ownerId = r.ownerId /\ q.returnedBy = r.returnedBy
      /\ q.approverId = r.approverId /\ q.requiredTier = r.requiredTier
      /\ q.approvals = r.approvals /\ q.audit = Append(r.audit, e)
  BY DEF Request
<1>5. q \in Request
  <2>1. Append(edited.audit, e) \in Seq(AuditEntry)
    BY <1>3 DEF Request
  <2>. QED
    BY <2>1 DEF Request
<1>. HIDE DEF q, r
<1>6. GoodRecord(q)
  BY <1>1, <1>2, <1>4, <1>5, EditGood, Zenon DEF e
<1>7. RecordsGood'
  BY <1>1, <1>2, <1>6, PutGood, Zenon
<1>. QED
  BY <1>7 DEF StoreInv, Edit

\* Accounts, sessions and the bell: no record is touched.
LEMMA AccountStepGood == StoreInv /\ AccountStep => StoreInv'
<1>. SUFFICES ASSUME StoreInv, AccountStep  PROVE StoreInv'
  OBVIOUS
<1>1. ASSUME NEW u \in Users, SignIn(u)  PROVE StoreInv'
  <2>1. [userId |-> u, role |-> users[u].role, tier |-> users[u].tier] \in Actor
    BY DEF StoreInv, Account, Actor
  <2>2. sessions' \subseteq Actor
    BY <1>1, <2>1 DEF SignIn, StoreInv
  <2>. QED
    BY <1>1, <2>2 DEF SignIn, StoreInv, RecordsGood
<1>2. ASSUME NEW actor \in sessions, EndSession(actor)  PROVE StoreInv'
  BY <1>2 DEF EndSession, StoreInv, RecordsGood
<1>3. ASSUME NEW actor \in sessions, markNotificationsRead(actor)  PROVE StoreInv'
  <2>1. \A i \in 1..Len(notifications) :
          (IF notifications[i].to = actor.userId
           THEN [notifications[i] EXCEPT !.read = TRUE] ELSE notifications[i]) \in Notice
    <3>1. \A n \in Notice : [n EXCEPT !.read = TRUE] \in Notice
      BY DEF Notice
    <3>2. \A i \in 1..Len(notifications) : notifications[i] \in Notice
      BY DEF StoreInv
    <3>. QED
      BY <3>1, <3>2
  <2>2. notifications' \in [1..Len(notifications) -> Notice] /\ Len(notifications) \in Nat
    BY <1>3, <2>1 DEF markNotificationsRead, StoreInv
  <2>3. notifications' \in Seq(Notice)
    BY <2>2
  <2>. QED
    BY <1>3, <2>3 DEF markNotificationsRead, StoreInv, RecordsGood
<1>4. ASSUME NEW actor \in sessions, NEW u \in Users, NEW role \in Roles, assignRole(actor, u, role)
      PROVE  StoreInv'
  <2>1. users' \in [Users -> Account]
    BY <1>4 DEF assignRole, StoreInv, Account
  <2>. DEFINE entry == [actorId |-> actor.userId, subjectId |-> u,
                        from |-> users[u].role, to |-> role]
  <2>2. entry \in LogEntry
    BY DEF StoreInv, Actor, Account, LogEntry
  <2>a. accountLog' = accountLog \/ accountLog' = Append(accountLog, entry)
    BY <1>4 DEF assignRole
  <2>3. accountLog' \in Seq(LogEntry)
    <3>. HIDE DEF entry
    <3>. QED  BY <2>2, <2>a DEF StoreInv
  <2>. QED
    BY <1>4, <2>1, <2>3 DEF assignRole, StoreInv, RecordsGood
<1>5. CASE Restart
  <2>1. \A u \in Users :
          (IF isApprover(users[u].role) /\ users[u].tier = NoTier
           THEN [users[u] EXCEPT !.tier = "DIRECTOR"] ELSE users[u]) \in Account
    BY DEF StoreInv, Account, Tiers
  <2>2. users' \in [Users -> Account]
    BY <1>5, <2>1 DEF Restart
  <2>. QED
    BY <1>5, <2>2 DEF Restart, StoreInv, RecordsGood
<1>. QED
  BY <1>1, <1>2, <1>3, <1>4, <1>5 DEF AccountStep

\* createDraft adds one good record and leaves the others alone.
LEMMA CreateStep ==
  ASSUME StoreInv, NEW actor \in Actor, NEW content \in Contents, createDraft(actor, content)
  PROVE  StoreInv'
<1>. DEFINE d == NewDraft(actor, content)
<1>1. actor \in Actor /\ content \in Content
  BY StoreAssumption DEF StoreInv
<1>2. GoodRecord(d) /\ d \in Request
  BY <1>1, NewDraftGood DEF GoodRecord
<1>. HIDE DEF d
<1>3. PICK id \in 1..MaxPrf :
        requests' = [other \in DOMAIN requests \cup {id} |->
                       IF other = id THEN d ELSE requests[other]]
  BY DEF createDraft, d
<1>4. RecordsGood'
  <2>1. DOMAIN requests' = DOMAIN requests \cup {id}
    BY <1>3
  <2>2. \A other \in DOMAIN requests' : requests'[other] \in Request /\ GoodRecord(requests'[other])
    BY <1>2, <1>3 DEF StoreInv, RecordsGood
  <2>3. requests' \in [DOMAIN requests' -> Request]
    BY <1>3, <2>1, <2>2
  <2>. QED
    BY <2>1, <2>2, <2>3 DEF StoreInv, RecordsGood
<1>. QED
  BY <1>4 DEF StoreInv, createDraft

\* deleteDraft leaves the other records as they are.
LEMMA DeleteStep ==
  ASSUME StoreInv, NEW actor \in Actor, NEW id \in DOMAIN requests, deleteDraft(actor, id)
  PROVE  StoreInv'
<1>1. requests' = [other \in DOMAIN requests \ {id} |-> requests[other]]
  BY DEF deleteDraft
<1>2. RecordsGood'
  <2>1. DOMAIN requests' = DOMAIN requests \ {id}
    BY <1>1
  <2>2. \A other \in DOMAIN requests' : requests'[other] \in Request /\ GoodRecord(requests'[other])
    BY <1>1 DEF StoreInv, RecordsGood
  <2>3. requests' \in [DOMAIN requests' -> Request]
    BY <1>1, <2>1, <2>2
  <2>. QED
    BY <2>1, <2>2, <2>3 DEF StoreInv, RecordsGood
<1>. QED
  BY <1>2 DEF StoreInv, deleteDraft

\* What a record looks like when the content or the files change.
LEMMA EditSteps ==
  ASSUME StoreInv, NEW actor \in Actor, NEW id \in DOMAIN requests,
         \/ \E content \in Contents : updateDraft(actor, id, content)
         \/ \E file \in Files : attachToRequest(actor, id, file) \/ detachFromRequest(actor, id, file)
  PROVE  StoreInv'
<1>1. requests[id] \in Request
  BY DEF StoreInv, RecordsGood
<1>2. ASSUME NEW content \in Contents, updateDraft(actor, id, content)  PROVE StoreInv'
  <2>. DEFINE q == [requests[id] EXCEPT !.content = content]
  <2>1. q \in Request
    BY <1>1, StoreAssumption DEF Request
  <2>2. /\ q.status = requests[id].status /\ q.ownerId = requests[id].ownerId
        /\ q.returnedBy = requests[id].returnedBy /\ q.approverId = requests[id].approverId
        /\ q.requiredTier = requests[id].requiredTier
        /\ q.approvals = requests[id].approvals /\ q.audit = requests[id].audit
    BY <1>1 DEF Request
  <2>3. Edit(actor, id, "Draft saved", q) /\ "Draft saved" \in Edits
    BY <1>2 DEF updateDraft, Edits
  <2>. HIDE DEF q
  <2>. QED
    BY <2>1, <2>2, <2>3, EditStep, Zenon
<1>3. ASSUME NEW file \in Files, attachToRequest(actor, id, file)  PROVE StoreInv'
  <2>. DEFINE q == [requests[id] EXCEPT !.attachments = @ \cup {file}]
  <2>1. q \in Request
    BY <1>1 DEF Request
  <2>2. /\ q.status = requests[id].status /\ q.ownerId = requests[id].ownerId
        /\ q.returnedBy = requests[id].returnedBy /\ q.approverId = requests[id].approverId
        /\ q.requiredTier = requests[id].requiredTier
        /\ q.approvals = requests[id].approvals /\ q.audit = requests[id].audit
    BY <1>1 DEF Request
  <2>3. Edit(actor, id, "Attached", q) /\ "Attached" \in Edits
    BY <1>3 DEF attachToRequest, Edits
  <2>. HIDE DEF q
  <2>. QED
    BY <2>1, <2>2, <2>3, EditStep, Zenon
<1>4. ASSUME NEW file \in Files, detachFromRequest(actor, id, file)  PROVE StoreInv'
  <2>. DEFINE q == [requests[id] EXCEPT !.attachments = @ \ {file}]
  <2>1. q \in Request
    BY <1>1 DEF Request
  <2>2. /\ q.status = requests[id].status /\ q.ownerId = requests[id].ownerId
        /\ q.returnedBy = requests[id].returnedBy /\ q.approverId = requests[id].approverId
        /\ q.requiredTier = requests[id].requiredTier
        /\ q.approvals = requests[id].approvals /\ q.audit = requests[id].audit
    BY <1>1 DEF Request
  <2>3. Edit(actor, id, "Removed", q) /\ "Removed" \in Edits
    BY <1>4 DEF detachFromRequest, Edits
  <2>. HIDE DEF q
  <2>. QED
    BY <2>1, <2>2, <2>3, EditStep, Zenon
<1>. QED
  BY <1>2, <1>3, <1>4

\* submitRequest leaves a record whose trail ends in its submission and whose
\* approvals wait at gate 1.
LEMMA SubmitStep ==
  ASSUME StoreInv, NEW actor \in Actor, NEW id \in DOMAIN requests, submitRequest(actor, id)
  PROVE  StoreInv'
<1>. DEFINE q == Submitted(requests[id], actor)
            new == noticesTo("submitted", id, approversFor(q))
<1>1. /\ actor \in Actor /\ GoodRecord(requests[id]) /\ RecordsGood /\ id \in Nat
      /\ notifications \in Seq(Notice)
  BY StoreAssumption DEF StoreInv, RecordsGood
<1>2. /\ actor.userId = requests[id].ownerId /\ requests[id].content.complete
      /\ Put(id, q) /\ notification(new)
  BY DEF submitRequest
<1>3. GoodRecord(q)
  BY <1>1, <1>2, SubmittedGood
<1>4. new \in Seq(Notice)
  <2>1. approversFor(q) \in SUBSET Users
    BY DEF approversFor
  <2>. QED
    BY <1>1, <2>1, NoticesToType, NoticeShape
<1>. HIDE DEF q, new
<1>5. RecordsGood'
  BY <1>1, <1>2, <1>3, PutGood, Zenon
<1>6. notifications' \in Seq(Notice)
  BY <1>1, <1>2, <1>4, NotificationType
<1>. QED
  BY <1>5, <1>6 DEF StoreInv, submitRequest

\* decideApprove leaves a record signed by somebody other than its owner with
\* authority over it, waiting at gate 2.
LEMMA ApproveStep ==
  ASSUME StoreInv, NEW actor \in Actor, NEW id \in DOMAIN requests, decideApprove(actor, id)
  PROVE  StoreInv'
<1>. DEFINE r == requests[id]
            q == Signed(r, actor)
            finance == noticesTo("submitted", id, {u \in Users : isFinance(users[u].role)})
            owner == <<notice("approved", id, r.ownerId)>>
<1>1. /\ actor \in Actor /\ GoodRecord(r) /\ RecordsGood /\ id \in Nat
      /\ notifications \in Seq(Notice) /\ r.ownerId \in Users
  BY StoreAssumption DEF StoreInv, RecordsGood, GoodRecord, Request
<1>2. /\ actor.userId # r.ownerId /\ MaySign(actor, r)
      /\ r.status \in Status /\ "Pending Finance Review" \in TRANSITIONS[r.status]
      /\ Put(id, q) /\ notification(finance \o owner)
  BY <1>1 DEF decideApprove, MayDecide, assertTransition, GoodRecord, Request
<1>3. r.status = "Pending Supervisor Approval"
  BY <1>2 DEF TRANSITIONS, Status
<1>4. GoodRecord(q)
  BY <1>1, <1>2, <1>3, SignedGood
<1>5. finance \o owner \in Seq(Notice)
  <2>1. finance \in Seq(Notice)
    BY <1>1, NoticesToType, NoticeShape
  <2>2. notice("approved", id, r.ownerId) \in Notice
    BY <1>1, NoticeShape
  <2>3. owner \in Seq(Notice)
    BY <2>2
  <2>. HIDE DEF finance, owner
  <2>. QED
    BY <2>1, <2>3, ConcatProperties, Zenon
<1>. HIDE DEF q, finance, owner
<1>6. RecordsGood'
  BY <1>1, <1>2, <1>4, PutGood, Zenon
<1>7. notifications' \in Seq(Notice)
  BY <1>1, <1>2, <1>5, NotificationType, Zenon
<1>. QED
  BY <1>6, <1>7 DEF StoreInv, decideApprove

\* financeApprove leaves the signature of gate 1 in place and puts its own
\* after it.
LEMMA ClearStep ==
  ASSUME StoreInv, NEW actor \in Actor, NEW id \in DOMAIN requests, financeApprove(actor, id)
  PROVE  StoreInv'
<1>. DEFINE r == requests[id]
            q == Cleared(r, actor)
            new == outcomeNotices("approved", id, r)
<1>1. /\ actor \in Actor /\ GoodRecord(r) /\ r \in Request /\ RecordsGood /\ id \in Nat
      /\ notifications \in Seq(Notice)
  BY StoreAssumption DEF StoreInv, RecordsGood, GoodRecord
<1>2. /\ r.status \in Status /\ "Approved" \in TRANSITIONS[r.status]
      /\ Put(id, q) /\ notification(new)
  BY <1>1 DEF financeApprove, assertTransition, Request
<1>3. r.status = "Pending Finance Review"
  BY <1>2 DEF TRANSITIONS, Status
<1>4. GoodRecord(q)
  BY <1>1, <1>3, ClearedGood
<1>5. new \in Seq(Notice)
  BY <1>1, OutcomeNoticesType, NoticeShape
<1>. HIDE DEF q, new
<1>6. RecordsGood'
  BY <1>1, <1>2, <1>4, PutGood, Zenon
<1>7. notifications' \in Seq(Notice)
  BY <1>1, <1>2, <1>5, NotificationType, Zenon
<1>. QED
  BY <1>6, <1>7 DEF StoreInv, financeApprove

\* Both gates send a request back the same way.
LEMMA ReturnStep ==
  ASSUME StoreInv, NEW actor \in Actor, NEW id \in DOMAIN requests,
         decideReject(actor, id) \/ financeReject(actor, id)
  PROVE  StoreInv'
<1>. DEFINE r == requests[id]
            q(action) == returnToRequester(r, actor, action)
            new == outcomeNotices("returned", id, r)
<1>1. /\ actor \in Actor /\ GoodRecord(r) /\ r \in Request /\ RecordsGood /\ id \in Nat
      /\ notifications \in Seq(Notice)
  BY StoreAssumption DEF StoreInv, RecordsGood, GoodRecord
<1>2. /\ r.status \in Status /\ "Needs Revision" \in TRANSITIONS[r.status] /\ notification(new)
      /\ UNCHANGED <<users, sessions, accountLog>>
  BY <1>1 DEF decideReject, financeReject, assertTransition, Request
<1>3. PICK action \in {"Returned", "Returned by Finance"} : Put(id, q(action))
  BY DEF decideReject, financeReject
<1>4. r.status \in {"Pending Supervisor Approval", "Pending Finance Review"}
  BY <1>2 DEF TRANSITIONS, Status
<1>5. GoodRecord(q(action))
  BY <1>1, <1>4, ReturnedGood
<1>6. new \in Seq(Notice)
  BY <1>1, OutcomeNoticesType, NoticeShape
<1>. HIDE DEF q, new
<1>7. RecordsGood'
  BY <1>1, <1>3, <1>5, PutGood, Zenon
<1>8. notifications' \in Seq(Notice)
  BY <1>1, <1>2, <1>6, NotificationType, Zenon
<1>. QED
  BY <1>2, <1>7, <1>8 DEF StoreInv

\* A step of the data layer on behalf of one of some actors.  For Next they
\* are the people with a session; a call that waited for a file is made for
\* whoever had one when it began.
StepOf(actors) ==
  \/ AccountStep
  \/ \E actor \in actors : RequesterStep(actor) \/ ReviewerStep(actor)
  \/ UNCHANGED vars

\* A step of the store is one of the operations that StepOf lists, or none.
LEMMA NextIsStep == StoreInv /\ [Next]_vars => sessions \subseteq Actor /\ StepOf(sessions)
BY DEF Next, StepOf, StoreInv

\* Every step of the store preserves the inductive invariant, whoever makes it.
LEMMA StepGood ==
  ASSUME StoreInv, StepOf(Actor)
  PROVE  StoreInv'
<1>1. CASE AccountStep
  BY <1>1, AccountStepGood
<1>2. ASSUME NEW actor \in Actor, RequesterStep(actor)  PROVE StoreInv'
  BY <1>2, CreateStep, EditSteps, DeleteStep, SubmitStep, Zenon DEF RequesterStep
<1>3. ASSUME NEW actor \in Actor, ReviewerStep(actor)  PROVE StoreInv'
  BY <1>3, ApproveStep, ClearStep, ReturnStep, Zenon DEF ReviewerStep
<1>4. CASE UNCHANGED vars
  BY <1>4 DEF vars, StoreInv, RecordsGood
<1>. QED
  BY <1>1, <1>2, <1>3, <1>4 DEF StepOf

\* The invariant is inductive.
LEMMA NextGood == StoreInv /\ [Next]_vars => StoreInv'
<1>. SUFFICES ASSUME StoreInv, [Next]_vars  PROVE StoreInv'
  OBVIOUS
<1>1. StepOf(Actor)
  BY NextIsStep DEF StepOf
<1>. QED
  BY <1>1, StepGood

\* Every record of every reachable store is well formed, with a trail and an
\* approvals list that explain its status.
THEOREM StoreInvAlways == Spec => []StoreInv
BY InitGood, NextGood, PTL DEF Spec

\* The store always holds what the Database type of store.ts declares,
\* whatever the operations are called with.
THEOREM TypeCorrect == Spec => []TypeOK
BY StoreInvAlways, StoreInvImplies, PTL

\* Every record's audit trail explains its status: nothing reaches Finance
\* without a signature, on that very submission, by somebody other than its
\* owner whose authority covers it, and nothing is cleared but from there.
THEOREM TrailAlwaysTrue == Spec => []TrailIsTrue
BY StoreInvAlways, StoreInvImplies, PTL

\* The approvals list always names, gate by gate, the people of the record.
THEOREM ApprovalsAlwaysAgree == Spec => []ApprovalsAgree
BY StoreInvAlways, StoreInvImplies, PTL

-----------------------------------------------------------------------------
(* The five things that can happen to a record.                            *)

\* updateDraft, attachToRequest and detachFromRequest.
IsEdit(actor, r, q) ==
  /\ r.status \in EDITABLE /\ r.ownerId = actor.userId
  /\ \E action \in Edits, content \in Contents \cup {r.content}, files \in SUBSET (r.attachments \cup Files) :
       q = [r EXCEPT !.content = content, !.attachments = files,
                     !.audit = Append(@, auditEntry(actor, action))]

\* submitRequest.
IsSubmission(actor, r, q) ==
  /\ r.status \in EDITABLE /\ r.ownerId = actor.userId /\ r.content.complete
  /\ q = Submitted(r, actor)

\* decideApprove.
IsSignature(actor, r, q) ==
  /\ r.status = "Pending Supervisor Approval"
  /\ actor.userId # r.ownerId /\ MaySign(actor, r)
  /\ q = Signed(r, actor)

\* financeApprove.
IsClearance(actor, r, q) ==
  /\ r.status = "Pending Finance Review"
  /\ q = Cleared(r, actor)

\* decideReject and financeReject.
IsReturn(actor, r, q) ==
  /\ r.status \in {"Pending Supervisor Approval", "Pending Finance Review"}
  /\ \E action \in {"Returned", "Returned by Finance"} : q = returnToRequester(r, actor, action)

RecordStep(actor, r, q) ==
  \/ IsEdit(actor, r, q) \/ IsSubmission(actor, r, q) \/ IsSignature(actor, r, q)
  \/ IsClearance(actor, r, q) \/ IsReturn(actor, r, q)

\* Putting a record back changes that record.
LEMMA PutChanges ==
  ASSUME NEW id \in DOMAIN requests, NEW q, Put(id, q)
  PROVE  /\ DOMAIN requests' = DOMAIN requests
         /\ requests'[id] = q
         /\ \A other \in DOMAIN requests : other # id => requests'[other] = requests[other]
BY DEF Put

\* Each of the three edits is one.
LEMMA EditShape ==
  ASSUME StoreInv, NEW actor, NEW id \in DOMAIN requests,
         \/ \E content \in Contents : updateDraft(actor, id, content)
         \/ \E file \in Files : attachToRequest(actor, id, file) \/ detachFromRequest(actor, id, file)
  PROVE  \E q : Put(id, q) /\ IsEdit(actor, requests[id], q)
<1>. DEFINE r == requests[id]
<1>1. r \in Request
  BY DEF StoreInv, RecordsGood
<1>2. ASSUME NEW content \in Contents, updateDraft(actor, id, content)
      PROVE  \E q : Put(id, q) /\ IsEdit(actor, r, q)
  <2>1. /\ r.status \in EDITABLE /\ r.ownerId = actor.userId
        /\ Put(id, [[r EXCEPT !.content = content] EXCEPT !.audit = Append(@, auditEntry(actor, "Draft saved"))])
    BY <1>2 DEF updateDraft, Edit
  <2>2. [[r EXCEPT !.content = content] EXCEPT !.audit = Append(@, auditEntry(actor, "Draft saved"))]
        = [r EXCEPT !.content = content, !.attachments = r.attachments,
                    !.audit = Append(@, auditEntry(actor, "Draft saved"))]
    BY <1>1 DEF Request
  <2>. QED
    BY <2>1, <2>2 DEF IsEdit, Edits
<1>3. ASSUME NEW file \in Files, attachToRequest(actor, id, file)
      PROVE  \E q : Put(id, q) /\ IsEdit(actor, r, q)
  <2>1. /\ r.status \in EDITABLE /\ r.ownerId = actor.userId
        /\ Put(id, [[r EXCEPT !.attachments = @ \cup {file}] EXCEPT !.audit = Append(@, auditEntry(actor, "Attached"))])
    BY <1>3 DEF attachToRequest, Edit
  <2>2. [[r EXCEPT !.attachments = @ \cup {file}] EXCEPT !.audit = Append(@, auditEntry(actor, "Attached"))]
        = [r EXCEPT !.content = r.content, !.attachments = r.attachments \cup {file},
                    !.audit = Append(@, auditEntry(actor, "Attached"))]
    BY <1>1 DEF Request
  <2>3. r.attachments \cup {file} \in SUBSET (r.attachments \cup Files)
    OBVIOUS
  <2>. QED
    BY <2>1, <2>2, <2>3 DEF IsEdit, Edits
<1>4. ASSUME NEW file \in Files, detachFromRequest(actor, id, file)
      PROVE  \E q : Put(id, q) /\ IsEdit(actor, r, q)
  <2>1. /\ r.status \in EDITABLE /\ r.ownerId = actor.userId
        /\ Put(id, [[r EXCEPT !.attachments = @ \ {file}] EXCEPT !.audit = Append(@, auditEntry(actor, "Removed"))])
    BY <1>4 DEF detachFromRequest, Edit
  <2>2. [[r EXCEPT !.attachments = @ \ {file}] EXCEPT !.audit = Append(@, auditEntry(actor, "Removed"))]
        = [r EXCEPT !.content = r.content, !.attachments = r.attachments \ {file},
                    !.audit = Append(@, auditEntry(actor, "Removed"))]
    BY <1>1 DEF Request
  <2>3. r.attachments \ {file} \in SUBSET (r.attachments \cup Files)
    OBVIOUS
  <2>. QED
    BY <2>1, <2>2, <2>3 DEF IsEdit, Edits
<1>. QED
  BY <1>2, <1>3, <1>4

\* Each of the decisions, and submitting, is what its name says, at the
\* status the table of transitions leaves it.
LEMMA SubmitShape ==
  ASSUME StoreInv, NEW actor, NEW id \in DOMAIN requests, submitRequest(actor, id)
  PROVE  \E q : Put(id, q) /\ IsSubmission(actor, requests[id], q)
<1>1. requests[id].status \in Status
  BY DEF StoreInv, RecordsGood, Request
<1>2. requests[id].status \in EDITABLE
  BY <1>1 DEF submitRequest, assertTransition, TRANSITIONS, Status, EDITABLE
<1>. QED
  BY <1>2 DEF submitRequest, IsSubmission

\* Signing at gate 1 replaces one record by one that is signed.
LEMMA ApproveShape ==
  ASSUME StoreInv, NEW actor, NEW id \in DOMAIN requests, decideApprove(actor, id)
  PROVE  \E q : Put(id, q) /\ IsSignature(actor, requests[id], q)
<1>1. requests[id].status \in Status
  BY DEF StoreInv, RecordsGood, Request
<1>2. requests[id].status = "Pending Supervisor Approval"
  BY <1>1 DEF decideApprove, assertTransition, TRANSITIONS, Status
<1>. QED
  BY <1>2 DEF decideApprove, MayDecide, IsSignature

\* Clearing at gate 2 replaces one record by one that is cleared.
LEMMA ClearShape ==
  ASSUME StoreInv, NEW actor, NEW id \in DOMAIN requests, financeApprove(actor, id)
  PROVE  \E q : Put(id, q) /\ IsClearance(actor, requests[id], q)
<1>1. requests[id].status \in Status
  BY DEF StoreInv, RecordsGood, Request
<1>2. requests[id].status = "Pending Finance Review"
  BY <1>1 DEF financeApprove, assertTransition, TRANSITIONS, Status
<1>. QED
  BY <1>2 DEF financeApprove, IsClearance

\* Either gate can send one record back.
LEMMA ReturnShape ==
  ASSUME StoreInv, NEW actor, NEW id \in DOMAIN requests,
         decideReject(actor, id) \/ financeReject(actor, id)
  PROVE  \E q : Put(id, q) /\ IsReturn(actor, requests[id], q)
<1>1. requests[id].status \in Status
  BY DEF StoreInv, RecordsGood, Request
<1>2. requests[id].status \in {"Pending Supervisor Approval", "Pending Finance Review"}
  BY <1>1 DEF decideReject, financeReject, assertTransition, TRANSITIONS, Status
<1>. QED
  BY <1>2 DEF decideReject, financeReject, IsReturn

\* What a step of the store does to the records.
Creates(actor, content, id) ==
  /\ id \notin DOMAIN requests
  /\ requests' = [other \in DOMAIN requests \cup {id} |->
                    IF other = id THEN NewDraft(actor, content) ELSE requests[other]]

Deletes(id) ==
  /\ requests[id].status = "Draft"
  /\ requests' = [other \in DOMAIN requests \ {id} |-> requests[other]]

Changes(actor, id) == \E q : Put(id, q) /\ RecordStep(actor, requests[id], q)

RequestsStep(actors) ==
  \/ requests' = requests
  \/ \E actor \in actors, content \in Contents, id \in 1..MaxPrf : Creates(actor, content, id)
  \/ \E id \in DOMAIN requests : Deletes(id)
  \/ \E actor \in actors, id \in DOMAIN requests : Changes(actor, id)

\* Creating adds one record, under a number that is free.
LEMMA CreateShape ==
  ASSUME StoreInv, NEW actor, NEW content, createDraft(actor, content)
  PROVE  \E id \in 1..MaxPrf : Creates(actor, content, id)
<1>1. PICK id \in 1..MaxPrf :
        /\ nextPrfNumber(id)
        /\ requests' = [other \in DOMAIN requests \cup {id} |->
                          IF other = id THEN NewDraft(actor, content) ELSE requests[other]]
  BY DEF createDraft
<1>2. \A other \in DOMAIN requests : other < id /\ other \in Nat
  BY <1>1, StoreAssumption DEF nextPrfNumber, StoreInv, RecordsGood
<1>3. id \notin DOMAIN requests
  BY <1>2
<1>. QED
  BY <1>1, <1>3 DEF Creates

\* What any step does to the requests, as one of a few shapes.
LEMMA StepShape ==
  ASSUME StoreInv, NEW actors, StepOf(actors)
  PROVE  RequestsStep(actors)
<1>1. CASE AccountStep \/ UNCHANGED vars
  BY <1>1 DEF AccountStep, SignIn, EndSession, markNotificationsRead, assignRole, Restart, vars,
              RequestsStep
<1>2. ASSUME NEW actor \in actors, RequesterStep(actor)
      PROVE  RequestsStep(actors)
  <2>1. ASSUME NEW content \in Contents, createDraft(actor, content)
        PROVE  RequestsStep(actors)
    BY <2>1, CreateShape DEF RequestsStep
  <2>2. ASSUME NEW id \in DOMAIN requests,
               \/ \E content \in Contents : updateDraft(actor, id, content)
               \/ \E file \in Files : attachToRequest(actor, id, file) \/ detachFromRequest(actor, id, file)
        PROVE  RequestsStep(actors)
    BY <2>2, EditShape DEF RequestsStep, Changes, RecordStep
  <2>3. ASSUME NEW id \in DOMAIN requests, deleteDraft(actor, id)
        PROVE  RequestsStep(actors)
    BY <2>3 DEF deleteDraft, Unsubmitted, RequestsStep, Deletes
  <2>4. ASSUME NEW id \in DOMAIN requests, submitRequest(actor, id)
        PROVE  RequestsStep(actors)
    BY <2>4, SubmitShape DEF RequestsStep, Changes, RecordStep
  <2>. QED
    BY <1>2, <2>1, <2>2, <2>3, <2>4 DEF RequesterStep
<1>3. ASSUME NEW actor \in actors, ReviewerStep(actor)
      PROVE  RequestsStep(actors)
  <2>1. PICK id \in DOMAIN requests :
          \/ decideApprove(actor, id) \/ decideReject(actor, id)
          \/ financeApprove(actor, id) \/ financeReject(actor, id)
    BY <1>3 DEF ReviewerStep
  <2>2. Changes(actor, id)
    BY <2>1, ApproveShape, ClearShape, ReturnShape DEF Changes, RecordStep
  <2>. QED
    BY <2>2 DEF RequestsStep
<1>. QED
  BY <1>1, <1>2, <1>3 DEF StepOf

-----------------------------------------------------------------------------
(* What no step may do.                                                    *)

\* A trail with something appended has the old one as a strict prefix.
LEMMA LongerTrail ==
  ASSUME NEW S, NEW s \in Seq(S), NEW new \in Seq(S), new # <<>>
  PROVE  IsStrictPrefix(s, s \o new)
<1>. DEFINE all == s \o new
<1>1. /\ all \in Seq(S) /\ Len(all) = Len(s) + Len(new) /\ Len(s) \in Nat /\ Len(new) \in Nat
      /\ \A i \in 1..Len(s) : all[i] = s[i]
  OBVIOUS
<1>2. Len(new) > 0
  OBVIOUS
<1>. HIDE DEF all
<1>3. SubSeq(s, 1, Len(s)) = s
  OBVIOUS
<1>4. SubSeq(all, 1, Len(s)) = s
  BY <1>1, <1>2
<1>5. s # all
  BY <1>1, <1>2
<1>6. Len(s) <= Len(all)
  BY <1>1
<1>7. IsStrictPrefix(s, all)
  BY <1>3, <1>4, <1>5, <1>6 DEF IsStrictPrefix, IsPrefix
<1>. QED
  BY <1>7 DEF all

\* One entry, and two, as what a step appends.
LEMMA Entries ==
  ASSUME NEW S, NEW d \in S, NEW e \in S
  PROVE  /\ <<d>> \in Seq(S) /\ <<d>> # <<>>
         /\ <<d, e>> \in Seq(S) /\ <<d, e>> # <<>>
OBVIOUS

\* What every step keeps of a record, and how its trail grows.
Furthers(r, q) ==
  /\ q.ownerId = r.ownerId
  /\ r.status # "Approved"
  /\ r.status # "Draft" => q.status # "Draft"
  /\ \E new \in Seq(AuditEntry) : new # <<>> /\ q.audit = r.audit \o new

\* Whatever an operation makes of a record, it furthers it.
LEMMA RecordStepKeeps ==
  ASSUME NEW r \in Request, NEW actor \in Actor, NEW q, RecordStep(actor, r, q)
  PROVE  Furthers(r, q)
<1>1. r.audit \in Seq(AuditEntry)
  BY DEF Request
<1>2. ASSUME NEW e \in AuditEntry
      PROVE  /\ <<e>> \in Seq(AuditEntry) /\ <<e>> # <<>>
             /\ Append(r.audit, e) = r.audit \o <<e>>
  BY <1>1
<1>3. CASE IsEdit(actor, r, q)
  <2>1. PICK action \in Edits, content \in Contents \cup {r.content}, files \in SUBSET (r.attachments \cup Files) :
          q = [r EXCEPT !.content = content, !.attachments = files,
                        !.audit = Append(@, auditEntry(actor, action))]
    BY <1>3 DEF IsEdit
  <2>2. auditEntry(actor, action) \in AuditEntry
    BY EntryTypes DEF Edits, AuditAction
  <2>3. /\ q.ownerId = r.ownerId /\ q.status = r.status
        /\ q.audit = Append(r.audit, auditEntry(actor, action))
    BY <2>1 DEF Request
  <2>4. r.status # "Approved"
    BY <1>3 DEF IsEdit, EDITABLE
  <2>. QED
    BY <1>2, <2>2, <2>3, <2>4 DEF Furthers
<1>4. CASE IsSubmission(actor, r, q)
  <2>. DEFINE required == requiredAtSubmission(actor, r.content.amount)
              new == <<auditEntry(actor, "Submitted"), systemEntry("Routed", required)>>
  <2>1. r.content.amount \in Nat /\ r.content.amount < Infinity
    BY DEF Request, Content
  <2>2. required \in Tiers
    BY <2>1, RequiredCovers
  <2>3. auditEntry(actor, "Submitted") \in AuditEntry /\ systemEntry("Routed", required) \in AuditEntry
    BY <2>2, EntryTypes DEF AuditAction
  <2>4. new \in Seq(AuditEntry) /\ new # <<>>
    BY <2>3, Entries
  <2>5. /\ q.ownerId = r.ownerId /\ q.status = "Pending Supervisor Approval"
        /\ q.audit = r.audit \o new
    BY <1>4 DEF IsSubmission, Submitted, Request
  <2>6. r.status # "Approved"
    BY <1>4 DEF IsSubmission, EDITABLE
  <2>. HIDE DEF new
  <2>. QED
    BY <2>4, <2>5, <2>6 DEF Furthers
<1>5. CASE IsSignature(actor, r, q)
  <2>. DEFINE new == <<signatureEntry(actor), systemEntry("Sent to Finance", NoTier)>>
  <2>1. signatureEntry(actor) \in AuditEntry /\ systemEntry("Sent to Finance", NoTier) \in AuditEntry
    <3>1. systemEntry("Sent to Finance", NoTier) \in AuditEntry
      BY EntryTypes DEF AuditAction
    <3>. QED
      BY <3>1 DEF signatureEntry, AuditEntry, AuditAction, Actor, Tiers
  <2>2. new \in Seq(AuditEntry) /\ new # <<>>
    BY <2>1, Entries
  <2>3. /\ q.ownerId = r.ownerId /\ q.status = "Pending Finance Review"
        /\ q.audit = r.audit \o new
    BY <1>5 DEF IsSignature, Signed, Request
  <2>4. r.status = "Pending Supervisor Approval"
    BY <1>5 DEF IsSignature
  <2>. HIDE DEF new
  <2>. QED
    BY <2>2, <2>3, <2>4 DEF Furthers
<1>6. CASE IsClearance(actor, r, q)
  <2>1. auditEntry(actor, "Cleared") \in AuditEntry
    BY EntryTypes DEF AuditAction
  <2>2. /\ q.ownerId = r.ownerId /\ q.status = "Approved" /\ r.status = "Pending Finance Review"
        /\ q.audit = Append(r.audit, auditEntry(actor, "Cleared"))
    BY <1>6 DEF IsClearance, Cleared, Request
  <2>. QED
    BY <1>2, <2>1, <2>2 DEF Furthers
<1>7. CASE IsReturn(actor, r, q)
  <2>1. PICK action \in {"Returned", "Returned by Finance"} : q = returnToRequester(r, actor, action)
    BY <1>7 DEF IsReturn
  <2>2. auditEntry(actor, action) \in AuditEntry
    BY EntryTypes DEF AuditAction
  <2>3. /\ q.ownerId = r.ownerId /\ q.status = "Needs Revision"
        /\ q.audit = Append(r.audit, auditEntry(actor, action))
    BY <2>1 DEF returnToRequester, Request
  <2>4. r.status # "Approved"
    BY <1>7 DEF IsReturn
  <2>. QED
    BY <1>2, <2>2, <2>3, <2>4 DEF Furthers
<1>. QED
  BY <1>3, <1>4, <1>5, <1>6, <1>7 DEF RecordStep

\* A record that was there before the step and is there after it is the same
\* record, or one step further.
LEMMA OneRecord ==
  ASSUME NEW actors, RequestsStep(actors), NEW id \in DOMAIN requests, id \in DOMAIN requests',
         requests'[id] # requests[id]
  PROVE  \E actor \in actors : RecordStep(actor, requests[id], requests'[id])
<1>1. CASE \E actor \in actors, content \in Contents, new \in 1..MaxPrf : Creates(actor, content, new)
  BY <1>1 DEF Creates
<1>2. CASE \E other \in DOMAIN requests : Deletes(other)
  BY <1>2 DEF Deletes
<1>3. ASSUME NEW actor \in actors, NEW other \in DOMAIN requests, Changes(actor, other)
      PROVE  \E a \in actors : RecordStep(a, requests[id], requests'[id])
  <2>1. PICK q : Put(other, q) /\ RecordStep(actor, requests[other], q)
    BY <1>3 DEF Changes
  <2>2. other = id /\ requests'[id] = q
    BY <2>1, PutChanges
  <2>. QED
    BY <2>1, <2>2
<1>. QED
  BY <1>1, <1>2, <1>3 DEF RequestsStep

\* Only a draft disappears.
LEMMA OnlyDraftsGo ==
  ASSUME NEW actors, RequestsStep(actors), NEW id \in DOMAIN requests, id \notin DOMAIN requests'
  PROVE  requests[id].status = "Draft"
<1>1. CASE \E actor \in actors, content \in Contents, new \in 1..MaxPrf : Creates(actor, content, new)
  BY <1>1 DEF Creates
<1>2. CASE \E other \in DOMAIN requests : Deletes(other)
  BY <1>2 DEF Deletes
<1>3. CASE \E actor \in actors, other \in DOMAIN requests : Changes(actor, other)
  BY <1>3, PutChanges DEF Changes
<1>. QED
  BY <1>1, <1>2, <1>3 DEF RequestsStep

\* What a step does to a submitted record and to a trail.
PermanentStep ==
  \A id \in DOMAIN requests : requests[id].status # "Draft" =>
    /\ id \in DOMAIN requests'
    /\ requests'[id].ownerId = requests[id].ownerId
    /\ requests'[id].status # "Draft"
    /\ requests[id].status = "Approved" => requests'[id] = requests[id]

AuditedStep ==
  \A id \in 1..MaxPrf : Kept(id) /\ requests'[id] # requests[id] =>
    IsStrictPrefix(requests[id].audit, requests'[id].audit)

\* No operation takes a submitted request back or escapes the trail.
LEMMA StepsKeep ==
  ASSUME StoreInv, StepOf(Actor)
  PROVE  PermanentStep /\ AuditedStep
<1>1. RequestsStep(Actor)
  BY StepShape
<1>2. \A id \in DOMAIN requests : requests[id] \in Request
  BY DEF StoreInv, RecordsGood
<1>3. ASSUME NEW id \in DOMAIN requests, id \in DOMAIN requests', requests'[id] # requests[id]
      PROVE  /\ Furthers(requests[id], requests'[id])
             /\ IsStrictPrefix(requests[id].audit, requests'[id].audit)
  <2>1. PICK actor \in Actor : RecordStep(actor, requests[id], requests'[id])
    BY <1>1, <1>3, OneRecord
  <2>2. Furthers(requests[id], requests'[id])
    BY <1>2, <2>1, RecordStepKeeps, Zenon
  <2>3. requests[id].audit \in Seq(AuditEntry)
    BY <1>2 DEF Request
  <2>. QED
    BY <2>2, <2>3, LongerTrail, Zenon DEF Furthers
<1>4. PermanentStep
  BY <1>1, <1>3, OnlyDraftsGo DEF PermanentStep, Furthers
<1>5. AuditedStep
  BY <1>3 DEF AuditedStep, Kept
<1>. QED
  BY <1>4, <1>5

\* The same of a step of the specification.
LEMMA NextKeeps == StoreInv /\ [Next]_vars => PermanentStep /\ AuditedStep
BY NextIsStep, StepsKeep DEF StepOf

\* A submitted request never disappears, never changes hands and never
\* becomes a draft again, and an approved one does not change: no sequence of
\* calls of the data layer, by whomever, undoes a decision of Finance.
THEOREM SubmittedStays == Spec => SubmittedIsPermanent
<1>1. StoreInv /\ [Next]_vars => [PermanentStep]_vars
  BY NextKeeps
<1>. QED
  BY <1>1, StoreInvAlways, PTL DEF Spec, SubmittedIsPermanent, PermanentStep

\* Every change to a record is told by entries appended to its trail.
THEOREM ChangesAreAudited == Spec => EveryChangeIsAudited
<1>1. StoreInv /\ [Next]_vars => [AuditedStep]_vars
  BY NextKeeps
<1>. QED
  BY <1>1, StoreInvAlways, PTL DEF Spec, EveryChangeIsAudited, AuditedStep

-----------------------------------------------------------------------------
(* An approver's own request.                                              *)

\* An approver who could have signed the amount for somebody else needs more
\* than their own limit.
LEMMA RequiredIsAbove ==
  ASSUME NEW actor \in Actor, NEW amount \in Nat, amount < Infinity,
         isApprover(actor.role), tierLimit(actor.tier) >= amount,
         tierLimit(actor.tier) # Infinity
  PROVE  tierLimit(requiredAtSubmission(actor, amount)) > tierLimit(actor.tier)
<1>1. tierForAmount(amount) \in Tiers
  BY TierForAmountCovers
<1>2. CASE actor.tier \in Tiers
  <2>1. tierLimit(tierForAmount(amount)) <= tierLimit(actor.tier)
    BY <1>2, TierForAmountIsLowest
  <2>2. tierLimit(actor.tier) >= tierLimit(tierForAmount(amount))
    BY <1>1, <1>2, <2>1, LimitTypes
  <2>3. requiredAtSubmission(actor, amount) = nextTierAbove(actor.tier)
    BY <1>2, <2>2, NoTierAssumption DEF requiredAtSubmission
  <2>. QED
    BY <1>2, <2>3, NextTierAboveCoversMore
<1>3. CASE actor.tier = NoTier
  <2>1. requiredAtSubmission(actor, amount) = tierForAmount(amount)
    BY <1>3 DEF requiredAtSubmission
  <2>. QED
    BY <1>1, <1>3, <2>1, LimitTypes
<1>. QED
  BY <1>2, <1>3 DEF Actor

\* What a step that takes a request to gate 1 shows of its author.
EscalatedStep ==
  \A id \in DOMAIN requests :
    Arrives(id) =>
      \E actor \in sessions :
         /\ actor.userId = requests[id].ownerId
         /\ \/ ~isApprover(actor.role)
            \/ tierLimit(actor.tier) < requests[id].content.amount
            \/ tierLimit(actor.tier) = Infinity
            \/ tierLimit(requests'[id].requiredTier) > tierLimit(actor.tier)

\* No operation sends an approver's own request to their own band.
LEMMA StepsEscalate == StoreInv /\ [Next]_vars => EscalatedStep
<1>. SUFFICES ASSUME StoreInv, [Next]_vars, NEW id \in DOMAIN requests, Arrives(id)
              PROVE  \E actor \in sessions :
                        /\ actor.userId = requests[id].ownerId
                        /\ \/ ~isApprover(actor.role)
                           \/ tierLimit(actor.tier) < requests[id].content.amount
                           \/ tierLimit(actor.tier) = Infinity
                           \/ tierLimit(requests'[id].requiredTier) > tierLimit(actor.tier)
  BY DEF EscalatedStep
<1>. DEFINE r == requests[id]
            q == requests'[id]
<1>1. /\ r.status \in EDITABLE /\ id \in DOMAIN requests'
      /\ q.status = "Pending Supervisor Approval" /\ q # r
  BY DEF Arrives, EDITABLE
<1>2. r \in Request /\ sessions \subseteq Actor
  BY DEF StoreInv, RecordsGood
<1>3. PICK actor \in sessions : RecordStep(actor, r, q)
  <2>1. RequestsStep(sessions)
    BY NextIsStep, StepShape
  <2>. QED
    BY <1>1, <2>1, OneRecord
<1>. HIDE DEF r, q
<1>4. IsSubmission(actor, r, q)
  <2>1. ~IsEdit(actor, r, q)
    BY <1>1, <1>2 DEF IsEdit, EDITABLE, Request
  <2>2. ~IsSignature(actor, r, q) /\ ~IsClearance(actor, r, q) /\ ~IsReturn(actor, r, q)
    BY <1>1 DEF IsSignature, IsClearance, IsReturn, EDITABLE
  <2>. QED
    BY <1>3, <2>1, <2>2 DEF RecordStep
<1>5. /\ actor.userId = r.ownerId
      /\ q.requiredTier = requiredAtSubmission(actor, r.content.amount)
      /\ r.content.amount \in Nat /\ r.content.amount < Infinity
  BY <1>2, <1>4 DEF IsSubmission, Submitted, Request, Content
<1>6. tierLimit(actor.tier) \in Nat
  BY <1>2, LimitTypes DEF Actor
<1>7. \/ ~isApprover(actor.role)
      \/ tierLimit(actor.tier) < r.content.amount
      \/ tierLimit(actor.tier) = Infinity
      \/ tierLimit(q.requiredTier) > tierLimit(actor.tier)
  BY <1>2, <1>5, <1>6, RequiredIsAbove
<1>. QED
  BY <1>5, <1>7 DEF r, q

\* A submitted request of an approver who could have signed it for somebody
\* else always needs more authority than its author's, unless that is
\* unlimited: the approver above, never a colleague of the same band.
THEOREM AlwaysEscalated == Spec => EscalatedPastItsAuthor
<1>1. StoreInv /\ [Next]_vars => [EscalatedStep]_vars
  BY StepsEscalate
<1>. QED
  BY <1>1, StoreInvAlways, PTL DEF Spec, EscalatedPastItsAuthor, EscalatedStep

-----------------------------------------------------------------------------
(* The store implements TwoGates.                                          *)

\* Nobody is named as having cleared a request that is not approved.
ClearedByFinance ==
  \A id \in DOMAIN requests : requests[id].status # "Approved" => requests[id].financeId = NoUser

GatesInv == StoreInv /\ ClearedByFinance

\* What TwoGates sees of one request, and of all the others, is as it was.
Same(id) ==
  /\ stageOf(id)' = stageOf(id) /\ authorOf(id)' = authorOf(id)
  /\ worthOf(id)' = worthOf(id) /\ signerOf(id)' = signerOf(id)
  /\ authorityOf(id)' = authorityOf(id) /\ clearerOf(id)' = clearerOf(id)

Others(id) == \A other \in 1..MaxPrf : other # id => Same(other)

\* If all are as they were, TwoGates stutters.
LEMMA GatesStutter ==
  ASSUME \A id \in 1..MaxPrf : Same(id)
  PROVE  UNCHANGED Gates!gvars
BY DEF Same, Gates!gvars

\* Each of the following is an action of TwoGates, read off one request:
\* writing,
LEMMA GatesWrite ==
  ASSUME NEW id \in 1..MaxPrf, Others(id), NEW p \in Users, NEW content \in Contents,
         stageOf(id) = "absent", stageOf(id)' = "draft", authorOf(id)' = p,
         worthOf(id)' = content.amount, signerOf(id)' = signerOf(id),
         authorityOf(id)' = authorityOf(id), clearerOf(id)' = clearerOf(id)
  PROVE  Gates!Next
<1>1. Gates!Write(id, p, content.amount)
  BY DEF Others, Same, Gates!Write
<1>. QED
  BY <1>1 DEF Gates!Next

\* revising,
LEMMA GatesRevise ==
  ASSUME NEW id \in 1..MaxPrf, Others(id), NEW content \in Contents,
         stageOf(id) \in {"draft", "revision"}, stageOf(id)' = stageOf(id),
         authorOf(id)' = authorOf(id), worthOf(id)' = content.amount,
         signerOf(id)' = signerOf(id), authorityOf(id)' = authorityOf(id),
         clearerOf(id)' = clearerOf(id)
  PROVE  Gates!Next
<1>1. Gates!Revise(id, content.amount)
  BY DEF Others, Same, Gates!Revise
<1>. QED
  BY <1>1 DEF Gates!Next

\* discarding,
LEMMA GatesDiscard ==
  ASSUME NEW id \in 1..MaxPrf, Others(id), stageOf(id) = "draft", stageOf(id)' = "absent",
         authorOf(id)' = NoUser, worthOf(id)' = 0, signerOf(id)' = signerOf(id),
         authorityOf(id)' = authorityOf(id), clearerOf(id)' = clearerOf(id)
  PROVE  Gates!Next
<1>1. Gates!Discard(id)
  BY DEF Others, Same, Gates!Discard
<1>. QED
  BY <1>1 DEF Gates!Next

\* submitting,
LEMMA GatesSubmit ==
  ASSUME NEW id \in 1..MaxPrf, Others(id),
         stageOf(id) \in {"draft", "revision"}, stageOf(id)' = "gate 1",
         authorOf(id)' = authorOf(id), worthOf(id)' = worthOf(id),
         signerOf(id)' = signerOf(id), authorityOf(id)' = authorityOf(id),
         clearerOf(id)' = clearerOf(id)
  PROVE  Gates!Next
<1>1. Gates!Submit(id)
  BY DEF Others, Same, Gates!Submit
<1>. QED
  BY <1>1 DEF Gates!Next

\* signing,
LEMMA GatesSign ==
  ASSUME NEW id \in 1..MaxPrf, Others(id), NEW p \in Users, NEW tier \in Tiers,
         stageOf(id) = "gate 1", stageOf(id)' = "gate 2",
         p # authorOf(id), tierLimit(tier) >= worthOf(id),
         authorOf(id)' = authorOf(id), worthOf(id)' = worthOf(id),
         signerOf(id)' = p, authorityOf(id)' = tierLimit(tier), clearerOf(id)' = clearerOf(id)
  PROVE  Gates!Next
<1>1. Gates!Sign(id, p, tierLimit(tier))
  BY DEF Others, Same, Gates!Sign
<1>. QED
  BY <1>1 DEF Gates!Next

\* clearing,
LEMMA GatesClear ==
  ASSUME NEW id \in 1..MaxPrf, Others(id), NEW p \in Users,
         stageOf(id) = "gate 2", stageOf(id)' = "approved",
         authorOf(id)' = authorOf(id), worthOf(id)' = worthOf(id),
         signerOf(id)' = signerOf(id), authorityOf(id)' = authorityOf(id), clearerOf(id)' = p
  PROVE  Gates!Next
<1>1. Gates!Clear(id, p)
  BY DEF Others, Same, Gates!Clear
<1>. QED
  BY <1>1 DEF Gates!Next

\* and sending back.
LEMMA GatesSendBack ==
  ASSUME NEW id \in 1..MaxPrf, Others(id),
         stageOf(id) \in {"gate 1", "gate 2"}, stageOf(id)' = "revision",
         authorOf(id)' = authorOf(id), worthOf(id)' = worthOf(id),
         signerOf(id)' = NoUser, authorityOf(id)' = 0, clearerOf(id)' = clearerOf(id)
  PROVE  Gates!Next
<1>1. Gates!SendBack(id)
  BY DEF Others, Same, Gates!SendBack
<1>. QED
  BY <1>1 DEF Gates!Next

\* A request that keeps its record, or its absence, looks the same.
LEMMA KeptLooksTheSame ==
  ASSUME StoreInv, NEW id, id \in DOMAIN requests' <=> id \in DOMAIN requests,
         id \in DOMAIN requests => requests'[id] = requests[id]
  PROVE  Same(id)
<1>1. stageOf(id)' = stageOf(id)
  <2>1. id \in DOMAIN requests => requests[id].status \in Status
    BY DEF StoreInv, RecordsGood, Request
  <2>. QED
    BY <2>1 DEF stageOf, Status
<1>2. PastGate1(id)' <=> PastGate1(id)
  BY <1>1 DEF PastGate1
<1>3. PastGate1(id) => id \in DOMAIN requests
  BY DEF PastGate1, stageOf
<1>4. signerOf(id)' = signerOf(id)
  BY <1>2, <1>3 DEF signerOf
<1>5. authorityOf(id)' = authorityOf(id)
  <2>1. CASE PastGate1(id)
    <3>1. signature(id)' = signature(id)
      BY <1>1, <1>3, <2>1 DEF signature, At
    <3>. QED
      BY <1>2, <2>1, <3>1 DEF authorityOf
  <2>2. CASE ~PastGate1(id)
    BY <1>2, <2>2 DEF authorityOf
  <2>. QED
    BY <2>1, <2>2
<1>. QED
  BY <1>1, <1>4, <1>5 DEF Same, authorOf, worthOf, clearerOf

\* Putting a record back leaves the others as they look.
LEMMA PutLeavesOthers ==
  ASSUME StoreInv, NEW id \in DOMAIN requests, NEW q, Put(id, q)
  PROVE  Others(id)
BY PutChanges, KeptLooksTheSame DEF Others

\* The same, as a function of the record alone.
stageIn(r) ==
  CASE r.status = "Draft"                       -> "draft"
    [] r.status = "Pending Supervisor Approval" -> "gate 1"
    [] r.status = "Pending Finance Review"      -> "gate 2"
    [] r.status = "Needs Revision"              -> "revision"
    [] r.status = "Approved"                    -> "approved"

signerIn(r) == IF r.status \in {"Pending Finance Review", "Approved"} THEN r.approverId ELSE NoUser

authorityIn(r) ==
  IF r.status = "Pending Finance Review" THEN tierLimit(At(r, 1).tier)
  ELSE IF r.status = "Approved" THEN tierLimit(At(r, 2).tier) ELSE 0

LooksAs(id, r) ==
  /\ stageOf(id) = stageIn(r)
  /\ authorOf(id) = r.ownerId
  /\ worthOf(id) = r.content.amount
  /\ signerOf(id) = signerIn(r)
  /\ authorityOf(id) = authorityIn(r)
  /\ clearerOf(id) = r.financeId

\* What TwoGates sees of a request is what its record says.
LEMMA Seen ==
  ASSUME NEW id \in DOMAIN requests, requests[id].status \in Status
  PROVE  LooksAs(id, requests[id])
<1>. DEFINE r == requests[id]
<1>1. stageOf(id) = stageIn(r)
  BY DEF stageOf, stageIn, Status
<1>2. /\ r.status = "Pending Finance Review" <=> stageOf(id) = "gate 2"
      /\ r.status = "Approved" <=> stageOf(id) = "approved"
  BY DEF stageOf, Status
<1>3. signerOf(id) = signerIn(r)
  BY <1>2 DEF signerOf, signerIn, PastGate1
<1>4. authorityOf(id) = authorityIn(r)
  BY <1>2 DEF authorityOf, authorityIn, PastGate1, signature
<1>. QED
  BY <1>1, <1>3, <1>4 DEF LooksAs, authorOf, worthOf, clearerOf

\* A step that puts a record back leaves the other requests as they look,
\* and shows this one as the record put back.
LEMMA PutSeen ==
  ASSUME StoreInv, NEW id \in DOMAIN requests, NEW q, Put(id, q), q.status \in Status
  PROVE  Others(id) /\ LooksAs(id, q)'
<1>1. id \in DOMAIN requests' /\ requests'[id] = q
  BY PutChanges
<1>2. Others(id)
  BY PutLeavesOthers
<1>3. stageOf(id)' = stageIn(q)
  BY <1>1 DEF stageOf, stageIn, Status
<1>4. /\ q.status = "Pending Finance Review" <=> stageOf(id)' = "gate 2"
      /\ q.status = "Approved" <=> stageOf(id)' = "approved"
  BY <1>1 DEF stageOf, Status
<1>5. signerOf(id)' = signerIn(q)
  BY <1>1, <1>4 DEF signerOf, signerIn, PastGate1
<1>6. authorityOf(id)' = authorityIn(q)
  BY <1>1, <1>4 DEF authorityOf, authorityIn, PastGate1, signature, At
<1>. QED
  BY <1>1, <1>2, <1>3, <1>5, <1>6 DEF LooksAs, authorOf, worthOf, clearerOf

\* A new draft is a draft, and nobody has signed or cleared it.
LEMMA DraftShape ==
  ASSUME NEW actor, NEW content
  PROVE  /\ NewDraft(actor, content).status = "Draft"
         /\ NewDraft(actor, content).ownerId = actor.userId
         /\ NewDraft(actor, content).content = content
         /\ NewDraft(actor, content).financeId = NoUser
BY DEF NewDraft

-----------------------------------------------------------------------------
(* Each step of a record is a step of TwoGates.                            *)

\* Before gate 1 an edit revises, or changes nothing TwoGates sees.
LEMMA EditMaps ==
  ASSUME GatesInv, NEW actor \in Actor, NEW id \in DOMAIN requests, NEW q,
         Put(id, q), IsEdit(actor, requests[id], q)
  PROVE  [Gates!Next]_(Gates!gvars)
<1>. DEFINE r == requests[id]
<1>1. /\ id \in 1..MaxPrf /\ r \in Request /\ r.status \in {"Draft", "Needs Revision"}
      /\ Others(id)
  BY PutLeavesOthers DEF GatesInv, StoreInv, RecordsGood, IsEdit, EDITABLE
<1>2. /\ q.ownerId = r.ownerId /\ q.status = r.status /\ q.financeId = r.financeId
      /\ q.content \in Contents \cup {r.content}
  BY <1>1 DEF IsEdit, Request
<1>3. /\ stageOf(id) \in {"draft", "revision"} /\ stageOf(id)' = stageOf(id)
      /\ authorOf(id)' = authorOf(id) /\ signerOf(id)' = signerOf(id)
      /\ authorityOf(id)' = authorityOf(id) /\ clearerOf(id)' = clearerOf(id)
      /\ worthOf(id) = r.content.amount /\ worthOf(id)' = q.content.amount
  <2>1. LooksAs(id, r) /\ LooksAs(id, q)'
    BY <1>1, <1>2, Seen, PutSeen DEF GatesInv, Status
  <2>2. /\ stageIn(r) \in {"draft", "revision"} /\ stageIn(q) = stageIn(r)
        /\ signerIn(r) = NoUser /\ signerIn(q) = NoUser
        /\ authorityIn(r) = 0 /\ authorityIn(q) = 0
    BY <1>1, <1>2 DEF stageIn, signerIn, authorityIn
  <2>. QED
    BY <1>1, <1>2, <2>1, <2>2 DEF LooksAs
<1>4. CASE q.content = r.content
  <2>1. Same(id)
    BY <1>3, <1>4 DEF Same
  <2>. QED
    BY <1>1, <2>1, GatesStutter DEF Others
<1>5. CASE q.content \in Contents
  BY <1>1, <1>3, <1>5, GatesRevise
<1>. QED
  BY <1>2, <1>4, <1>5

\* Submitting submits.
LEMMA SubmissionMaps ==
  ASSUME GatesInv, NEW actor \in Actor, NEW id \in DOMAIN requests, NEW q,
         Put(id, q), IsSubmission(actor, requests[id], q)
  PROVE  Gates!Next
<1>. DEFINE r == requests[id]
<1>1. /\ id \in 1..MaxPrf /\ r \in Request /\ r.status \in {"Draft", "Needs Revision"}
      /\ Others(id)
  BY PutLeavesOthers DEF GatesInv, StoreInv, RecordsGood, IsSubmission, EDITABLE
<1>2. /\ q.ownerId = r.ownerId /\ q.status = "Pending Supervisor Approval"
      /\ q.financeId = r.financeId /\ q.content = r.content
  BY <1>1 DEF IsSubmission, Submitted, Request
<1>3. /\ stageOf(id) \in {"draft", "revision"} /\ stageOf(id)' = "gate 1"
      /\ authorOf(id)' = authorOf(id) /\ signerOf(id)' = signerOf(id)
      /\ authorityOf(id)' = authorityOf(id) /\ clearerOf(id)' = clearerOf(id)
      /\ worthOf(id)' = worthOf(id)
  <2>1. LooksAs(id, r) /\ LooksAs(id, q)'
    BY <1>1, <1>2, Seen, PutSeen DEF GatesInv, Status
  <2>2. /\ stageIn(r) \in {"draft", "revision"} /\ stageIn(q) = "gate 1"
        /\ signerIn(r) = NoUser /\ signerIn(q) = NoUser
        /\ authorityIn(r) = 0 /\ authorityIn(q) = 0
    BY <1>1, <1>2 DEF stageIn, signerIn, authorityIn
  <2>. QED
    BY <1>1, <1>2, <2>1, <2>2 DEF LooksAs
<1>. QED
  BY <1>1, <1>3, GatesSubmit

\* A signature is somebody else's, under a limit that covers the amount.
LEMMA SignatureMaps ==
  ASSUME GatesInv, NEW actor \in Actor, NEW id \in DOMAIN requests, NEW q,
         Put(id, q), IsSignature(actor, requests[id], q)
  PROVE  Gates!Next
<1>. DEFINE r == requests[id]
            e == signatureEntry(actor)
            f == systemEntry("Sent to Finance", NoTier)
<1>1. /\ id \in 1..MaxPrf /\ r \in Request /\ r.status = "Pending Supervisor Approval"
      /\ Others(id) /\ GoodRecord(r) /\ actor.userId # r.ownerId /\ actor.userId \in Users
  BY PutLeavesOthers DEF GatesInv, StoreInv, RecordsGood, IsSignature, Actor
<1>2. BegunByOwner(r) /\ SubmissionAt(r, 0)
  BY <1>1 DEF GoodRecord, TrailExplainsStatus
<1>3. r.requiredTier \in Tiers /\ r.content.amount <= tierLimit(r.requiredTier)
  BY <1>1, <1>2 DEF SubmissionAt, Request
<1>4. tierLimit(actor.tier) >= tierLimit(r.requiredTier)
  BY <1>3, NoTierAssumption DEF IsSignature, MaySign, requiredAuthority
<1>5. actor.tier \in Tiers
  BY <1>3, <1>4, SignerHasBand DEF Actor
<1>6. tierLimit(actor.tier) >= r.content.amount
  <2>1. tierLimit(actor.tier) \in Nat /\ tierLimit(r.requiredTier) \in Nat /\ r.content.amount \in Nat
    BY <1>1, <1>3, <1>5, LimitTypes DEF Request, Content
  <2>. QED
    BY <1>3, <1>4, <2>1
<1>7. e \in AuditEntry /\ f \in AuditEntry /\ e.tier = actor.tier
  <2>1. f \in AuditEntry
    BY EntryTypes DEF AuditAction
  <2>2. actor.tier # NoTier
    BY <1>5, NoTierAssumption
  <2>. QED
    BY <1>1, <1>5, <2>1, <2>2 DEF signatureEntry, AuditEntry, AuditAction
<1>8. /\ q.ownerId = r.ownerId /\ q.status = "Pending Finance Review"
      /\ q.financeId = r.financeId /\ q.content = r.content /\ q.approverId = actor.userId
      /\ q.requiredTier = r.requiredTier /\ q.requesterSigned = r.requesterSigned
      /\ q.audit = r.audit \o <<e, f>>
  BY <1>1 DEF IsSignature, Signed, Request
<1>. HIDE DEF e, f
<1>9. At(q, 1) = e
  <2>1. At(q, 0 + 1) = e
    BY <1>1, <1>2, <1>7, <1>8, SignatureEndsTrail
  <2>. QED
    BY <2>1
<1>. HIDE DEF r
<1>10. /\ stageOf(id) = "gate 1" /\ stageOf(id)' = "gate 2"
       /\ authorOf(id) = r.ownerId /\ authorOf(id)' = authorOf(id)
       /\ signerOf(id)' = actor.userId /\ authorityOf(id)' = tierLimit(actor.tier)
       /\ clearerOf(id)' = clearerOf(id)
       /\ worthOf(id) = r.content.amount /\ worthOf(id)' = worthOf(id)
  <2>1. LooksAs(id, r) /\ LooksAs(id, q)'
    BY <1>1, <1>7, <1>8, <1>9, Seen, PutSeen DEF GatesInv, Status, r
  <2>2. /\ stageIn(r) = "gate 1" /\ stageIn(q) = "gate 2"
        /\ signerIn(q) = actor.userId /\ authorityIn(q) = tierLimit(actor.tier)
    BY <1>1, <1>7, <1>8, <1>9 DEF stageIn, signerIn, authorityIn
  <2>. QED
    BY <1>1, <1>7, <1>8, <1>9, <2>1, <2>2 DEF LooksAs
<1>. QED
  BY <1>1, <1>5, <1>6, <1>10, GatesSign

\* A clearance leaves the signature as it was.
LEMMA ClearanceMaps ==
  ASSUME GatesInv, NEW actor \in Actor, NEW id \in DOMAIN requests, NEW q,
         Put(id, q), IsClearance(actor, requests[id], q)
  PROVE  Gates!Next
<1>. DEFINE r == requests[id]
            e == auditEntry(actor, "Cleared")
<1>1. /\ id \in 1..MaxPrf /\ r \in Request /\ r.status = "Pending Finance Review"
      /\ Others(id) /\ GoodRecord(r) /\ actor.userId \in Users
  BY PutLeavesOthers DEF GatesInv, StoreInv, RecordsGood, IsClearance, Actor
<1>2. /\ q.ownerId = r.ownerId /\ q.status = "Approved"
      /\ q.financeId = actor.userId /\ q.content = r.content /\ q.approverId = r.approverId
      /\ q.audit = Append(r.audit, e)
  BY <1>1 DEF IsClearance, Cleared, Request
<1>3. e \in AuditEntry
  BY EntryTypes DEF AuditAction
<1>4. Len(r.audit) >= 2 + 3 /\ Len(r.audit) \in Nat
  <2>1. SubmissionAt(r, 2)
    BY <1>1 DEF GoodRecord, TrailExplainsStatus
  <2>2. r.audit \in Seq(AuditEntry)
    BY <1>1 DEF Request
  <2>. HIDE DEF r
  <2>3. Len(r.audit) >= 2 + 3
    BY <2>1, Zenon DEF SubmissionAt
  <2>. QED
    BY <2>2, <2>3
<1>. HIDE DEF e, r
<1>5. At(q, 2) = At(r, 1)
  <2>1. \A k \in 0..(Len(r.audit) - 1) : At(q, k + 1) = At(r, k)
    BY <1>1, <1>2, <1>3, TrailAfterOne, Zenon
  <2>2. 1 \in 0..(Len(r.audit) - 1) /\ 1 + 1 = 2
    BY <1>4
  <2>. QED
    BY <2>1, <2>2, Zenon
<1>6. /\ stageOf(id) = "gate 2" /\ stageOf(id)' = "approved"
      /\ authorOf(id)' = authorOf(id) /\ signerOf(id)' = signerOf(id)
      /\ authorityOf(id)' = authorityOf(id)
      /\ clearerOf(id)' = actor.userId /\ worthOf(id)' = worthOf(id)
  <2>1. LooksAs(id, r) /\ LooksAs(id, q)'
    BY <1>1, <1>2, <1>5, Seen, PutSeen DEF GatesInv, Status, r
  <2>2. /\ stageIn(r) = "gate 2" /\ stageIn(q) = "approved"
        /\ signerIn(q) = signerIn(r) /\ authorityIn(q) = authorityIn(r)
    BY <1>1, <1>2, <1>5 DEF stageIn, signerIn, authorityIn
  <2>. QED
    BY <1>1, <1>2, <1>5, <2>1, <2>2 DEF LooksAs
<1>. QED
  BY <1>1, <1>6, GatesClear

\* Whoever returns it, the signature is void.
LEMMA ReturnMaps ==
  ASSUME GatesInv, NEW actor \in Actor, NEW id \in DOMAIN requests, NEW q,
         Put(id, q), IsReturn(actor, requests[id], q)
  PROVE  Gates!Next
<1>. DEFINE r == requests[id]
<1>1. /\ id \in 1..MaxPrf /\ r \in Request
      /\ r.status \in {"Pending Supervisor Approval", "Pending Finance Review"}
      /\ Others(id)
  BY PutLeavesOthers DEF GatesInv, StoreInv, RecordsGood, IsReturn
<1>2. /\ q.ownerId = r.ownerId /\ q.status = "Needs Revision"
      /\ q.financeId = r.financeId /\ q.content = r.content
  BY <1>1 DEF IsReturn, returnToRequester, Request
<1>3. /\ stageOf(id) \in {"gate 1", "gate 2"} /\ stageOf(id)' = "revision"
      /\ authorOf(id)' = authorOf(id) /\ signerOf(id)' = NoUser
      /\ authorityOf(id)' = 0 /\ clearerOf(id)' = clearerOf(id)
      /\ worthOf(id)' = worthOf(id)
  <2>1. LooksAs(id, r) /\ LooksAs(id, q)'
    BY <1>1, <1>2, Seen, PutSeen DEF GatesInv, Status
  <2>2. /\ stageIn(r) \in {"gate 1", "gate 2"} /\ stageIn(q) = "revision"
        /\ signerIn(q) = NoUser /\ authorityIn(q) = 0
    BY <1>1, <1>2 DEF stageIn, signerIn, authorityIn
  <2>. QED
    BY <1>1, <1>2, <2>1, <2>2 DEF LooksAs
<1>. QED
  BY <1>1, <1>3, GatesSendBack

\* Writing and discarding a draft are what they are called.
LEMMA CreateMaps ==
  ASSUME GatesInv, NEW actor \in Actor, NEW content \in Contents, NEW id \in 1..MaxPrf,
         Creates(actor, content, id)
  PROVE  Gates!Next
<1>1. /\ id \notin DOMAIN requests /\ id \in DOMAIN requests'
      /\ requests'[id] = NewDraft(actor, content)
  BY DEF Creates
<1>2. ASSUME NEW other \in 1..MaxPrf, other # id
      PROVE  Same(other)
  <2>1. /\ other \in DOMAIN requests' <=> other \in DOMAIN requests
        /\ other \in DOMAIN requests => requests'[other] = requests[other]
    BY <1>2 DEF Creates
  <2>. QED
    BY <2>1, KeptLooksTheSame DEF GatesInv
<1>3. /\ stageOf(id) = "absent" /\ clearerOf(id) = NoUser
      /\ signerOf(id) = NoUser /\ authorityOf(id) = 0
  BY <1>1 DEF stageOf, clearerOf, signerOf, authorityOf, PastGate1
<1>4. stageOf(id)' = "draft"
  <2>. DEFINE d == NewDraft(actor, content)
  <2>1. d.status = "Draft"
    BY DraftShape
  <2>. HIDE DEF d
  <2>2. id \in DOMAIN requests' /\ requests'[id].status = "Draft"
    BY <1>1, <2>1 DEF d
  <2>. QED
    BY <2>2 DEF stageOf
<1>5. signerOf(id)' = NoUser /\ authorityOf(id)' = 0
  BY <1>4 DEF signerOf, authorityOf, PastGate1
<1>6. /\ authorOf(id)' = actor.userId /\ worthOf(id)' = content.amount
      /\ clearerOf(id)' = NoUser /\ actor.userId \in Users
  BY <1>1, DraftShape DEF authorOf, worthOf, clearerOf, Actor
<1>. QED
  BY <1>2, <1>3, <1>4, <1>5, <1>6, GatesWrite DEF Others

\* Deleting a draft discards it.
LEMMA DeleteMaps ==
  ASSUME GatesInv, NEW id \in DOMAIN requests, Deletes(id)
  PROVE  Gates!Next
<1>1. /\ id \notin DOMAIN requests' /\ requests[id].status = "Draft" /\ id \in 1..MaxPrf
  BY DEF Deletes, GatesInv, StoreInv, RecordsGood
<1>2. ASSUME NEW other \in 1..MaxPrf, other # id
      PROVE  Same(other)
  <2>1. /\ other \in DOMAIN requests' <=> other \in DOMAIN requests
        /\ other \in DOMAIN requests => requests'[other] = requests[other]
    BY <1>2 DEF Deletes
  <2>. QED
    BY <2>1, KeptLooksTheSame DEF GatesInv
<1>3. /\ stageOf(id)' = "absent" /\ clearerOf(id)' = NoUser
      /\ signerOf(id)' = NoUser /\ authorityOf(id)' = 0
      /\ authorOf(id)' = NoUser /\ worthOf(id)' = 0
  BY <1>1 DEF stageOf, clearerOf, signerOf, authorityOf, PastGate1, authorOf, worthOf
<1>4. /\ stageOf(id) = "draft" /\ signerOf(id) = NoUser /\ authorityOf(id) = 0
      /\ clearerOf(id) = requests[id].financeId
  BY <1>1, Seen DEF LooksAs, stageIn, signerIn, authorityIn, Status
<1>5. requests[id].financeId = NoUser
  BY <1>1 DEF GatesInv, ClearedByFinance
<1>. QED
  BY <1>1, <1>2, <1>3, <1>4, <1>5, GatesDiscard DEF Others

\* Only a clearance names somebody of Finance.
LEMMA ClearedStays ==
  ASSUME GatesInv, StepOf(Actor)
  PROVE  ClearedByFinance'
<1>. SUFFICES ASSUME NEW id \in DOMAIN requests', requests'[id].status # "Approved"
              PROVE  requests'[id].financeId = NoUser
  BY DEF ClearedByFinance
<1>1. RequestsStep(Actor)
  BY StepShape DEF GatesInv
<1>2. CASE id \notin DOMAIN requests
  <2>1. PICK actor \in Actor, content \in Contents, new \in 1..MaxPrf : Creates(actor, content, new)
    BY <1>1, <1>2, PutChanges DEF RequestsStep, Deletes, Changes
  <2>2. requests'[id] = NewDraft(actor, content)
    BY <1>2, <2>1 DEF Creates
  <2>. QED
    BY <2>2, DraftShape
<1>3. CASE id \in DOMAIN requests /\ requests'[id] = requests[id]
  BY <1>3 DEF GatesInv, ClearedByFinance
<1>4. CASE id \in DOMAIN requests /\ requests'[id] # requests[id]
  <2>. DEFINE r == requests[id]
              q == requests'[id]
  <2>1. PICK actor \in Actor : RecordStep(actor, r, q)
    BY <1>1, <1>4, OneRecord
  <2>2. r \in Request /\ (r.status # "Approved" => r.financeId = NoUser)
    BY <1>1, <1>4 DEF GatesInv, ClearedByFinance, StoreInv, RecordsGood
  <2>. HIDE DEF r, q
  <2>3. r.status # "Approved" /\ (q.status # "Approved" => q.financeId = r.financeId)
    <3>1. CASE IsEdit(actor, r, q)
      BY <2>2, <3>1 DEF IsEdit, EDITABLE, Request
    <3>2. CASE IsSubmission(actor, r, q)
      BY <2>2, <3>2 DEF IsSubmission, EDITABLE, Submitted, Request
    <3>3. CASE IsSignature(actor, r, q)
      BY <2>2, <3>3 DEF IsSignature, Signed, Request
    <3>4. CASE IsClearance(actor, r, q)
      BY <2>2, <3>4 DEF IsClearance, Cleared, Request
    <3>5. CASE IsReturn(actor, r, q)
      BY <2>2, <3>5 DEF IsReturn, returnToRequester, Request
    <3>. QED
      BY <2>1, <3>1, <3>2, <3>3, <3>4, <3>5 DEF RecordStep
  <2>. QED
    BY <2>2, <2>3 DEF q
<1>. QED
  BY <1>2, <1>3, <1>4

\* Every step of the store is a step of TwoGates or changes nothing it sees.
LEMMA StepMaps ==
  ASSUME GatesInv, StepOf(Actor)
  PROVE  [Gates!Next]_(Gates!gvars)
<1>1. StoreInv /\ RequestsStep(Actor)
  BY StepShape DEF GatesInv
<1>2. CASE requests' = requests
  BY <1>1, <1>2, KeptLooksTheSame, GatesStutter
<1>3. ASSUME NEW actor \in Actor, NEW content \in Contents, NEW id \in 1..MaxPrf,
             Creates(actor, content, id)
      PROVE  [Gates!Next]_(Gates!gvars)
  BY <1>1, <1>3, CreateMaps
<1>4. ASSUME NEW id \in DOMAIN requests, Deletes(id)
      PROVE  [Gates!Next]_(Gates!gvars)
  BY <1>4, DeleteMaps
<1>5. ASSUME NEW actor \in Actor, NEW id \in DOMAIN requests, Changes(actor, id)
      PROVE  [Gates!Next]_(Gates!gvars)
  <2>1. PICK q : Put(id, q) /\ RecordStep(actor, requests[id], q)
    BY <1>5 DEF Changes
  <2>. QED
    BY <2>1, EditMaps, SubmissionMaps, SignatureMaps, ClearanceMaps, ReturnMaps DEF RecordStep
<1>. QED
  BY <1>1, <1>2, <1>3, <1>4, <1>5 DEF RequestsStep

\* The seeded store is one TwoGates may start from.
LEMMA InitMaps == Init => GatesInv /\ Gates!Init
<1>1. Init => Gates!Init
  <2>. SUFFICES ASSUME Init  PROVE Gates!Init
    OBVIOUS
  <2>1. DOMAIN requests = {}
    BY DEF Init
  <2>2. \A id \in 1..MaxPrf : /\ stageOf(id) = "absent" /\ authorOf(id) = NoUser /\ worthOf(id) = 0
                               /\ signerOf(id) = NoUser /\ authorityOf(id) = 0 /\ clearerOf(id) = NoUser
    BY <2>1 DEF stageOf, authorOf, worthOf, signerOf, authorityOf, clearerOf, PastGate1
  <2>. QED
    BY <2>2 DEF Gates!Init
<1>. QED
  BY <1>1, InitGood DEF GatesInv, ClearedByFinance, Init

\* What the mapping needs of a record holds after every operation.
LEMMA StepKeepsGates ==
  ASSUME GatesInv, StepOf(Actor)
  PROVE  GatesInv'
BY StepGood, ClearedStays DEF GatesInv

\* The store implements TwoGates: whatever the accounts, the contents and the
\* order of the calls, a purchase becomes final only through the signature of
\* somebody other than its author under a limit that covers its amount, and
\* then a clearance; a return voids the signature; and only a purchase that was
\* never submitted disappears.
THEOREM StoreImplementsTwoGates == Spec => ImplementsTwoGates
<1>1. GatesInv /\ [Next]_vars => GatesInv' /\ [Gates!Next]_(Gates!gvars)
  <2>. SUFFICES ASSUME GatesInv, [Next]_vars  PROVE GatesInv' /\ [Gates!Next]_(Gates!gvars)
    OBVIOUS
  <2>1. StepOf(Actor)
    BY NextIsStep DEF StepOf, GatesInv
  <2>. QED
    BY <2>1, StepKeepsGates, StepMaps
<1>. QED
  BY <1>1, InitMaps, PTL DEF Spec, ImplementsTwoGates, Gates!Spec

-----------------------------------------------------------------------------
(* The bell.                                                               *)

Public(id) == id \in DOMAIN requests /\ requests[id].status # "Draft"

PublicNotices == {t \in Notice : Public(t.requestId)}

BellInv == StoreInv /\ notifications \in Seq(PublicNotices)

\* What was public is public after any step.
LEMMA StaysPublic ==
  ASSUME StoreInv, StepOf(Actor)
  PROVE  PublicNotices \subseteq PublicNotices'
<1>1. PermanentStep
  BY StepsKeep
<1>2. \A id : Public(id) => Public(id)'
  BY <1>1 DEF PermanentStep, Public
<1>. QED
  BY <1>2 DEF PublicNotices

\* A notice about a public request may be in the bell.
LEMMA MayBeTold ==
  ASSUME NEW kind \in {"submitted", "approved", "returned"}, NEW id \in Nat, Public(id)'
  PROVE  \A u \in Users : notice(kind, id, u) \in PublicNotices'
<1>1. \A u \in Users : notice(kind, id, u) \in Notice /\ notice(kind, id, u).requestId = id
  BY NoticeShape DEF notice
<1>. QED
  BY <1>1 DEF PublicNotices

\* Notices about what is public now join the ones that were.
LEMMA BellGrows ==
  ASSUME BellInv, PublicNotices \subseteq PublicNotices',
         NEW new \in Seq(PublicNotices'), notification(new)
  PROVE  notifications' \in Seq(PublicNotices')
<1>1. notifications \in Seq(PublicNotices')
  BY DEF BellInv
<1>. QED
  BY <1>1, NotificationType

\* Each of the five operations that tell somebody tells them of a request
\* that is no draft, or no longer one.
LEMMA TellingKeepsBell ==
  ASSUME BellInv, PublicNotices \subseteq PublicNotices', NEW actor \in Actor,
         NEW id \in DOMAIN requests, submitRequest(actor, id) \/ ReviewerStep(actor)
  PROVE  notifications' \in Seq(PublicNotices')
<1>1. /\ RecordsGood /\ \A i \in DOMAIN requests : i \in Nat /\ requests[i] \in Request
  BY StoreAssumption DEF BellInv, StoreInv, RecordsGood
<1>2. CASE submitRequest(actor, id)
  <2>. DEFINE q == Submitted(requests[id], actor)
  <2>1. Put(id, q) /\ notification(noticesTo("submitted", id, approversFor(q)))
    BY <1>2 DEF submitRequest
  <2>2. q.status = "Pending Supervisor Approval"
    BY <1>1 DEF Submitted, Request
  <2>3. approversFor(q) \in SUBSET Users
    BY DEF approversFor
  <2>. HIDE DEF q
  <2>4. Public(id)'
    BY <2>1, <2>2, PutChanges DEF Public
  <2>5. noticesTo("submitted", id, approversFor(q)) \in Seq(PublicNotices')
    BY <1>1, <2>3, <2>4, MayBeTold, NoticesToType
  <2>. QED
    BY <2>1, <2>5, BellGrows
<1>3. ASSUME NEW i \in DOMAIN requests, decideApprove(actor, i)
      PROVE  notifications' \in Seq(PublicNotices')
  <2>. DEFINE q == Signed(requests[i], actor)
              finance == noticesTo("submitted", i, {u \in Users : isFinance(users[u].role)})
              owner == <<notice("approved", i, requests[i].ownerId)>>
  <2>1. Put(i, q) /\ notification(finance \o owner)
    BY <1>3 DEF decideApprove
  <2>2. q.status = "Pending Finance Review" /\ requests[i].ownerId \in Users
    BY <1>1 DEF Signed, Request
  <2>3. Public(i)'
    <3>. HIDE DEF q
    <3>. QED  BY <2>1, <2>2, PutChanges DEF Public
  <2>4. finance \in Seq(PublicNotices')
    BY <1>1, <2>3, MayBeTold, NoticesToType
  <2>5. owner \in Seq(PublicNotices')
    <3>1. notice("approved", i, requests[i].ownerId) \in PublicNotices'
      BY <1>1, <2>2, <2>3, MayBeTold
    <3>. QED
      BY <3>1
  <2>. HIDE DEF q, finance, owner
  <2>6. finance \o owner \in Seq(PublicNotices')
    BY <2>4, <2>5, ConcatProperties, Zenon
  <2>. QED
    BY <2>1, <2>6, BellGrows
<1>4. ASSUME NEW i \in DOMAIN requests, financeApprove(actor, i)
      PROVE  notifications' \in Seq(PublicNotices')
  <2>. DEFINE q == Cleared(requests[i], actor)
              new == outcomeNotices("approved", i, requests[i])
  <2>1. Put(i, q) /\ notification(new)
    BY <1>4 DEF financeApprove
  <2>2. q.status = "Approved"
    BY <1>1 DEF Cleared, Request
  <2>3. Public(i)'
    <3>. HIDE DEF q
    <3>. QED  BY <2>1, <2>2, PutChanges DEF Public
  <2>4. new \in Seq(PublicNotices')
    BY <1>1, <2>3, MayBeTold, OutcomeNoticesType
  <2>. QED
    BY <2>1, <2>4, BellGrows
<1>5. ASSUME NEW i \in DOMAIN requests, decideReject(actor, i) \/ financeReject(actor, i)
      PROVE  notifications' \in Seq(PublicNotices')
  <2>. DEFINE new == outcomeNotices("returned", i, requests[i])
  <2>1. PICK action \in {"Returned", "Returned by Finance"} :
          Put(i, returnToRequester(requests[i], actor, action)) /\ notification(new)
    BY <1>5 DEF decideReject, financeReject
  <2>2. returnToRequester(requests[i], actor, action).status = "Needs Revision"
    BY <1>1 DEF returnToRequester, Request
  <2>3. Public(i)'
    BY <2>1, <2>2, PutChanges DEF Public
  <2>4. new \in Seq(PublicNotices')
    BY <1>1, <2>3, MayBeTold, OutcomeNoticesType
  <2>. QED
    BY <2>1, <2>4, BellGrows
<1>. QED
  BY <1>2, <1>3, <1>4, <1>5 DEF ReviewerStep

\* Reading a notice does not change what it is about.
LEMMA ReadingKeepsBell ==
  ASSUME BellInv, PublicNotices \subseteq PublicNotices', NEW actor, markNotificationsRead(actor)
  PROVE  notifications' \in Seq(PublicNotices')
<1>. DEFINE n == Len(notifications)
<1>1. /\ n \in Nat /\ \A i \in 1..n : notifications[i] \in PublicNotices
  BY DEF BellInv
<1>2. notifications' = [i \in 1..n |-> IF notifications[i].to = actor.userId
                                       THEN [notifications[i] EXCEPT !.read = TRUE]
                                       ELSE notifications[i]]
  BY DEF markNotificationsRead
<1>3. \A t \in PublicNotices : [t EXCEPT !.read = TRUE] \in PublicNotices
  <2>. SUFFICES ASSUME NEW t \in PublicNotices  PROVE [t EXCEPT !.read = TRUE] \in PublicNotices
    OBVIOUS
  <2>1. [t EXCEPT !.read = TRUE] \in Notice /\ [t EXCEPT !.read = TRUE].requestId = t.requestId
    BY DEF PublicNotices, Notice
  <2>. QED
    BY <2>1 DEF PublicNotices
<1>4. notifications' \in [1..n -> PublicNotices]
  BY <1>1, <1>2, <1>3
<1>5. notifications' \in Seq(PublicNotices)
  <2>. HIDE DEF n
  <2>. QED  BY <1>1, <1>4
<1>. QED
  BY <1>5

\* No step tells anybody of a draft.
LEMMA StepKeepsBell ==
  ASSUME BellInv, StepOf(Actor)
  PROVE  BellInv'
<1>. SUFFICES notifications' \in Seq(PublicNotices')
  BY StepGood DEF BellInv
<1>1. PublicNotices \subseteq PublicNotices'
  BY StaysPublic DEF BellInv
<1>2. CASE notifications' = notifications
  BY <1>1, <1>2 DEF BellInv
<1>3. CASE AccountStep
  BY <1>1, <1>2, <1>3, ReadingKeepsBell DEF AccountStep, SignIn, EndSession, assignRole, Restart
<1>4. ASSUME NEW actor \in Actor, RequesterStep(actor)
      PROVE  notifications' \in Seq(PublicNotices')
  <2>1. CASE \E id \in DOMAIN requests : submitRequest(actor, id)
    BY <1>1, <2>1, TellingKeepsBell
  <2>2. CASE ~\E id \in DOMAIN requests : submitRequest(actor, id)
    BY <1>2, <1>4, <2>2 DEF RequesterStep, createDraft, updateDraft, attachToRequest, detachFromRequest,
                            Edit, deleteDraft
  <2>. QED
    BY <2>1, <2>2
<1>5. ASSUME NEW actor \in Actor, ReviewerStep(actor)
      PROVE  notifications' \in Seq(PublicNotices')
  <2>1. PICK id : id \in DOMAIN requests
    BY <1>5 DEF ReviewerStep
  <2>. QED
    BY <1>1, <1>5, <2>1, TellingKeepsBell
<1>6. CASE UNCHANGED vars
  BY <1>2, <1>6 DEF vars
<1>. QED
  BY <1>3, <1>4, <1>5, <1>6 DEF StepOf

\* What the bell holds is public.
LEMMA BellIsPublic == BellInv => NoNoticeOfADraft
<1>. SUFFICES ASSUME BellInv, NEW i \in DOMAIN notifications
              PROVE  Public(notifications[i].requestId)
  BY DEF NoNoticeOfADraft, Public
<1>1. notifications[i] \in PublicNotices
  BY DEF BellInv
<1>. QED
  BY <1>1 DEF PublicNotices

\* No notice is ever about a draft, or about a number that was given back
\* with a deleted draft: what the bell tells of can never be deleted.
THEOREM NobodyHearsOfDrafts == Spec => []NoNoticeOfADraft
<1>1. Init => BellInv
  BY InitGood DEF Init, BellInv
<1>2. BellInv /\ [Next]_vars => BellInv'
  BY NextIsStep, StepKeepsBell DEF StepOf, BellInv
<1>. QED
  BY <1>1, <1>2, BellIsPublic, PTL DEF Spec

-----------------------------------------------------------------------------
(* The account log.                                                        *)

\* A non-empty set of naturals has a least element.
LEMMA LeastExists ==
  ASSUME NEW S \in SUBSET Nat, S # {}
  PROVE  \E m \in S : \A n \in S : m <= n
<1>. DEFINE R == OpToRel(<, Nat)
<1>1. IsWellFoundedOn(R, Nat)
  BY NatLessThanWellFounded
<1>2. \A m, n \in Nat : <<n, m>> \in R <=> n < m
  BY DEF OpToRel
<1>. HIDE DEF R
<1>3. PICK m \in S : \A n \in S : ~(<<n, m>> \in R)
  BY <1>1, WFMin
<1>4. ASSUME NEW n \in S  PROVE m <= n
  <2>1. m \in Nat /\ n \in Nat /\ ~(n < m)
    BY <1>2, <1>3
  <2>. QED
    BY <2>1
<1>. QED
  BY <1>4

\* A non-empty set of indices has a greatest element.
LEMMA GreatestExists ==
  ASSUME NEW n \in Nat, NEW S \in SUBSET (1..n), S # {}
  PROVE  \E m \in S : \A i \in S : i <= m
<1>. DEFINE T == {n - i : i \in S}
<1>1. T \in SUBSET Nat
  <2>1. \A i \in S : i \in Nat /\ i <= n
    OBVIOUS
  <2>. QED
    BY <2>1
<1>2. T # {}
  OBVIOUS
<1>3. PICK m \in S : \A j \in T : n - m <= j
  <2>1. PICK k \in T : \A j \in T : k <= j
    <3>. HIDE DEF T
    <3>. QED  BY <1>1, <1>2, LeastExists
  <2>. QED
    BY <2>1
<1>4. ASSUME NEW i \in S  PROVE i <= m
  <2>1. n - m <= n - i /\ i \in Nat /\ m \in Nat
    BY <1>3
  <2>. QED
    BY <2>1
<1>. QED
  BY <1>4

\* What one more entry does to a log.
LEMMA LogGrows ==
  ASSUME NEW S, NEW log \in Seq(S), NEW e \in S
  PROVE  /\ Len(log) \in Nat /\ Len(Append(log, e)) = Len(log) + 1
         /\ DOMAIN log = 1..Len(log) /\ DOMAIN Append(log, e) = 1..(Len(log) + 1)
         /\ \A i \in 1..Len(log) : Append(log, e)[i] = log[i]
         /\ Append(log, e)[Len(log) + 1] = e
OBVIOUS

\* The role after n entries depends on those entries alone.
LEMMA RoleAfterPrefix ==
  ASSUME NEW n \in Nat, NEW log, NEW longer, NEW u, \A i \in 1..n : longer[i] = log[i]
  PROVE  RoleAfter(longer, u, n) = RoleAfter(log, u, n)
<1>. DEFINE about == {i \in 1..n : log[i].subjectId = u}
            last == CHOOSE i \in about : \A j \in about : j <= i
<1>1. {i \in 1..n : longer[i].subjectId = u} = about
  OBVIOUS
<1>2. CASE about = {}
  BY <1>1, <1>2 DEF RoleAfter
<1>3. CASE about # {}
  <2>1. \E i \in about : \A j \in about : j <= i
    BY <1>3, GreatestExists
  <2>2. last \in about
    <3>. HIDE DEF about
    <3>. QED  BY <2>1
  <2>3. longer[last] = log[last]
    <3>. HIDE DEF last
    <3>. QED  BY <2>2
  <2>4. RoleAfter(log, u, n) = log[last].to
    BY <1>3 DEF RoleAfter
  <2>5. RoleAfter(longer, u, n) = longer[last].to
    BY <1>1, <1>3 DEF RoleAfter
  <2>. QED
    BY <2>3, <2>4, <2>5
<1>. QED
  BY <1>2, <1>3

\* RoleAfter, given the entries about the user.
RoleOf(log, u, about) ==
  IF about = {} THEN InitialUsers[u].role
  ELSE log[CHOOSE i \in about : \A j \in about : j <= i].to

\* An entry about a user says their role; one about somebody else does not
\* change it.
LEMMA RoleAfterEntry ==
  ASSUME NEW n \in Nat, NEW log, NEW u
  PROVE  /\ log[n + 1].subjectId = u => RoleAfter(log, u, n + 1) = log[n + 1].to
         /\ log[n + 1].subjectId # u => RoleAfter(log, u, n + 1) = RoleAfter(log, u, n)
<1>. DEFINE about == {i \in 1..(n + 1) : log[i].subjectId = u}
            before == {i \in 1..n : log[i].subjectId = u}
<1>1. CASE log[n + 1].subjectId = u
  <2>1. n + 1 \in about /\ \A j \in about : j \in Nat /\ j <= n + 1
    BY <1>1
  <2>2. \A i \in about : (\A j \in about : j <= i) => i = n + 1
    <3>. HIDE DEF about
    <3>. QED  BY <2>1
  <2>3. (CHOOSE i \in about : \A j \in about : j <= i) = n + 1
    <3>. HIDE DEF about
    <3>. QED  BY <2>1, <2>2
  <2>4. about # {}
    BY <2>1
  <2>. QED
    BY <1>1, <2>3, <2>4 DEF RoleAfter
<1>2. CASE log[n + 1].subjectId # u
  <2>1. about = before
    BY <1>2
  <2>2. RoleAfter(log, u, n + 1) = RoleOf(log, u, about)
    BY DEF RoleAfter, RoleOf
  <2>3. RoleAfter(log, u, n) = RoleOf(log, u, before)
    BY DEF RoleAfter, RoleOf
  <2>. HIDE DEF about, before
  <2>. QED
    BY <1>2, <2>1, <2>2, <2>3
<1>. QED
  BY <1>1, <1>2

\* Whoever was an administrator by the first n entries was one by more.
LEMMA WasAdminGrows ==
  ASSUME NEW n \in Nat, NEW m \in Nat, n <= m, NEW log, NEW longer, NEW u,
         \A i \in 1..n : longer[i] = log[i], WasAdmin(log, u, n)
  PROVE  WasAdmin(longer, u, m)
<1>1. 1..n \subseteq 1..m
  OBVIOUS
<1>. QED
  BY <1>1 DEF WasAdmin

\* An entry of the log is in order.
EntryInOrder(log, i) ==
  /\ log[i].from = RoleAfter(log, log[i].subjectId, i - 1)
  /\ log[i].to # log[i].from
  /\ log[i].actorId # log[i].subjectId
  /\ WasAdmin(log, log[i].actorId, i - 1)

\* The invariant: positions follow from the log, its entries are in order,
\* and every administrator, in the store or in a session that was issued
\* before they were moved, is one by the log.
PositionsInv ==
  /\ users \in [Users -> Account] /\ sessions \subseteq Actor /\ accountLog \in Seq(LogEntry)
  /\ \A u \in Users : users[u].role = RoleAfter(accountLog, u, Len(accountLog))
  /\ \A i \in 1..Len(accountLog) : EntryInOrder(accountLog, i)
  /\ \A u \in Users : isAdmin(users[u].role) => WasAdmin(accountLog, u, Len(accountLog))
  /\ \A actor \in sessions : isAdmin(actor.role) => WasAdmin(accountLog, actor.userId, Len(accountLog))

\* An entry that was in order stays so when the log grows.
LEMMA StaysInOrder ==
  ASSUME NEW log \in Seq(LogEntry), NEW e \in LogEntry, NEW i \in 1..Len(log), EntryInOrder(log, i)
  PROVE  EntryInOrder(Append(log, e), i)
<1>. DEFINE longer == Append(log, e)
<1>1. /\ i \in Nat /\ i - 1 \in Nat /\ longer[i] = log[i]
      /\ \A j \in 1..(i - 1) : longer[j] = log[j]
  BY LogGrows
<1>. HIDE DEF longer
<1>2. RoleAfter(longer, log[i].subjectId, i - 1) = RoleAfter(log, log[i].subjectId, i - 1)
  BY <1>1, RoleAfterPrefix
<1>3. WasAdmin(longer, log[i].actorId, i - 1)
  BY <1>1, WasAdminGrows DEF EntryInOrder
<1>. QED
  BY <1>1, <1>2, <1>3 DEF EntryInOrder, longer

\* Moving somebody who changes roles.
LEMMA MoveKeepsPositions ==
  ASSUME PositionsInv, NEW actor \in sessions, NEW u \in Users, NEW role \in Roles,
         assignRole(actor, u, role), users[u].role # role
  PROVE  PositionsInv'
<1>. DEFINE e == [actorId |-> actor.userId, subjectId |-> u, from |-> users[u].role, to |-> role]
            n == Len(accountLog)
<1>1. /\ accountLog \in Seq(LogEntry) /\ users \in [Users -> Account]
      /\ actor \in Actor /\ sessions \subseteq Actor
      /\ n \in Nat
  BY DEF PositionsInv
<1>2. /\ users' = [users EXCEPT ![u].role = role] /\ sessions' = sessions
      /\ accountLog' = Append(accountLog, e)
      /\ isAdmin(actor.role) /\ actor.userId # u
  BY DEF assignRole, MayAssign
<1>3. /\ e \in LogEntry /\ e.actorId = actor.userId /\ e.subjectId = u
      /\ e.from = users[u].role /\ e.to = role
  BY <1>1 DEF LogEntry, Actor, Account
<1>. HIDE DEF e
<1>4. /\ accountLog' \in Seq(LogEntry) /\ Len(accountLog') = n + 1
      /\ \A i \in 1..n : accountLog'[i] = accountLog[i]
      /\ accountLog'[n + 1] = e
  BY <1>1, <1>2, <1>3, LogGrows
<1>5. /\ users' \in [Users -> Account] /\ users'[u].role = role
      /\ \A w \in Users : w # u => users'[w] = users[w]
  BY <1>1, <1>2 DEF Account
<1>. HIDE DEF n
<1>6. ASSUME NEW w \in Users
      PROVE  users'[w].role = RoleAfter(accountLog', w, n + 1)
  <2>1. CASE w = u
    BY <1>1, <1>3, <1>4, <1>5, <2>1, RoleAfterEntry
  <2>2. CASE w # u
    <3>1. RoleAfter(accountLog', w, n + 1) = RoleAfter(accountLog', w, n)
      BY <1>1, <1>3, <1>4, <2>2, RoleAfterEntry
    <3>2. RoleAfter(accountLog', w, n) = RoleAfter(accountLog, w, n)
      BY <1>1, <1>4, RoleAfterPrefix
    <3>. QED
      BY <1>5, <2>2, <3>1, <3>2 DEF PositionsInv, n
  <2>. QED
    BY <2>1, <2>2
<1>7. EntryInOrder(accountLog', n + 1)
  <2>1. RoleAfter(accountLog', u, n) = users[u].role
    BY <1>1, <1>4, RoleAfterPrefix DEF PositionsInv, n
  <2>2. WasAdmin(accountLog', actor.userId, n)
    <3>1. WasAdmin(accountLog, actor.userId, n)
      BY <1>2 DEF PositionsInv, n
    <3>. QED
      BY <1>1, <1>4, <3>1, WasAdminGrows
  <2>3. (n + 1) - 1 = n
    BY <1>1
  <2>. QED
    BY <1>2, <1>3, <1>4, <2>1, <2>2, <2>3 DEF EntryInOrder
<1>8. ASSUME NEW i \in 1..(n + 1)
      PROVE  EntryInOrder(accountLog', i)
  <2>1. CASE i = n + 1
    BY <1>7, <2>1
  <2>2. CASE i \in 1..n
    BY <1>1, <1>2, <1>3, <2>2, StaysInOrder DEF PositionsInv, n
  <2>. QED
    BY <1>1, <2>1, <2>2
<1>9. ASSUME NEW w \in Users, isAdmin(users'[w].role)
      PROVE  WasAdmin(accountLog', w, n + 1)
  <2>1. CASE w = u
    BY <1>1, <1>3, <1>4, <1>5, <1>9, <2>1 DEF WasAdmin
  <2>2. CASE w # u
    BY <1>1, <1>4, <1>5, <1>9, <2>2, WasAdminGrows DEF PositionsInv, n
  <2>. QED
    BY <2>1, <2>2
<1>10. ASSUME NEW a \in sessions', isAdmin(a.role)
       PROVE  WasAdmin(accountLog', a.userId, n + 1)
  <2>1. WasAdmin(accountLog, a.userId, n)
    BY <1>2, <1>10 DEF PositionsInv, n
  <2>2. n + 1 \in Nat /\ n <= n + 1
    BY <1>1
  <2>. QED
    BY <1>1, <1>4, <2>1, <2>2, WasAdminGrows
<1>. QED
  BY <1>1, <1>2, <1>4, <1>5, <1>6, <1>8, <1>9, <1>10 DEF PositionsInv

\* A session copies the role its owner has; nothing else gives one.
LEMMA StepKeepsPositions == PositionsInv /\ [Next]_vars => PositionsInv'
<1>. SUFFICES ASSUME PositionsInv, [Next]_vars  PROVE PositionsInv'
  OBVIOUS
<1>1. CASE users' = users /\ accountLog' = accountLog /\ sessions' \subseteq sessions
  BY <1>1 DEF PositionsInv
<1>2. ASSUME NEW u \in Users, SignIn(u)  PROVE PositionsInv'
  <2>. DEFINE a == [userId |-> u, role |-> users[u].role, tier |-> users[u].tier]
  <2>1. a \in Actor /\ a.userId = u /\ a.role = users[u].role
    BY DEF PositionsInv, Actor, Account
  <2>2. users' = users /\ accountLog' = accountLog /\ sessions' = sessions \cup {a}
    BY <1>2 DEF SignIn
  <2>. HIDE DEF a
  <2>. QED
    BY <2>1, <2>2 DEF PositionsInv
<1>3. ASSUME NEW actor \in sessions, NEW u \in Users, NEW role \in Roles, assignRole(actor, u, role)
      PROVE  PositionsInv'
  <2>1. CASE users[u].role # role
    BY <1>3, <2>1, MoveKeepsPositions
  <2>2. CASE users[u].role = role
    <3>1. users' = users /\ accountLog' = accountLog /\ sessions' = sessions
      BY <1>3, <2>2 DEF assignRole, PositionsInv, Account
    <3>. QED
      BY <1>1, <3>1
  <2>. QED
    BY <2>1, <2>2
<1>4. CASE Restart
  <2>1. /\ users' \in [Users -> Account] /\ \A u \in Users : users'[u].role = users[u].role
        /\ accountLog' = accountLog /\ sessions' = sessions
    BY <1>4 DEF Restart, PositionsInv, Account, Tiers
  <2>. QED
    BY <2>1 DEF PositionsInv
<1>5. ASSUME NEW actor \in sessions, EndSession(actor) \/ markNotificationsRead(actor)
      PROVE  PositionsInv'
  BY <1>1, <1>5 DEF EndSession, markNotificationsRead
<1>6. ASSUME NEW actor \in sessions, RequesterStep(actor)  PROVE PositionsInv'
  BY <1>1, <1>6 DEF RequesterStep, createDraft, updateDraft, attachToRequest, detachFromRequest, Edit,
                    deleteDraft, submitRequest
<1>7. ASSUME NEW actor \in sessions, ReviewerStep(actor)  PROVE PositionsInv'
  BY <1>1, <1>7 DEF ReviewerStep, decideApprove, decideReject, financeApprove, financeReject
<1>8. CASE UNCHANGED vars
  BY <1>1, <1>8 DEF vars
<1>. QED
  BY <1>2, <1>3, <1>4, <1>5, <1>6, <1>7, <1>8 DEF Next, AccountStep

\* Every position is explained by the account log, entry by entry, however
\* many people are moved and however old the sessions are that move them:
\* nobody ever gave themselves a role, and whoever gave one was an
\* administrator by seed or by an earlier entry.
THEOREM PositionsExplained == Spec => []LogExplainsPositions
<1>1. Init => PositionsInv
  <2>. SUFFICES ASSUME Init  PROVE PositionsInv
    OBVIOUS
  <2>1. /\ users = InitialUsers /\ sessions = {} /\ accountLog = <<>> /\ Len(accountLog) = 0
        /\ accountLog \in Seq(LogEntry)
    BY DEF Init
  <2>2. \A u \in Users : RoleAfter(accountLog, u, 0) = users[u].role
    BY <2>1 DEF RoleAfter
  <2>3. \A u \in Users : isAdmin(users[u].role) => WasAdmin(accountLog, u, 0)
    BY <2>1 DEF WasAdmin
  <2>. QED
    BY <2>1, <2>2, <2>3, StoreAssumption DEF PositionsInv
<1>2. PositionsInv => LogExplainsPositions
  <2>. SUFFICES ASSUME PositionsInv  PROVE LogExplainsPositions
    OBVIOUS
  <2>1. DOMAIN accountLog = 1..Len(accountLog)
    BY DEF PositionsInv
  <2>. QED
    BY <2>1 DEF PositionsInv, LogExplainsPositions, EntryInOrder
<1>. QED
  BY <1>1, <1>2, StepKeepsPositions, PTL DEF Spec

-----------------------------------------------------------------------------
(* Who is told of a submission.                                            *)

\* The elements of a finite set, in some order, are all of them, each once.
LEMMA SetToSeqFinds ==
  ASSUME NEW S, IsFiniteSet(S)
  PROVE  /\ SetToSeq(S) \in [1..Cardinality(S) -> S]
         /\ \A x \in S : \E i \in 1..Cardinality(S) : SetToSeq(S)[i] = x
<1>. DEFINE n == Cardinality(S)
            s == SetToSeq(S)
<1>1. n \in Nat /\ ExistsBijection(1..n, S)
  BY FS_CardinalityType
<1>2. \E f \in [1..n -> S] : IsInjective(f)
  BY <1>1 DEF ExistsBijection, Bijection, Injection
<1>3. s \in [1..n -> S] /\ IsInjective(s)
  BY <1>2 DEF SetToSeq
<1>4. IsFiniteSet(1..n) /\ Cardinality(1..n) = n
  <2>. HIDE DEF n
  <2>. QED  BY <1>1, FS_Interval
<1>. HIDE DEF s
<1>5. s \in Injection(1..n, S)
  BY <1>3 DEF Injection
<1>6. s \in Surjection(1..n, S)
  BY <1>4, <1>5, FS_Injection
<1>. QED
  BY <1>3, <1>6 DEF Surjection, s

\* One notice for each recipient.
LEMMA OneNoticeEach ==
  ASSUME NEW kind, NEW id, NEW recipients \in SUBSET Users
  PROVE  LET N == {notice(kind, id, u) : u \in recipients}
         IN  IsFiniteSet(N) /\ Cardinality(N) = Cardinality(recipients)
<1>. DEFINE N == {notice(kind, id, u) : u \in recipients}
            f == [u \in recipients |-> notice(kind, id, u)]
<1>1. IsFiniteSet(recipients)
  BY StoreAssumption, FS_Subset
<1>2. \A u, v \in recipients : notice(kind, id, u) = notice(kind, id, v) => u = v
  BY DEF notice
<1>3. f \in Bijection(recipients, N)
  <2>1. f \in [recipients -> N]
    OBVIOUS
  <2>2. \A t \in N : \E u \in recipients : f[u] = t
    OBVIOUS
  <2>3. \A u, v \in recipients : f[u] = f[v] => u = v
    BY <1>2
  <2>. HIDE DEF f, N
  <2>. QED
    BY <2>1, <2>2, <2>3 DEF Bijection, Injection, Surjection, IsInjective
<1>. HIDE DEF f, N
<1>4. ExistsBijection(recipients, N)
  BY <1>3 DEF ExistsBijection
<1>. QED
  BY <1>1, <1>4, FS_Bijection DEF N

\* However long the bell was, what is added is at its end, and before it is
\* the end of what there was.
LEMMA BellEnds ==
  ASSUME NEW T, NEW new \in Seq(T), notifications \in Seq(T), notification(new),
         Len(new) <= MaxNotifications
  PROVE  LET older == Len(notifications') - Len(new)
         IN  /\ Len(notifications') \in Nat /\ older \in Nat
             /\ \A i \in 1..Len(new) : notifications'[older + i] = new[i]
             /\ IsSuffix(SubSeq(notifications', 1, older), notifications)
<1>. DEFINE old == notifications
            all == old \o new
            m == Len(old)
            n == Len(new)
            cut == IF m + n > MaxNotifications THEN (m + n) - MaxNotifications ELSE 0
            kept == notifications'
<1>1. /\ m \in Nat /\ n \in Nat /\ MaxNotifications \in Nat
      /\ all \in Seq(T) /\ Len(all) = m + n
      /\ \A i \in 1..m : all[i] = old[i]
      /\ \A i \in 1..n : all[m + i] = new[i]
  BY StoreAssumption
<1>2. kept = IF Len(all) - MaxNotifications > 0
             THEN SubSeq(all, Len(all) - MaxNotifications + 1, Len(all)) ELSE all
  BY DEF notification
<1>3. cut \in 0..m
  BY <1>1
<1>. HIDE DEF all
<1>4. /\ kept \in Seq(T) /\ Len(kept) = (m + n) - cut
      /\ \A i \in 1..((m + n) - cut) : kept[i] = all[cut + i]
  <2>a. PICK last : last = m + n
    OBVIOUS
  <2>b. last \in Nat /\ Len(all) = last /\ all \in Seq(T) /\ MaxNotifications \in Nat
    BY <1>1, <2>a
  <2>c. kept = IF last - MaxNotifications > 0 THEN SubSeq(all, last - MaxNotifications + 1, last) ELSE all
    BY <1>2, <2>b
  <2>1. CASE m + n > MaxNotifications
    <3>1. cut = last - MaxNotifications /\ last - MaxNotifications > 0
      BY <1>1, <2>1, <2>a
    <3>2. cut \in Nat /\ cut <= last
      BY <1>1, <1>3, <2>a
    <3>. HIDE DEF cut, n, m, kept
    <3>3. kept = SubSeq(all, cut + 1, last)
      BY <2>c, <3>1
    <3>4. \A i \in (cut + 1)..last : all[i] \in T
      BY <2>b, <3>2
    <3>5. /\ kept \in Seq(T) /\ Len(kept) = last - cut
          /\ \A i \in 1..(last - cut) : kept[i] = all[cut + i]
      BY <2>b, <3>2, <3>3, <3>4, SubSeqProperties
    <3>. QED
      BY <2>a, <3>5
  <2>2. CASE ~(m + n > MaxNotifications)
    <3>1. cut = 0 /\ ~(last - MaxNotifications > 0)
      BY <1>1, <2>2, <2>a
    <3>. HIDE DEF cut, n, m, kept
    <3>2. kept = all
      BY <2>c, <3>1
    <3>. QED
      BY <2>a, <2>b, <3>1, <3>2
  <2>. QED
    BY <2>1, <2>2
<1>. HIDE DEF cut
<1>5. Len(kept) - n = m - cut /\ m - cut \in Nat /\ Len(kept) \in Nat
  BY <1>1, <1>3, <1>4
<1>6. \A i \in 1..n : kept[(m - cut) + i] = new[i]
  <2>. SUFFICES ASSUME NEW i \in 1..n  PROVE kept[(m - cut) + i] = new[i]
    OBVIOUS
  <2>1. (m - cut) + i \in 1..((m + n) - cut) /\ cut + ((m - cut) + i) = m + i
    BY <1>1, <1>3
  <2>. QED
    BY <1>1, <1>4, <2>1
<1>7. IsSuffix(SubSeq(kept, 1, m - cut), old)
  <2>. DEFINE k == m - cut
              s == SubSeq(kept, 1, k)
  <2>1. k \in Nat /\ k <= m /\ k <= (m + n) - cut
    BY <1>1, <1>3
  <2>2. \A i \in 1..k : kept[i] = old[cut + i]
    <3>. SUFFICES ASSUME NEW i \in 1..k  PROVE kept[i] = old[cut + i]
      OBVIOUS
    <3>1. i \in 1..((m + n) - cut) /\ cut + i \in 1..m
      BY <1>1, <1>3
    <3>. QED
      BY <1>1, <1>4, <3>1
  <2>3. /\ s \in Seq(T) /\ Len(s) = k
        /\ \A i \in 1..k : s[i] = kept[i]
    <3>. HIDE DEF k, kept, m, n
    <3>1. \A i \in 1..k : kept[i] \in T
      BY <1>1, <1>3, <1>4, <2>1
    <3>. QED
      BY <1>1, <1>3, <1>4, <2>1, <3>1, SubSeqProperties
  <2>. HIDE DEF s, kept, n
  <2>4. /\ Reverse(s) = [i \in 1..k |-> s[k - i + 1]]
        /\ Reverse(old) = [i \in 1..m |-> old[m - i + 1]]
    BY <2>3 DEF Reverse
  <2>5. \A i \in 1..k : Reverse(s)[i] = Reverse(old)[i]
    <3>. SUFFICES ASSUME NEW i \in 1..k  PROVE Reverse(s)[i] = Reverse(old)[i]
      OBVIOUS
    <3>1. k - i + 1 \in 1..k /\ cut + (k - i + 1) = m - i + 1 /\ i \in 1..m
      BY <1>1, <1>3
    <3>2. s[k - i + 1] = old[cut + (k - i + 1)]
      BY <2>2, <2>3, <3>1
    <3>. QED
      BY <2>4, <3>1, <3>2
  <2>. HIDE DEF k, m
  <2>6. /\ Reverse(s) \in Seq(T) /\ Len(Reverse(s)) = k
        /\ Reverse(old) \in Seq(T) /\ Len(Reverse(old)) = m
    <3>1. Reverse(s) \in [1..k -> T]
      BY <2>1, <2>3, <2>4
    <3>2. Reverse(old) \in [1..m -> T]
      BY <1>1, <2>4 DEF m
    <3>. QED
      BY <1>1, <2>1, <3>1, <3>2
  <2>. DEFINE front == Reverse(s)
              whole == Reverse(old)
  <2>. HIDE DEF front, whole
  <2>7. SubSeq(front, 1, k) = SubSeq(whole, 1, k)
    BY <1>1, <2>1, <2>5, <2>6 DEF front, whole
  <2>8. IsSuffix(s, old)
    BY <2>1, <2>6, <2>7 DEF IsSuffix, IsPrefix, front, whole
  <2>. QED
    BY <2>8 DEF s, k
<1>. QED
  BY <1>5, <1>6, <1>7

\* Only a submission takes a request to gate 1.
LEMMA ArrivesBySubmission ==
  ASSUME StoreInv, [Next]_vars, NEW id \in DOMAIN requests, Arrives(id)
  PROVE  \E actor \in sessions : submitRequest(actor, id)
<1>1. /\ requests[id] \in Request /\ requests[id].status \in EDITABLE
      /\ requests'[id].status = "Pending Supervisor Approval"
  BY DEF StoreInv, RecordsGood, Arrives
<1>2. requests' # requests /\ requests'[id] # requests[id]
  BY <1>1 DEF EDITABLE
<1>3. ~AccountStep /\ ~UNCHANGED vars
  BY <1>2 DEF AccountStep, SignIn, EndSession, markNotificationsRead, assignRole, Restart, vars
<1>4. ASSUME NEW actor, NEW content, createDraft(actor, content)  PROVE FALSE
  BY <1>2, <1>4, CreateShape DEF Creates
<1>5. ASSUME NEW actor, NEW other \in DOMAIN requests, NEW q, Put(other, q)
      PROVE  other = id /\ q = requests'[id]
  BY <1>2, <1>5, PutChanges
<1>6. ASSUME NEW actor, NEW other \in DOMAIN requests,
             \/ \E content \in Contents : updateDraft(actor, other, content)
             \/ \E file \in Files : attachToRequest(actor, other, file) \/ detachFromRequest(actor, other, file)
      PROVE  FALSE
  <2>1. PICK q : Put(other, q) /\ IsEdit(actor, requests[other], q)
    BY <1>6, EditShape
  <2>2. IsEdit(actor, requests[id], requests'[id])
    BY <1>5, <2>1
  <2>. QED
    BY <1>1, <2>2 DEF IsEdit, EDITABLE, Request
<1>7. ASSUME NEW actor, NEW other \in DOMAIN requests, deleteDraft(actor, other)  PROVE FALSE
  BY <1>2, <1>7 DEF deleteDraft, Arrives
<1>8. ASSUME NEW actor, ReviewerStep(actor)  PROVE FALSE
  <2>1. PICK other \in DOMAIN requests :
          \/ decideApprove(actor, other) \/ decideReject(actor, other)
          \/ financeApprove(actor, other) \/ financeReject(actor, other)
    BY <1>8 DEF ReviewerStep
  <2>2. \E q : /\ Put(other, q)
               /\ \/ IsSignature(actor, requests[other], q) \/ IsClearance(actor, requests[other], q)
                  \/ IsReturn(actor, requests[other], q)
    BY <2>1, ApproveShape, ClearShape, ReturnShape
  <2>3. other = id
    BY <1>5, <2>2
  <2>. QED
    BY <1>1, <2>2, <2>3 DEF IsSignature, IsClearance, IsReturn, EDITABLE
<1>9. PICK actor \in sessions : RequesterStep(actor)
  BY <1>3, <1>8 DEF Next
<1>10. PICK other \in DOMAIN requests : submitRequest(actor, other)
  BY <1>4, <1>6, <1>7, <1>9 DEF RequesterStep
<1>11. other = id
  BY <1>5, <1>10 DEF submitRequest
<1>. QED
  BY <1>10, <1>11

\* approversFor picks whoever could sign in now and pass the checks of
\* decideRequest.
LEMMA TheyCouldSign ==
  ASSUME StoreInv, NEW actor, NEW id \in DOMAIN requests, submitRequest(actor, id)
  PROVE  approversFor(Submitted(requests[id], actor)) = {u \in Users : CouldSign(u, id)'}
<1>. DEFINE q == Submitted(requests[id], actor)
<1>1. requests[id] \in Request
  BY DEF StoreInv, RecordsGood
<1>2. /\ users' = users /\ Put(id, q)
  BY DEF submitRequest
<1>3. q.status = "Pending Supervisor Approval" /\ q.requesterSigned
  BY <1>1 DEF Submitted, Request
<1>. HIDE DEF q
<1>4. id \in DOMAIN requests' /\ requests'[id] = q
  BY <1>2, PutChanges
<1>5. ASSUME NEW u \in Users
      PROVE  CouldSign(u, id)' <=> /\ isApprover(users[u].role)
                                   /\ u # q.ownerId
                                   /\ tierLimit(users[u].tier) >= tierLimit(requiredAuthority(q))
  <2>a. PICK who : who = [userId |-> u, role |-> users[u].role, tier |-> users[u].tier]
    OBVIOUS
  <2>1. who.userId = u /\ who.role = users[u].role /\ who.tier = users[u].tier
    BY <2>a
  <2>2. CouldSign(u, id)' <=> MayDecide(who, id)' /\ MaySign(who, q)
    BY <1>2, <1>4, <2>a DEF CouldSign
  <2>3. MayDecide(who, id)' <=> /\ assertCanMutateRequests(who) /\ isApprover(who.role)
                                /\ visibleTo(who, q) /\ q.ownerId # who.userId
    BY <1>3, <1>4 DEF MayDecide, locate
  <2>4. isApprover(who.role) => assertCanMutateRequests(who) /\ visibleTo(who, q)
    BY <1>3 DEF isApprover, assertCanMutateRequests, visibleTo
  <2>. QED
    BY <1>3, <2>1, <2>2, <2>3, <2>4 DEF MaySign
<1>. QED
  BY <1>5 DEF approversFor, q

\* A step that takes a request to gate 1 tells the people who could sign it.
ToldStep ==
  \A id \in DOMAIN requests :
    Arrives(id) =>
      LET signers == {u \in Users : CouldSign(u, id)'}
          older   == Len(notifications') - Cardinality(signers)
      IN  /\ IsSuffix(SubSeq(notifications', 1, older), notifications)
          /\ {notifications'[i] : i \in older + 1 .. Len(notifications')}
             = {notice("submitted", id, u) : u \in signers}

\* No step but a submission takes a request to gate 1, and that one tells them.
LEMMA StepsTell ==
  ASSUME Cardinality(Users) <= MaxNotifications, StoreInv, [Next]_vars
  PROVE  ToldStep
<1>. SUFFICES ASSUME NEW id \in DOMAIN requests, Arrives(id), NEW signers, signers = {u \in Users : CouldSign(u, id)'}
              PROVE  LET older == Len(notifications') - Cardinality(signers)
                     IN  /\ IsSuffix(SubSeq(notifications', 1, older), notifications)
                         /\ {notifications'[i] : i \in older + 1 .. Len(notifications')}
                            = {notice("submitted", id, u) : u \in signers}
  BY DEF ToldStep
<1>1. PICK actor \in sessions : submitRequest(actor, id)
  BY ArrivesBySubmission
<1>2. notification(noticesTo("submitted", id, signers)) /\ signers \in SUBSET Users
  BY <1>1, TheyCouldSign DEF submitRequest
<1>. DEFINE N == {notice("submitted", id, u) : u \in signers}
            new == SetToSeq(N)
            n == Cardinality(signers)
<1>3. IsFiniteSet(N) /\ Cardinality(N) = n
  BY <1>2, OneNoticeEach
<1>4. n \in Nat /\ n <= MaxNotifications
  <2>1. IsFiniteSet(Users) /\ Cardinality(Users) \in Nat /\ MaxNotifications \in Nat
    BY StoreAssumption, FS_CardinalityType
  <2>2. IsFiniteSet(signers) /\ n <= Cardinality(Users)
    BY <1>2, <2>1, FS_Subset
  <2>3. n \in Nat
    BY <2>2, FS_CardinalityType
  <2>. QED
    BY <2>1, <2>2, <2>3
<1>5. N \in SUBSET Notice
  <2>1. id \in Nat
    BY StoreAssumption DEF StoreInv, RecordsGood
  <2>. QED
    BY <1>2, <2>1, NoticeShape
<1>6. notification(new)
  BY <1>2 DEF noticesTo
<1>. HIDE DEF N, n
<1>7. new \in [1..n -> N] /\ \A x \in N : \E i \in 1..n : new[i] = x
  BY <1>3, SetToSeqFinds
<1>. HIDE DEF new
<1>8. new \in Seq(Notice) /\ Len(new) = n
  BY <1>4, <1>5, <1>7
<1>9. notifications \in Seq(Notice)
  BY DEF StoreInv
<1>. DEFINE older == Len(notifications') - n
<1>10. /\ Len(notifications') \in Nat /\ older \in Nat
       /\ \A i \in 1..n : notifications'[older + i] = new[i]
       /\ IsSuffix(SubSeq(notifications', 1, older), notifications)
  BY <1>4, <1>6, <1>8, <1>9, BellEnds
<1>11. {notifications'[i] : i \in older + 1 .. Len(notifications')} = N
  <2>1. ASSUME NEW i \in older + 1 .. Len(notifications')
        PROVE  notifications'[i] \in N
    <3>1. i - older \in 1..n /\ older + (i - older) = i
      BY <1>4, <1>10
    <3>. QED
      BY <1>7, <1>10, <3>1
  <2>2. ASSUME NEW x \in N
        PROVE  \E i \in older + 1 .. Len(notifications') : notifications'[i] = x
    <3>1. PICK j \in 1..n : new[j] = x
      BY <1>7
    <3>2. older + j \in older + 1 .. Len(notifications')
      BY <1>4, <1>10
    <3>. QED
      BY <1>10, <3>1, <3>2
  <2>. HIDE DEF older
  <2>. QED
    BY <2>1, <2>2
<1>. QED
  BY <1>10, <1>11 DEF N, n

\* Whenever a request is submitted, the newest notices of the bell are those
\* to the accounts that could sign it and to nobody else (approversFor and
\* decideRequest agree), as long as the bell keeps as many notices as there
\* are people: it keeps 2000, and with more signers than that some would be
\* told nothing.
THEOREM SignersAreReached ==
  ASSUME Cardinality(Users) <= MaxNotifications
  PROVE  Spec => SubmissionReachesItsSigners
<1>1. StoreInv /\ [Next]_vars => [ToldStep]_vars
  BY StepsTell
<1>. QED
  BY <1>1, StoreInvAlways, PTL DEF Spec, SubmissionReachesItsSigners, ToldStep
=============================================================================
