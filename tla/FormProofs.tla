----------------------------- MODULE FormProofs -----------------------------
(***************************************************************************)
(* Proofs about Form: what the editor, the local copy and the record keep  *)
(* of each other, for every workbook, every text and amount that may be    *)
(* typed, and any number of lines and edits.                               *)
(***************************************************************************)
EXTENDS Form, FiniteSetTheorems, WellFoundedInduction, TLAPS

-----------------------------------------------------------------------------
(* The invariant.                                                          *)

Funded(f) == f.funding # "" => f.funding \in choices(f.site) \/ <<f.site, f.funding>> \in typed

\* Forms that add up, with a funding source that belongs to their site.
GoodForms == {f \in FormType : f.amount = grandTotal(f.lines) /\ Funded(f)}

SavedLines ==
  {l \in [description : Items \ {""}, expenseType : Expenses, unitPrice : 0..MaxAmount] :
    l.unitPrice % 10 = 0}

Codes == {Rows[i].siteCode : i \in DOMAIN Rows} \cup {""}

RecordType ==
  [site : Names \cup {""}, siteCode : Codes, funding : Fundings \cup {""},
   customSite : BOOLEAN, customFunding : BOOLEAN, plain : [Plain -> {"", "good", "bad"}],
   lineItems : {q \in Seq(SavedLines) : Len(q) <= MaxLines}, amount : Nat,
   description : Seq(Items), expenseType : Expenses,
   status : {"None", "Draft", "Pending Supervisor Approval"}]

\* The same of what is saved, whose site code is that of its site.
GoodRecords ==
  {r \in RecordType : r.amount = total(r.lineItems) /\ r.siteCode = siteCode(r) /\ Funded(r)}

NoneOrOne(q, S) == q = <<>> \/ (q = <<q[1]>> /\ q[1] \in S)

\* Sites with funding sources.
Pairs == (Names \cup {""}) \X Fundings

FormsFit ==
  /\ form \in GoodForms /\ baseline \in FormType /\ synced \in FormType
  /\ timers \in [Combos -> {NoTimer} \cup [text : Texts, form : GoodForms]]
  /\ NoneOrOne(buffer, GoodForms) /\ NoneOrOne(signed, GoodForms)
  /\ record \in GoodRecords
  /\ open \in BOOLEAN /\ overlaid \in BOOLEAN /\ edits \in 0..MaxEdits
  /\ typed \subseteq Pairs

\* What the record has of a form, as far as the client reads it back.
Agrees(r, f) ==
  /\ \A field \in DOMAIN r \ {"plain", "status"} : r[field] = shape(f)[field]
  /\ \A p \in Plain \ Unseen : r.plain[p] = f.plain[p]

\* While an editor is open or its copy is kept, the record is as it was when
\* it was last read or written.
ReadBack == record.status = "Draft" /\ (open \/ buffer # <<>>) => Agrees(record, synced)

\* What was signed is what is saved, and nothing was found wrong with it.
SignedFits ==
  signed # <<>> /\ ~overlaid => record = shape(signed[1]) /\ findProblems(signed[1]) = {}

SubmittedFits == record.status = "Pending Supervisor Approval" => ~open /\ signed = <<>>

FormInv == FormsFit /\ ReadBack /\ SignedFits /\ SubmittedFits /\ SubmittedKeepsTheRules

-----------------------------------------------------------------------------
(* Numbers, lines and sums.                                                *)

\* What the constants are assumed to be, part by part.
LEMMA Limits == MaxAmount \in Nat /\ MaxAmount % 10 = 0 /\ MaxLines \in Nat /\ MaxEdits \in Nat
<1>1. MaxAmount \in Nat /\ MaxAmount % 10 = 0 /\ {MaxLines, MaxEdits} \subseteq Nat
  BY Zenon, FormAssumption DEF FormAssumption
<1>. QED
  BY <1>1

\* What the rows of the workbook and the funding periods are.
LEMMA Workbook ==
  /\ DOMAIN Rows \subseteq Nat
  /\ \A i \in DOMAIN Rows :
       Rows[i].site \in STRING /\ Rows[i].siteCode \in STRING /\ Rows[i].fundingSource \in STRING
  /\ DOMAIN Periods \subseteq Nat /\ 1 \in DOMAIN Periods
<1>. DEFINE Row == [site : STRING, siteCode : STRING, fundingSource : STRING]
<1>1. Rows \in Seq(Row)
  BY Zenon, FormAssumption DEF FormAssumption
<1>2. Periods \in Seq(STRING) /\ Periods # <<>>
  BY Zenon, FormAssumption DEF FormAssumption
<1>3. DOMAIN Rows \subseteq Nat /\ \A i \in DOMAIN Rows : Rows[i] \in Row
  <2>. HIDE DEF Row
  <2>. QED
    BY <1>1
<1>4. DOMAIN Periods \subseteq Nat /\ 1 \in DOMAIN Periods
  BY <1>2
<1>. QED
  BY <1>3, <1>4

\* A set of natural numbers that is not empty has a least one.
LEMMA LeastOf ==
  ASSUME NEW S \in SUBSET Nat, S # {}
  PROVE  Min(S) \in S /\ \A n \in S : Min(S) <= n
<1>. DEFINE R == OpToRel(<, Nat)
<1>1. IsWellFoundedOn(R, Nat)
  BY NatLessThanWellFounded
<1>2. \A m, n \in Nat : <<n, m>> \in R <=> n < m
  BY DEF OpToRel
<1>. HIDE DEF R
<1>3. PICK m \in S : \A n \in S : <<n, m>> \notin R
  BY <1>1, WFMin
<1>4. \A n \in S : ~(n < m)
  BY <1>2, <1>3
<1>5. \A n \in S : m <= n
  BY <1>4
<1>. QED
  BY <1>5 DEF Min

\* amountOf drops what is no amount and caps the rest,
LEMMA AmountFits ==
  ASSUME NEW a \in Seq(Int)
  PROVE  amountOf(a) \in 0..MaxAmount
<1>1. CASE a = <<>> \/ a[1] <= 0
  BY <1>1, Limits DEF amountOf
<1>2. CASE ~(a = <<>> \/ a[1] <= 0)
  <2>1. a[1] \in Int /\ a[1] > 0
    BY <1>2
  <2>2. {a[1], MaxAmount} \in SUBSET Nat
    BY <2>1, Limits
  <2>3. Min({a[1], MaxAmount}) \in Nat /\ Min({a[1], MaxAmount}) <= MaxAmount
    BY <2>2, LeastOf
  <2>. QED
    BY <1>2, <2>3 DEF amountOf
<1>. QED
  BY <1>1, <1>2

\* keeps what it made before,
LEMMA AmountKept ==
  ASSUME NEW n \in 0..MaxAmount
  PROVE  <<n>> \in Seq(Int) /\ amountOf(<<n>>) = n
<1>1. CASE n = 0
  BY <1>1 DEF amountOf
<1>2. CASE n # 0
  <2>1. {n, MaxAmount} \in SUBSET Nat /\ n <= MaxAmount /\ n > 0
    BY <1>2, Limits
  <2>2. Min({n, MaxAmount}) = n
    BY <2>1, LeastOf, Limits
  <2>. QED
    BY <2>1, <2>2 DEF amountOf
<1>. QED
  BY <1>1, <1>2

\* and rounding an amount to whole cents stays below the limit and does
\* nothing the second time.
LEMMA MoneyFits ==
  ASSUME NEW n \in 0..MaxAmount
  PROVE  /\ money(n) \in 0..MaxAmount /\ money(n) % 10 = 0
         /\ n % 10 = 0 => money(n) = n
BY Limits DEF money

\* The lines of a form are a finite set, and so is every part of it.
LEMMA LinesFinite ==
  ASSUME NEW S \in SUBSET LineNos
  PROVE  IsFiniteSet(S) /\ Cardinality(S) \in 0..MaxLines
<1>1. IsFiniteSet(LineNos) /\ Cardinality(LineNos) = MaxLines
  BY FS_Interval, Limits DEF LineNos
<1>2. IsFiniteSet(S) /\ Cardinality(S) <= MaxLines
  BY <1>1, FS_Subset
<1>. QED
  BY <1>2, FS_CardinalityType, Limits

\* nth finds a line of the set for each of its places,
LEMMA NthIsOne ==
  ASSUME NEW S \in SUBSET LineNos, NEW n \in 1..Cardinality(S)
  PROVE  nth(S, n) \in S
<1>. DEFINE upTo(i) == {j \in S : j <= i}
            Enough  == {i \in Nat : Cardinality(upTo(i)) >= n}
<1>0. \A j \in S : j \in Nat /\ j > 0 /\ j <= MaxLines
  BY Limits DEF LineNos
<1>1. IsFiniteSet(S) /\ Cardinality(S) \in Nat /\ MaxLines \in Nat
  BY LinesFinite, Limits
<1>2. \A i : IsFiniteSet(upTo(i)) /\ Cardinality(upTo(i)) \in Nat
  BY LinesFinite
<1>3. upTo(MaxLines) = S
  BY <1>0
<1>4. Enough # {}
  BY <1>1, <1>3
<1>. HIDE DEF Enough
<1>5. PICK k \in Enough : \A i \in Enough : k <= i
  BY <1>4, LeastOf DEF Enough
<1>6. k \in Nat /\ Cardinality(upTo(k)) >= n /\ \A i \in Nat : i < k => Cardinality(upTo(i)) < n
  BY <1>1, <1>2, <1>5 DEF Enough
<1>7. upTo(0) = {}
  BY <1>0
<1>8. k # 0
  BY <1>6, <1>7, FS_EmptySet
<1>9. k - 1 \in Nat /\ Cardinality(upTo(k - 1)) < n
  BY <1>6, <1>8
<1>10. k \in S /\ Cardinality(upTo(k)) = n
  <2>1. CASE k \in S
    <3>0. \A j \in S : j <= k <=> j <= k - 1 \/ j = k
      BY <1>0, <1>6
    <3>1. upTo(k) = upTo(k - 1) \cup {k}
      BY <2>1, <3>0
    <3>2. k \notin upTo(k - 1) /\ IsFiniteSet(upTo(k - 1))
      <4>1. ~(k <= k - 1)
        BY <1>6
      <4>. QED
        BY <1>2, <4>1
    <3>. HIDE DEF upTo
    <3>3. Cardinality(upTo(k)) = Cardinality(upTo(k - 1)) + 1
      BY <3>1, <3>2, FS_AddElement
    <3>. QED
      BY <1>2, <1>6, <1>9, <2>1, <3>3, Limits
  <2>2. CASE k \notin S
    <3>0. \A j \in S : j <= k <=> j <= k - 1
      BY <1>0, <1>6, <2>2
    <3>1. upTo(k) = upTo(k - 1)
      BY <3>0
    <3>. QED
      BY <1>2, <1>6, <1>9, <3>1
  <2>. QED
    BY <2>1, <2>2
<1>. QED
  BY <1>10 DEF nth

\* and of the first lines of a form the one with that number.
LEMMA NthOfFirst ==
  ASSUME NEW k \in 0..MaxLines
  PROVE  Cardinality(1..k) = k /\ \A n \in 1..k : nth(1..k, n) = n
<1>1. \A i \in 0..k : Cardinality(1..i) = i
  BY FS_Interval, Limits
<1>2. \A i \in 1..k : {j \in 1..k : j <= i} = 1..i
  BY Limits
<1>3. \A i \in 1..k : Cardinality({j \in 1..k : j <= i}) = i
  <2>. TAKE i \in 1..k
  <2>1. {j \in 1..k : j <= i} = 1..i /\ i \in 0..k
    BY <1>2, Limits
  <2>. QED
    BY <1>1, <2>1
<1>4. \A i, n \in 1..k : Cardinality({j \in 1..k : j <= i}) = n <=> i = n
  BY <1>3
<1>. QED
  BY <1>1, <1>4 DEF nth

\* A table of sums: for every part of D the sum of v over it, built up the
\* way the sums of the model are.
one(s) == CHOOSE x \in s : TRUE

AddsUp(g, v, D) == \A s \in SUBSET D : g[s] = IF s = {} THEN 0 ELSE v[one(s)] + g[s \ {one(s)}]

Sums(g, v, D) == v \in [D -> Nat] /\ g \in [SUBSET D -> Nat] /\ AddsUp(g, v, D)

\* Every finite set of amounts has such a table.
LEMMA SumsExist ==
  ASSUME NEW D, IsFiniteSet(D), NEW v \in [D -> Nat]
  PROVE  \E g : Sums(g, v, D)
<1>. DEFINE upTo(n) == {s \in SUBSET D : Cardinality(s) <= n}
            Table(g, n) == /\ g \in [upTo(n) -> Nat]
                           /\ \A s \in upTo(n) : g[s] = IF s = {} THEN 0 ELSE v[one(s)] + g[s \ {one(s)}]
            Missing == {n \in Nat : ~\E g : Table(g, n)}
<1>1. \A s \in SUBSET D : /\ IsFiniteSet(s) /\ Cardinality(s) \in Nat /\ Cardinality(s) <= Cardinality(D)
                          /\ s # {} => /\ one(s) \in s /\ s \ {one(s)} \in SUBSET D
                                       /\ Cardinality(s \ {one(s)}) = Cardinality(s) - 1
                          /\ Cardinality(s) = 0 <=> s = {}
  BY FS_Subset, FS_CardinalityType, FS_RemoveElement, FS_EmptySet DEF one
<1>0. \A s \in SUBSET D : Cardinality(s) \in Nat /\ (Cardinality(s) = 0 <=> s = {})
  BY <1>1
<1>2. Missing = {}
  <2>1. SUFFICES ASSUME Missing # {} PROVE FALSE
    OBVIOUS
  <2>. HIDE DEF Missing
  <2>2. PICK n \in Missing : \A m \in Missing : n <= m
    BY <2>1, LeastOf DEF Missing
  <2>3. n \in Nat /\ ~\E g : Table(g, n)
    BY <2>2 DEF Missing
  <2>4. CASE n = 0
    <3>0. \A s \in SUBSET D : Cardinality(s) <= 0 <=> s = {}
      BY <1>0
    <3>1. upTo(0) = {{}}
      BY <3>0
    <3>2. Table([s \in upTo(0) |-> 0], 0)
      BY <3>1
    <3>. QED
      BY <2>3, <2>4, <3>2
  <2>5. CASE n # 0
    <3>1. n - 1 \in Nat /\ n - 1 \notin Missing
      BY <2>2, <2>3, <2>5
    <3>2. PICK g : Table(g, n - 1)
      BY <3>1 DEF Missing
    <3>. DEFINE h == [s \in upTo(n) |-> IF s \in upTo(n - 1) THEN g[s] ELSE v[one(s)] + g[s \ {one(s)}]]
    <3>3. \A s \in upTo(n) : s # {} => s \ {one(s)} \in upTo(n - 1) /\ v[one(s)] \in Nat
      BY <1>1, <2>3
    <3>4. \A s \in upTo(n) : s \notin upTo(n - 1) => s # {}
      BY <1>0, <3>1
    <3>5. \A s \in upTo(n - 1) : s \in upTo(n)
      BY <1>0, <2>3
    <3>6. \A s \in upTo(n - 1) : g[s] \in Nat /\ h[s] = g[s]
      BY <3>2, <3>5
    <3>7. \A s \in upTo(n) : h[s] = IF s = {} THEN 0 ELSE v[one(s)] + h[s \ {one(s)}]
      <4>1. TAKE s \in upTo(n)
      <4>2. CASE s \in upTo(n - 1)
        <5>1. g[s] = IF s = {} THEN 0 ELSE v[one(s)] + g[s \ {one(s)}]
          BY <3>2, <4>2
        <5>. HIDE DEF upTo, h
        <5>. QED
          BY <3>3, <3>6, <4>1, <4>2, <5>1
      <4>3. CASE s \notin upTo(n - 1)
        <5>1. h[s] = v[one(s)] + g[s \ {one(s)}]
          BY <4>1, <4>3
        <5>. HIDE DEF upTo, h
        <5>. QED
          BY <3>3, <3>4, <3>6, <4>1, <4>3, <5>1
      <4>. QED
        BY <4>2, <4>3
    <3>8. h \in [upTo(n) -> Nat]
      <4>1. \A s \in upTo(n) : s \notin upTo(n - 1) => v[one(s)] + g[s \ {one(s)}] \in Nat
        <5>. HIDE DEF upTo, h
        <5>. QED
          BY <3>3, <3>4, <3>6
      <4>2. \A s \in upTo(n) : (IF s \in upTo(n - 1) THEN g[s] ELSE v[one(s)] + g[s \ {one(s)}]) \in Nat
        <5>. HIDE DEF upTo, h
        <5>. QED
          BY <3>6, <4>1
      <4>. HIDE DEF upTo
      <4>. QED
        BY <4>2
    <3>. QED
      BY <2>3, <3>7, <3>8
  <2>. QED
    BY <2>4, <2>5
<1>3. Cardinality(D) \in Nat
  BY FS_CardinalityType
<1>4. PICK g : Table(g, Cardinality(D))
  BY <1>2, <1>3
<1>5. upTo(Cardinality(D)) = SUBSET D
  BY <1>1
<1>. QED
  BY <1>4, <1>5 DEF Sums, AddsUp

\* It is the only one, and so is what depends only on the amounts of a part,
LEMMA SumsUnique ==
  ASSUME NEW D, IsFiniteSet(D), NEW E \in SUBSET D, NEW v, NEW w, \A x \in E : v[x] = w[x],
         NEW g, AddsUp(g, v, D), NEW h, AddsUp(h, w, E)
  PROVE  \A s \in SUBSET E : g[s] = h[s]
<1>. DEFINE Wrong == {Cardinality(s) : s \in {s \in SUBSET E : g[s] # h[s]}}
<1>1. \A s \in SUBSET E : /\ IsFiniteSet(s) /\ Cardinality(s) \in Nat /\ s \in SUBSET D
                          /\ s # {} => /\ one(s) \in s /\ s \ {one(s)} \in SUBSET E
                                       /\ Cardinality(s \ {one(s)}) = Cardinality(s) - 1
  BY FS_Subset, FS_CardinalityType, FS_RemoveElement DEF one
<1>2. SUFFICES ASSUME Wrong # {} PROVE FALSE
  OBVIOUS
<1>3. Wrong \in SUBSET Nat
  BY <1>1
<1>. HIDE DEF Wrong
<1>4. PICK n \in Wrong : \A m \in Wrong : n <= m
  BY <1>2, <1>3, LeastOf
<1>5. PICK s \in SUBSET E : g[s] # h[s] /\ n = Cardinality(s)
  BY <1>4 DEF Wrong
<1>6. s # {}
  BY <1>1, <1>5 DEF AddsUp
<1>7. g[s] = v[one(s)] + g[s \ {one(s)}] /\ h[s] = w[one(s)] + h[s \ {one(s)}]
  BY <1>1, <1>5, <1>6 DEF AddsUp
<1>8. Cardinality(s \ {one(s)}) \notin Wrong
  BY <1>1, <1>4, <1>5, <1>6, <1>3
<1>9. g[s \ {one(s)}] = h[s \ {one(s)}]
  BY <1>1, <1>6, <1>8 DEF Wrong
<1>10. v[one(s)] = w[one(s)]
  BY <1>1, <1>6
<1>. QED
  BY <1>5, <1>7, <1>9, <1>10

AnyOrder(g, v, D) == \A s \in SUBSET D : \A x \in s : g[s] = v[x] + g[s \ {x}]

\* and it does not matter which amount is added last.
LEMMA SumsAnyOrder ==
  ASSUME NEW D, IsFiniteSet(D), NEW v, NEW g, Sums(g, v, D)
  PROVE  AnyOrder(g, v, D)
<1>. DEFINE Fine(s) == \A x \in s : g[s] = v[x] + g[s \ {x}]
            Wrong == {Cardinality(s) : s \in {s \in SUBSET D : ~Fine(s)}}
<1>1. \A s \in SUBSET D : /\ IsFiniteSet(s) /\ Cardinality(s) \in Nat
                          /\ s # {} => one(s) \in s
                          /\ \A x \in s : s \ {x} \in SUBSET D /\ Cardinality(s \ {x}) = Cardinality(s) - 1
  BY FS_Subset, FS_CardinalityType, FS_RemoveElement DEF one
<1>2. SUFFICES ASSUME Wrong # {} PROVE FALSE
  BY DEF AnyOrder
<1>3. Wrong \in SUBSET Nat
  BY <1>1
<1>. HIDE DEF Wrong
<1>4. PICK n \in Wrong : \A m \in Wrong : n <= m
  BY <1>2, <1>3, LeastOf
<1>5. PICK s \in SUBSET D : ~Fine(s) /\ n = Cardinality(s)
  BY <1>4 DEF Wrong
<1>6. PICK x \in s : g[s] # v[x] + g[s \ {x}]
  BY <1>5
<1>. DEFINE c == one(s)
<1>7. c \in s /\ g[s] = v[c] + g[s \ {c}]
  BY <1>1, <1>6 DEF Sums, AddsUp
<1>8. c # x
  BY <1>6, <1>7
<1>. HIDE DEF c
<1>9. \A y \in s : Fine(s \ {y})
  <2>1. TAKE y \in s
  <2>2. s \ {y} \in SUBSET D /\ Cardinality(s \ {y}) = n - 1 /\ n \in Nat
    BY <1>1, <1>5, <2>1
  <2>3. n - 1 \notin Wrong
    BY <1>4, <1>3, <2>2
  <2>. QED
    BY <2>2, <2>3 DEF Wrong
<1>10. g[s \ {c}] = v[x] + g[(s \ {c}) \ {x}] /\ g[s \ {x}] = v[c] + g[(s \ {x}) \ {c}]
  BY <1>6, <1>7, <1>8, <1>9
<1>11. (s \ {c}) \ {x} = (s \ {x}) \ {c}
  OBVIOUS
<1>12. v[x] \in Nat /\ v[c] \in Nat /\ g[(s \ {x}) \ {c}] \in Nat
  BY <1>1, <1>6, <1>7 DEF Sums
<1>13. v[c] + (v[x] + g[(s \ {x}) \ {c}]) = v[x] + (v[c] + g[(s \ {x}) \ {c}])
  BY <1>12
<1>. QED
  BY <1>6, <1>7, <1>10, <1>11, <1>13

\* The grand total of a form is what the table of its amounts says,
LEMMA GrandTotalIs ==
  ASSUME NEW lines, NEW v, v = [i \in LineNos |-> amountOf(lines[i].amount)],
         NEW g, Sums(g, v, LineNos)
  PROVE  grandTotal(lines) = g[LineNos]
<1>. DEFINE Iter(t) == t = [s \in SUBSET LineNos |->
              IF s = {} THEN 0 ELSE amountOf(lines[CHOOSE x \in s : TRUE].amount) + t[s \ {CHOOSE x \in s : TRUE}]]
            t0 == CHOOSE t : Iter(t)
<1>1. grandTotal(lines) = t0[LineNos]
  BY DEF grandTotal, MapThenSumSet, MapThenFoldSet
<1>2. \A s \in SUBSET LineNos : s # {} => one(s) \in LineNos /\ v[one(s)] = amountOf(lines[one(s)].amount)
  BY DEF one
<1>3. g = [s \in SUBSET LineNos |-> IF s = {} THEN 0 ELSE amountOf(lines[one(s)].amount) + g[s \ {one(s)}]]
  BY <1>2 DEF Sums, AddsUp
<1>4. Iter(g)
  BY <1>3 DEF one
<1>5. Iter(t0)
  BY <1>4
<1>. HIDE DEF t0
<1>6. AddsUp(t0, v, LineNos)
  BY <1>2, <1>5 DEF AddsUp, one
<1>7. g[LineNos] = t0[LineNos]
  <2>1. IsFiniteSet(LineNos) /\ LineNos \in SUBSET LineNos /\ AddsUp(g, v, LineNos)
    BY LinesFinite DEF Sums
  <2>2. \A s \in SUBSET LineNos : g[s] = t0[s]
    BY <1>6, <2>1, SumsUnique
  <2>. QED
    BY <2>1, <2>2
<1>. QED
  BY <1>1, <1>7

\* the total of a record what the table of its lines says,
LEMMA TotalIs ==
  ASSUME NEW k \in 0..MaxLines, NEW q, DOMAIN q = 1..k, NEW v, v = [i \in 1..k |-> q[i].unitPrice],
         NEW g, Sums(g, v, 1..k)
  PROVE  total(q) = g[1..k]
<1>. DEFINE Iter(t) == t = [s \in SUBSET (1..k) |->
              IF s = {} THEN 0 ELSE q[CHOOSE x \in s : TRUE].unitPrice + t[s \ {CHOOSE x \in s : TRUE}]]
            t0 == CHOOSE t : Iter(t)
<1>0. total(q) = MapThenSumSet(LAMBDA i : q[i].unitPrice, 1..k)
  BY DEF total
<1>1. total(q) = t0[1..k]
  BY <1>0 DEF MapThenSumSet, MapThenFoldSet
<1>2. \A s \in SUBSET (1..k) : s # {} => one(s) \in 1..k /\ v[one(s)] = q[one(s)].unitPrice
  BY DEF one
<1>3. g = [s \in SUBSET (1..k) |-> IF s = {} THEN 0 ELSE q[one(s)].unitPrice + g[s \ {one(s)}]]
  BY <1>2 DEF Sums, AddsUp
<1>4. Iter(g)
  BY <1>3 DEF one
<1>5. Iter(t0)
  BY <1>4
<1>. HIDE DEF t0
<1>6. AddsUp(t0, v, 1..k)
  BY <1>2, <1>5 DEF AddsUp, one
<1>7. 1..k \in SUBSET LineNos
  BY Limits DEF LineNos
<1>8. g[1..k] = t0[1..k]
  <2>. DEFINE D == 1..k
  <2>1. IsFiniteSet(D) /\ D \in SUBSET D /\ AddsUp(g, v, D) /\ AddsUp(t0, v, D)
    BY <1>6, <1>7, LinesFinite DEF Sums
  <2>. HIDE DEF D
  <2>2. \A s \in SUBSET D : g[s] = t0[s]
    BY <2>1, SumsUnique
  <2>. QED
    BY <2>1, <2>2 DEF D
<1>. QED
  BY <1>1, <1>8

\* and blank lines add nothing to it.
LEMMA BlanksAddNothing ==
  ASSUME NEW k \in 0..MaxLines,
         NEW v, \A i \in LineNos : i > k => v[i] = 0,
         NEW w, \A i \in 1..k : w[i] = v[i],
         NEW g, Sums(g, v, LineNos), NEW h, Sums(h, w, 1..k)
  PROVE  g[LineNos] = h[1..k]
<1>. DEFINE Wrong == {Cardinality(s) : s \in {s \in SUBSET LineNos : g[s] # h[s \cap (1..k)]}}
<1>0. 1..k \in SUBSET LineNos
  BY Limits DEF LineNos
<1>6. AnyOrder(h, w, 1..k)
  BY <1>0, LinesFinite, SumsAnyOrder
<1>1. \A s \in SUBSET LineNos : /\ IsFiniteSet(s) /\ Cardinality(s) \in Nat
                                /\ s # {} => /\ one(s) \in s /\ s \ {one(s)} \in SUBSET LineNos
                                             /\ Cardinality(s \ {one(s)}) = Cardinality(s) - 1
  <2>1. TAKE s \in SUBSET LineNos
  <2>2. IsFiniteSet(s) /\ Cardinality(s) \in Nat
    BY LinesFinite, Limits
  <2>3. s # {} => one(s) \in s
    BY DEF one
  <2>. QED
    BY <2>2, <2>3, FS_RemoveElement
<1>2. Wrong = {}
  <2>1. SUFFICES ASSUME Wrong # {} PROVE FALSE
    OBVIOUS
  <2>2. Wrong \in SUBSET Nat
    BY <1>1
  <2>. HIDE DEF Wrong
  <2>3. PICK n \in Wrong : \A m \in Wrong : n <= m
    BY <2>1, <2>2, LeastOf
  <2>4. PICK s \in SUBSET LineNos : g[s] # h[s \cap (1..k)] /\ n = Cardinality(s)
    BY <2>3 DEF Wrong
  <2>5. CASE s = {}
    <3>1. s \cap (1..k) = {} /\ {} \in SUBSET (1..k) /\ {} \in SUBSET LineNos
      BY <2>5
    <3>2. g[{}] = 0 /\ h[{}] = 0
      BY <3>1 DEF Sums, AddsUp
    <3>. QED
      BY <2>4, <2>5, <3>1, <3>2
  <2>6. CASE s # {}
    <3>. DEFINE c == one(s)
    <3>1. c \in s /\ g[s] = v[c] + g[s \ {c}] /\ s \ {c} \in SUBSET LineNos
      BY <1>1, <2>4, <2>6 DEF Sums, AddsUp
    <3>2. Cardinality(s \ {c}) = n - 1 /\ n \in Nat
      BY <1>1, <2>4, <2>6
    <3>. HIDE DEF c
    <3>3. n - 1 \notin Wrong
      BY <2>2, <2>3, <3>2
    <3>4. g[s \ {c}] = h[(s \ {c}) \cap (1..k)]
      BY <3>1, <3>2, <3>3 DEF Wrong
    <3>5. CASE c \in 1..k
      <4>1. (s \ {c}) \cap (1..k) = (s \cap (1..k)) \ {c} /\ c \in s \cap (1..k)
        BY <3>1, <3>5
      <4>2. h[s \cap (1..k)] = w[c] + h[(s \cap (1..k)) \ {c}]
        <5>1. IsFiniteSet(1..k) /\ s \cap (1..k) \in SUBSET (1..k)
          BY <1>0, LinesFinite
        <5>. QED
          BY <1>6, <4>1, <5>1 DEF AnyOrder
      <4>. QED
        BY <2>4, <3>1, <3>4, <3>5, <4>1, <4>2
    <3>6. CASE c \notin 1..k
      <4>1. (s \ {c}) \cap (1..k) = s \cap (1..k)
        BY <3>6
      <4>2. c \in LineNos /\ c > k
        BY <2>4, <3>1, <3>6, Limits DEF LineNos
      <4>3. v[c] = 0 /\ h[s \cap (1..k)] \in Nat
        <5>1. s \cap (1..k) \in SUBSET (1..k)
          OBVIOUS
        <5>. QED
          BY <4>2, <5>1 DEF Sums
      <4>4. g[s] = 0 + h[s \cap (1..k)]
        BY <3>1, <3>4, <4>1, <4>3
      <4>. QED
        BY <2>4, <4>3, <4>4
    <3>. QED
      BY <3>5, <3>6
  <2>. QED
    BY <2>5, <2>6
<1>3. LineNos \cap (1..k) = 1..k
  BY <1>0
<1>4. \A s \in SUBSET LineNos : g[s] = h[s \cap (1..k)]
  <2>1. SUFFICES ASSUME NEW s \in SUBSET LineNos, g[s] # h[s \cap (1..k)] PROVE Cardinality(s) \in Wrong
    BY <1>2
  <2>. QED
    BY <2>1
<1>5. g[LineNos] = h[LineNos \cap (1..k)]
  BY <1>4
<1>. QED
  BY <1>3, <1>5

-----------------------------------------------------------------------------
(* What the controls make of a form.                                       *)

Lines == [LineNos -> [description : Items, expenseType : Expenses, amount : Seq(Int)]]

\* The grand total of any lines is a natural number.
LEMMA GrandTotalFits ==
  ASSUME NEW lines \in Lines
  PROVE  grandTotal(lines) \in Nat
<1>. DEFINE v == [i \in LineNos |-> amountOf(lines[i].amount)]
<1>1. \A i \in LineNos : amountOf(lines[i].amount) \in Nat
  <2>. TAKE i \in LineNos
  <2>1. lines[i].amount \in Seq(Int)
    BY DEF Lines
  <2>. QED
    BY <2>1, AmountFits, Limits
<1>2. v \in [LineNos -> Nat]
  BY <1>1
<1>. HIDE DEF v
<1>3. PICK g : Sums(g, v, LineNos)
  BY <1>2, LinesFinite, SumsExist
<1>4. grandTotal(lines) = g[LineNos]
  BY <1>3, GrandTotalIs DEF v
<1>. QED
  BY <1>3, <1>4 DEF Sums

\* A description and an expense type are made of those of the lines.
LEMMA LinesDescribed ==
  ASSUME NEW lines \in Lines
  PROVE  descriptionOf(lines) \in Seq(Items) /\ expenseTypeOf(lines) \in Expenses
<1>0. LineNos \subseteq Nat
  BY Limits DEF LineNos
<1>1. described(lines) \in SUBSET LineNos /\ described(lines) \in SUBSET Nat
  BY <1>0 DEF described
<1>2. Cardinality(described(lines)) \in Nat
  BY <1>1, LinesFinite, Limits
<1>3. \A n \in 1..Cardinality(described(lines)) : lines[nth(described(lines), n)].description \in Items
  BY <1>1, NthIsOne DEF Lines
<1>4. described(lines) # {} => Min(described(lines)) \in described(lines)
  BY <1>1, LeastOf
<1>5. described(lines) # {} => lines[Min(described(lines))].expenseType \in Expenses
  BY <1>1, <1>4 DEF Lines
<1>6. descriptionOf(lines) \in Seq(Items)
  BY <1>2, <1>3 DEF descriptionOf
<1>. QED
  BY <1>5, <1>6 DEF expenseTypeOf, Expenses

\* What the menu offers for a site can be stored,
LEMMA ChoicesFit ==
  ASSUME NEW site
  PROVE  choices(site) \subseteq Fundings
BY DEF choices, Fundings, Names

\* every funding source is offered in one period at least,
LEMMA SourceExpands ==
  ASSUME NEW source
  PROVE  1 \in DOMAIN expandFundingPeriods(source)
<1>1. 1 \in DOMAIN <<source>>
  <2>1. DOMAIN <<source>> = 1..1
    OBVIOUS
  <2>2. 1 \in 1..1
    OBVIOUS
  <2>. QED
    BY <2>1, <2>2, Zenon
<1>2. 1 \in DOMAIN [i \in DOMAIN Periods |-> source \o " " \o Periods[i]]
  BY Workbook
<1>. QED
  BY <1>1, <1>2, Zenon DEF expandFundingPeriods

\* what a chosen site fills in is one of its choices, if it has any,
LEMMA FirstIsOffered ==
  ASSUME NEW site, firstChoice(site) # ""
  PROVE  firstChoice(site) \in choices(site)
<1>1. fundedRows(site) # {} /\ fundedRows(site) \in SUBSET Nat
  BY Workbook DEF firstChoice, fundedRows, siteRows
<1>2. PICK i \in fundedRows(site) :
        firstChoice(site) = expandFundingPeriods(Rows[i].fundingSource)[1]
  BY <1>1, LeastOf DEF firstChoice
<1>3. i \in DOMAIN Rows /\ Rows[i].site = site
  BY <1>2 DEF fundedRows, siteRows
<1>4. site \in buildSiteOptions
  BY <1>3 DEF buildSiteOptions
<1>6. firstChoice(site) \in ToSet(expandFundingPeriods(Rows[i].fundingSource))
  BY <1>2, SourceExpands DEF ToSet
<1>. QED
  BY <1>2, <1>4, <1>6 DEF choices, fundingChoicesFor

\* and the code of a site is that of a row, or none.
LEMMA SiteCodeFits ==
  ASSUME NEW f
  PROVE  siteCode(f) \in Codes
<1>1. siteRows(f.site) # {} => Min(siteRows(f.site)) \in DOMAIN Rows
  <2>1. siteRows(f.site) \in SUBSET Nat
    BY Workbook DEF siteRows
  <2>2. siteRows(f.site) # {} => Min(siteRows(f.site)) \in siteRows(f.site)
    BY <2>1, LeastOf
  <2>. QED
    BY <2>2 DEF siteRows
<1>. QED
  BY <1>1 DEF siteCode, Codes

\* Each control makes a good form of a good form: choosing a site,
LEMMA SiteSelected ==
  ASSUME NEW f \in GoodForms, NEW site \in buildSiteOptions \cup {""}
  PROVE  selectSite(f, site) \in GoodForms
<1>. DEFINE g == selectSite(f, site)
<1>1. f \in FormType
  BY DEF GoodForms
<1>2. firstChoice(site) \in Fundings \cup {""}
  BY FirstIsOffered, ChoicesFit
<1>3. g \in FormType
  BY <1>1, <1>2 DEF FormType, selectSite, Names
<1>4. g.site = site /\ g.funding = firstChoice(site) /\ g.lines = f.lines /\ g.amount = f.amount
  BY <1>1 DEF FormType, selectSite
<1>5. Funded(g)
  BY <1>4, FirstIsOffered DEF Funded
<1>. HIDE DEF g
<1>. QED
  BY <1>3, <1>4, <1>5 DEF GoodForms, g

\* choosing a funding source,
LEMMA FundingSelected ==
  ASSUME NEW f \in GoodForms, NEW funding \in buildFundingOptions(f) \cup {""}
  PROVE  selectFunding(f, funding) \in GoodForms
<1>. DEFINE g == selectFunding(f, funding)
<1>1. f \in FormType
  BY DEF GoodForms
<1>2. f.funding \in Fundings \cup {""}
  BY <1>1 DEF FormType
<1>3. funding \in Fundings \cup {""}
  BY <1>2, ChoicesFit DEF buildFundingOptions
<1>4. g \in FormType
  BY <1>1, <1>3 DEF FormType, selectFunding
<1>5. g.site = f.site /\ g.funding = funding /\ g.lines = f.lines /\ g.amount = f.amount
  BY <1>1 DEF FormType, selectFunding
<1>6. Funded(g)
  BY <1>5 DEF Funded, GoodForms, buildFundingOptions
<1>. HIDE DEF g
<1>. QED
  BY <1>4, <1>5, <1>6 DEF GoodForms, g

\* typing the name of a site,
LEMMA SiteTyped ==
  ASSUME NEW f \in GoodForms, NEW text \in Texts
  PROVE  enterCustomSite(f, text) \in GoodForms
<1>. DEFINE g == enterCustomSite(f, text)
<1>1. f \in FormType
  BY DEF GoodForms
<1>2. g \in FormType
  BY <1>1 DEF FormType, enterCustomSite, Names
<1>3. g.funding = "" /\ g.lines = f.lines /\ g.amount = f.amount
  BY <1>1 DEF FormType, enterCustomSite
<1>. HIDE DEF g
<1>. QED
  BY <1>2, <1>3 DEF GoodForms, Funded, g

\* typing a funding source, which then is one that was typed for the site,
LEMMA FundingTyped ==
  ASSUME NEW f \in GoodForms, NEW text \in Texts, typed' = typedNow(enterCustomFunding(f, text))
  PROVE  enterCustomFunding(f, text) \in GoodForms'
<1>. DEFINE g == enterCustomFunding(f, text)
<1>1. f \in FormType
  BY DEF GoodForms
<1>0. text \in Fundings
  BY DEF Fundings
<1>2. g \in FormType
  BY <1>0, <1>1 DEF FormType, enterCustomFunding
<1>3. g.site = f.site /\ g.funding = text /\ g.customFunding /\ g.lines = f.lines /\ g.amount = f.amount
  BY <1>1 DEF FormType, enterCustomFunding
<1>4. <<g.site, g.funding>> \in typed'
  BY <1>3 DEF typedNow
<1>. HIDE DEF g
<1>. QED
  BY <1>2, <1>3, <1>4 DEF GoodForms, Funded, g

\* filling a plain field,
LEMMA FieldFilled ==
  ASSUME NEW f \in GoodForms, NEW p \in Plain, NEW value \in Values(p)
  PROVE  /\ update(f, p, value) \in GoodForms
         /\ update(f, p, value) = [f EXCEPT !.plain = [f.plain EXCEPT ![p] = value]]
<1>. DEFINE g == update(f, p, value)
<1>1. f \in FormType
  BY DEF GoodForms
<1>2. value \in {"", "good", "bad"} /\ f.plain \in [Plain -> {"", "good", "bad"}]
  BY <1>1 DEF Values, FormType
<1>3. g = [f EXCEPT !.plain = [f.plain EXCEPT ![p] = value]]
  BY <1>1, <1>2 DEF FormType, update
<1>4. [f.plain EXCEPT ![p] = value] \in [Plain -> {"", "good", "bad"}]
  BY <1>2
<1>5. g \in FormType
  BY <1>1, <1>3, <1>4 DEF FormType
<1>6. g.site = f.site /\ g.funding = f.funding /\ g.lines = f.lines /\ g.amount = f.amount
  BY <1>1, <1>3 DEF FormType
<1>7. g \in GoodForms
  <2>. HIDE DEF g
  <2>. QED
    BY <1>5, <1>6 DEF GoodForms, Funded, g
<1>. QED
  BY <1>3, <1>7

\* writing a line, which adds the lines up again,
LEMMA LineWritten ==
  ASSUME NEW f \in GoodForms, NEW i \in LineNos,
         NEW line \in [description : Items, expenseType : Expenses, amount : Seq(Int)]
  PROVE  updateLine(f, i, line) \in GoodForms
<1>. DEFINE g == updateLine(f, i, line)
            lines == [f.lines EXCEPT ![i] = line]
<1>1. f \in FormType
  BY DEF GoodForms
<1>2. f.lines \in Lines
  BY <1>1 DEF FormType, Lines
<1>3. lines \in Lines
  BY <1>2 DEF Lines
<1>4. grandTotal(lines) \in Nat /\ descriptionOf(lines) \in Seq(Items) /\ expenseTypeOf(lines) \in Expenses
  BY <1>3, GrandTotalFits, LinesDescribed
<1>5. g = [f EXCEPT !.lines = lines, !.amount = grandTotal(lines),
                    !.description = descriptionOf(lines), !.expenseType = expenseTypeOf(lines)]
  BY DEF updateLine
<1>. HIDE DEF lines, g
<1>6. g \in FormType
  BY <1>1, <1>3, <1>4, <1>5 DEF FormType, Lines
<1>7. g.site = f.site /\ g.funding = f.funding /\ g.lines = lines /\ g.amount = grandTotal(lines)
  BY <1>1, <1>5 DEF FormType
<1>8. Funded(g)
  BY <1>7 DEF GoodForms, Funded
<1>. QED
  BY <1>6, <1>7, <1>8 DEF GoodForms, g

\* and signing.
LEMMA FormSigned ==
  ASSUME NEW f \in GoodForms
  PROVE  /\ \A m \in {"type", "draw"} : onMode(f, m) \in GoodForms
         /\ \A s \in {"", "typed", "drawn"} : onSignature(f, s) \in GoodForms
<1>1. f \in FormType
  BY DEF GoodForms
<1>2. ASSUME NEW m \in {"type", "draw"} PROVE onMode(f, m) \in GoodForms
  <2>. DEFINE g == onMode(f, m)
  <2>1. g \in FormType
    BY <1>1 DEF FormType, onMode
  <2>2. g.site = f.site /\ g.funding = f.funding /\ g.lines = f.lines /\ g.amount = f.amount
    BY <1>1 DEF FormType, onMode
  <2>. HIDE DEF g
  <2>. QED
    BY <2>1, <2>2 DEF GoodForms, Funded, g
<1>3. ASSUME NEW s \in {"", "typed", "drawn"} PROVE onSignature(f, s) \in GoodForms
  <2>. DEFINE g == onSignature(f, s)
  <2>1. g \in FormType
    BY <1>1 DEF FormType, onSignature
  <2>2. g.site = f.site /\ g.funding = f.funding /\ g.lines = f.lines /\ g.amount = f.amount
    BY <1>1 DEF FormType, onSignature
  <2>. HIDE DEF g
  <2>. QED
    BY <2>1, <2>2 DEF GoodForms, Funded, g
<1>. QED
  BY <1>2, <1>3

-----------------------------------------------------------------------------
(* What is saved of a form, and what is made of it again.                  *)

Line == [description : Items, expenseType : Expenses, amount : Seq(Int)]

\* A saved line has a description, and its amount is in whole cents.
LEMMA LinesSaved ==
  ASSUME NEW f \in FormType
  PROVE  savedLines(f) \in Seq(SavedLines) /\ Len(savedLines(f)) <= MaxLines
<1>. DEFINE k == Cardinality(filled(f))
<1>1. f.lines \in [LineNos -> Line]
  BY DEF FormType, Line
<1>2. filled(f) \in SUBSET LineNos
  BY DEF filled
<1>3. k \in Nat /\ k <= MaxLines
  BY <1>2, LinesFinite, Limits
<1>4. ASSUME NEW n \in 1..k PROVE savedLines(f)[n] \in SavedLines
  <2>1. PICK line \in Line : line = f.lines[nth(filled(f), n)]
    BY <1>1, <1>2, NthIsOne
  <2>. DEFINE d == IF line.description = "" THEN "Line item" ELSE line.description
              e == line.expenseType
              m == money(amountOf(line.amount))
  <2>2. savedLines(f)[n] = [description |-> d, expenseType |-> e, unitPrice |-> m]
    BY <2>1 DEF savedLines
  <2>3. m \in 0..MaxAmount /\ m % 10 = 0
    BY AmountFits, MoneyFits DEF Line
  <2>4. d \in Items \ {""}
    BY DEF Line, Items
  <2>5. e \in Expenses
    BY DEF Line
  <2>. HIDE DEF d, e, m
  <2>6. savedLines(f)[n] \in [description : Items \ {""}, expenseType : Expenses, unitPrice : 0..MaxAmount]
    <3>. DEFINE D == Items \ {""}
    <3>1. d \in D
      BY <2>4
    <3>. HIDE DEF D
    <3>2. savedLines(f)[n] \in [description : D, expenseType : Expenses, unitPrice : 0..MaxAmount]
      BY <2>2, <2>3, <2>5, <3>1
    <3>. QED
      BY <3>2 DEF D
  <2>7. savedLines(f)[n].unitPrice = m
    BY <2>2
  <2>. QED
    BY <2>3, <2>6, <2>7 DEF SavedLines
<1>5. savedLines(f) = [n \in 1..k |-> savedLines(f)[n]]
  BY DEF savedLines
<1>. HIDE DEF k
<1>. QED
  BY <1>3, <1>4, <1>5

\* The total of saved lines has its table.
LEMMA TotalHasTable ==
  ASSUME NEW q \in Seq(SavedLines), Len(q) <= MaxLines
  PROVE  LET v == [i \in 1..Len(q) |-> q[i].unitPrice]
         IN  \E g : Sums(g, v, 1..Len(q)) /\ total(q) = g[1..Len(q)] /\ total(q) \in Nat
<1>. DEFINE k == Len(q)
            v == [i \in 1..k |-> q[i].unitPrice]
<1>1. k \in 0..MaxLines /\ DOMAIN q = 1..k
  BY Limits
<1>2. \A i \in 1..k : q[i] \in SavedLines
  OBVIOUS
<1>3. \A i \in 1..k : q[i].unitPrice \in Nat
  <2>1. \A l \in SavedLines : l.unitPrice \in 0..MaxAmount
    BY DEF SavedLines
  <2>2. \A n \in 0..MaxAmount : n \in Nat
    BY Limits
  <2>. QED
    BY <1>2, <2>1, <2>2
<1>4. v \in [1..k -> Nat]
  BY <1>3
<1>5. 1..k \in SUBSET LineNos
  BY <1>1, Limits DEF LineNos
<1>6. IsFiniteSet(1..k)
  BY <1>5, LinesFinite
<1>. HIDE DEF k, v
<1>7. PICK g : Sums(g, v, 1..k)
  BY <1>4, <1>6, SumsExist
<1>8. total(q) = g[1..k]
  BY <1>1, <1>7, TotalIs DEF v
<1>9. g[1..k] \in Nat
  BY <1>7 DEF Sums
<1>. QED
  BY <1>7, <1>8, <1>9 DEF v, k

\* What is saved of a form whose funding is right is a good record.
LEMMA FormShaped ==
  ASSUME NEW f \in FormType, Funded(f)
  PROVE  /\ shape(f) \in GoodRecords /\ shape(f).status = "Draft"
         /\ shape(f).site = f.site /\ shape(f).funding = f.funding /\ shape(f).plain = f.plain
<1>. DEFINE r == shape(f)
<1>1. f \in FormType
  OBVIOUS
<1>2. savedLines(f) \in {q \in Seq(SavedLines) : Len(q) <= MaxLines}
  BY <1>1, LinesSaved
<1>3. total(savedLines(f)) \in Nat
  BY <1>2, TotalHasTable
<1>4. siteCode(f) \in Codes
  BY SiteCodeFits
<1>5. /\ r.site = f.site /\ r.siteCode = siteCode(f) /\ r.funding = f.funding /\ r.customSite = f.customSite
      /\ r.lineItems = savedLines(f) /\ r.amount = total(savedLines(f)) /\ r.status = "Draft"
      /\ r.plain = f.plain
  BY DEF shape
<1>6. r \in RecordType
  BY <1>1, <1>2, <1>3, <1>4 DEF shape, RecordType, FormType
<1>7. siteCode(r) = siteCode(f)
  BY <1>5 DEF siteCode
<1>8. Funded(r)
  BY <1>5 DEF Funded
<1>. HIDE DEF r
<1>. QED
  BY <1>5, <1>6, <1>7, <1>8 DEF GoodRecords, r

\* The form everybody starts with is one,
LEMMA FreshIsGood == freshForm \in GoodForms
<1>. DEFINE lines == freshForm.lines
            v == [i \in LineNos |-> amountOf(lines[i].amount)]
            w == [i \in 1..0 |-> 0]
<1>1. lines = [i \in LineNos |-> blankLine]
  BY DEF freshForm
<1>2. blankLine \in Line /\ amountOf(blankLine.amount) = 0
  BY DEF blankLine, Line, Items, Expenses, amountOf
<1>3. v \in [LineNos -> Nat] /\ \A i \in LineNos : v[i] = 0
  BY <1>1, <1>2
<1>4. w \in [1..0 -> Nat] /\ 0 \in 0..MaxLines /\ \A i \in 1..0 : w[i] = v[i]
  BY Limits
<1>. HIDE DEF lines, v, w
<1>5. PICK g : Sums(g, v, LineNos)
  BY <1>3, LinesFinite, SumsExist
<1>6. IsFiniteSet(1..0) /\ 1..0 = {}
  BY FS_Interval
<1>7. PICK h : Sums(h, w, 1..0)
  BY <1>4, <1>6, SumsExist
<1>8. g[LineNos] = h[1..0]
  BY <1>3, <1>4, <1>5, <1>7, BlanksAddNothing
<1>9. h[{}] = 0
  BY <1>6, <1>7 DEF Sums, AddsUp
<1>10. grandTotal(lines) = 0
  BY <1>5, <1>6, <1>8, <1>9, GrandTotalIs DEF v
<1>11. <<>> \in Seq(Items)
  OBVIOUS
<1>12. freshForm \in FormType
  BY <1>1, <1>2, <1>11 DEF freshForm, FormType, Line, Expenses, lines
<1>13. freshForm.amount = 0 /\ freshForm.funding = ""
  BY DEF freshForm
<1>. QED
  BY <1>10, <1>12, <1>13 DEF GoodForms, Funded, lines

\* and NoRecord is what would be saved of it.
LEMMA NoRecordIsGood == NoRecord \in GoodRecords /\ NoRecord.status = "None"
<1>. DEFINE r == shape(freshForm)
<1>1. r \in GoodRecords
  BY FreshIsGood, FormShaped DEF GoodForms
<1>. HIDE DEF r
<1>2. r \in RecordType
  BY <1>1 DEF GoodRecords
<1>3. NoRecord = [r EXCEPT !.status = "None"]
  BY DEF NoRecord, r
<1>4. NoRecord \in RecordType /\ NoRecord.status = "None"
  BY <1>2, <1>3 DEF RecordType
<1>5. /\ NoRecord.site = r.site /\ NoRecord.siteCode = r.siteCode /\ NoRecord.customSite = r.customSite
      /\ NoRecord.funding = r.funding /\ NoRecord.amount = r.amount /\ NoRecord.lineItems = r.lineItems
  BY <1>2, <1>3 DEF RecordType
<1>6. siteCode(NoRecord) = siteCode(r)
  BY <1>5 DEF siteCode
<1>. QED
  BY <1>1, <1>4, <1>5, <1>6 DEF GoodRecords, Funded

\* The client keeps every part of a record but the fields it does not see.
LEMMA RecordSeen ==
  ASSUME NEW r \in RecordType
  PROVE  LET view == toViewRequest(r)
         IN  /\ view \in RecordType
             /\ view.plain = [p \in Plain |-> IF p \in Unseen THEN "" ELSE r.plain[p]]
             /\ view.site = r.site /\ view.funding = r.funding /\ view.customSite = r.customSite
             /\ view.customFunding = r.customFunding /\ view.lineItems = r.lineItems
             /\ view.amount = r.amount /\ view.description = r.description
             /\ view.expenseType = r.expenseType
<1>. DEFINE plain == [p \in Plain |-> IF p \in Unseen THEN "" ELSE r.plain[p]]
<1>1. r.plain \in [Plain -> {"", "good", "bad"}]
  BY DEF RecordType
<1>2. plain \in [Plain -> {"", "good", "bad"}]
  BY <1>1
<1>3. toViewRequest(r) = [r EXCEPT !.plain = plain]
  BY DEF toViewRequest
<1>. HIDE DEF plain
<1>4. toViewRequest(r) \in RecordType
  BY <1>2, <1>3 DEF RecordType
<1>5. /\ toViewRequest(r).plain = plain
      /\ toViewRequest(r).site = r.site /\ toViewRequest(r).funding = r.funding
      /\ toViewRequest(r).customSite = r.customSite /\ toViewRequest(r).customFunding = r.customFunding
      /\ toViewRequest(r).lineItems = r.lineItems /\ toViewRequest(r).amount = r.amount
      /\ toViewRequest(r).description = r.description /\ toViewRequest(r).expenseType = r.expenseType
  BY <1>3 DEF RecordType
<1>. QED
  BY <1>4, <1>5 DEF plain

\* The lines of a form reopened from a record: the saved ones, then blank ones.
LEMMA LinesRebuilt ==
  ASSUME NEW view \in RecordType
  PROVE  LET f == rebuilt(view)
             q == view.lineItems
         IN  /\ f.lines \in Lines /\ q \in Seq(SavedLines) /\ Len(q) <= MaxLines
             /\ \A i \in LineNos : i \in 1..Len(q) =>
                  /\ f.lines[i].description = q[i].description /\ f.lines[i].expenseType = q[i].expenseType
                  /\ f.lines[i].amount = <<q[i].unitPrice>>
             /\ \A i \in LineNos : i \notin 1..Len(q) =>
                  f.lines[i].description = "" /\ f.lines[i].amount = <<>>
<1>. DEFINE q == view.lineItems
            lineOf(i) == [description |-> q[i].description, expenseType |-> q[i].expenseType,
                          amount |-> <<q[i].unitPrice>>]
            lines == [i \in LineNos |-> IF i \in DOMAIN q THEN lineOf(i) ELSE blankLine]
<1>1. q \in Seq(SavedLines) /\ Len(q) <= MaxLines /\ DOMAIN q = 1..Len(q)
  <2>1. q \in {s \in Seq(SavedLines) : Len(s) <= MaxLines}
    BY DEF RecordType
  <2>. HIDE DEF q
  <2>. QED
    BY <2>1
<1>2. rebuilt(view).lines = lines
  BY DEF rebuilt
<1>3. \A i \in DOMAIN q : lineOf(i) \in Line
  <2>. TAKE i \in DOMAIN q
  <2>1. q[i] \in SavedLines
    BY <1>1
  <2>2. q[i].description \in Items /\ q[i].expenseType \in Expenses /\ q[i].unitPrice \in 0..MaxAmount
    BY <2>1 DEF SavedLines
  <2>3. <<q[i].unitPrice>> \in Seq(Int)
    BY <2>2, AmountKept
  <2>. HIDE DEF q
  <2>. QED
    BY <2>2, <2>3 DEF Line
<1>4. blankLine \in Line
  BY DEF blankLine, Line, Items, Expenses
<1>5. lines \in [LineNos -> Line]
  <2>. HIDE DEF lineOf, q
  <2>. QED
    BY <1>3, <1>4
<1>6. Lines = [LineNos -> Line]
  BY DEF Lines, Line
<1>7. ASSUME NEW i \in LineNos
      PROVE  /\ i \in 1..Len(q) => /\ lines[i].description = q[i].description
                                    /\ lines[i].expenseType = q[i].expenseType
                                    /\ lines[i].amount = <<q[i].unitPrice>>
             /\ i \notin 1..Len(q) => lines[i].description = "" /\ lines[i].amount = <<>>
  <2>1. i \in 1..Len(q) => lines[i] = lineOf(i)
    BY <1>1
  <2>2. i \notin 1..Len(q) => lines[i] = blankLine
    BY <1>1
  <2>3. blankLine.description = "" /\ blankLine.amount = <<>>
    BY DEF blankLine
  <2>4. /\ lineOf(i).description = q[i].description /\ lineOf(i).expenseType = q[i].expenseType
        /\ lineOf(i).amount = <<q[i].unitPrice>>
    OBVIOUS
  <2>. HIDE DEF lines, lineOf, q
  <2>. QED
    BY <2>1, <2>2, <2>3, <2>4
<1>. HIDE DEF q, lines
<1>. QED
  BY <1>1, <1>2, <1>5, <1>6, <1>7 DEF q

\* A record reopened makes a form that adds up to the same,
LEMMA RebuiltAddsUp ==
  ASSUME NEW view \in RecordType
  PROVE  grandTotal(rebuilt(view).lines) = total(view.lineItems)
<1>. DEFINE q == view.lineItems
            k == Len(q)
            lines == rebuilt(view).lines
            v == [i \in LineNos |-> amountOf(lines[i].amount)]
            w == [i \in 1..k |-> q[i].unitPrice]
<1>1. lines \in Lines /\ q \in Seq(SavedLines) /\ k <= MaxLines
  BY LinesRebuilt
<1>2. \A i \in LineNos : i \in 1..k => lines[i].amount = <<q[i].unitPrice>>
  BY LinesRebuilt
<1>3. \A i \in LineNos : i \notin 1..k => lines[i].amount = <<>>
  BY LinesRebuilt
<1>. HIDE DEF lines, q
<1>4. \A i \in 1..k : q[i].unitPrice \in 0..MaxAmount
  <2>1. \A l \in SavedLines : l.unitPrice \in 0..MaxAmount
    BY DEF SavedLines
  <2>. QED
    BY <1>1, <2>1
<1>5. k \in 0..MaxLines /\ 1..k \in SUBSET LineNos /\ IsFiniteSet(1..k)
  <2>1. k \in 0..MaxLines
    BY <1>1, Limits
  <2>2. 1..k \in SUBSET LineNos
    BY <2>1, Limits DEF LineNos
  <2>. QED
    BY <2>1, <2>2, LinesFinite
<1>6. \A i \in LineNos : amountOf(lines[i].amount) = IF i \in 1..k THEN q[i].unitPrice ELSE 0
  <2>1. amountOf(<<>>) = 0
    BY DEF amountOf
  <2>. QED
    BY <1>2, <1>3, <1>4, <2>1, AmountKept
<1>7. v \in [LineNos -> Nat] /\ w \in [1..k -> Nat]
  <2>1. \A i \in 1..k : q[i].unitPrice \in Nat
    BY <1>4, Limits
  <2>2. \A i \in LineNos : amountOf(lines[i].amount) \in Nat
    BY <1>6, <2>1
  <2>. QED
    BY <2>1, <2>2
<1>8. \A i \in 1..k : w[i] = v[i]
  BY <1>5, <1>6
<1>9. \A i \in LineNos : i > k => v[i] = 0
  BY <1>5, <1>6
<1>10. DOMAIN q = 1..k
  BY <1>1
<1>. HIDE DEF v, w, k
<1>11. PICK g : Sums(g, v, LineNos)
  BY <1>7, LinesFinite, SumsExist
<1>12. PICK h : Sums(h, w, 1..k)
  BY <1>5, <1>7, SumsExist
<1>13. grandTotal(lines) = g[LineNos]
  BY <1>11, GrandTotalIs DEF v
<1>14. total(q) = h[1..k]
  BY <1>5, <1>10, <1>12, TotalIs DEF w
<1>15. g[LineNos] = h[1..k]
  BY <1>5, <1>8, <1>9, <1>11, <1>12, BlanksAddNothing
<1>. QED
  BY <1>13, <1>14, <1>15 DEF lines, q

\* and saves the same lines again.
LEMMA RebuiltSavesAgain ==
  ASSUME NEW view \in RecordType
  PROVE  savedLines(rebuilt(view)) = view.lineItems
<1>. DEFINE q == view.lineItems
            k == Len(q)
            f == rebuilt(view)
<1>1. q \in Seq(SavedLines) /\ k <= MaxLines
  BY LinesRebuilt
<1>2. \A i \in LineNos : i \in 1..k =>
        /\ f.lines[i].description = q[i].description /\ f.lines[i].expenseType = q[i].expenseType
        /\ f.lines[i].amount = <<q[i].unitPrice>>
  BY LinesRebuilt
<1>3. \A i \in LineNos : i \notin 1..k => f.lines[i].amount = <<>> /\ f.lines[i].description = ""
  BY LinesRebuilt
<1>. HIDE DEF f, q
<1>4. k \in 0..MaxLines /\ 1..k \in SUBSET LineNos
  <2>1. k \in 0..MaxLines
    BY <1>1, Limits
  <2>. QED
    BY <2>1, Limits DEF LineNos
<1>5. \A i \in LineNos : i \in 1..k => f.lines[i].amount # <<>>
  <2>1. \A u : <<u>> # <<>>
    OBVIOUS
  <2>. QED
    BY <1>2, <2>1
<1>7. filled(f) = 1..k
  BY <1>3, <1>4, <1>5 DEF filled
<1>8. Cardinality(1..k) = k /\ \A n \in 1..k : nth(1..k, n) = n
  BY <1>4, NthOfFirst
<1>9. ASSUME NEW n \in 1..k PROVE savedLines(f)[n] = q[n]
  <2>1. q[n] \in SavedLines /\ n \in LineNos
    BY <1>1, <1>4
  <2>2. PICK l \in SavedLines : l = q[n]
    BY <2>1
  <2>3. l.unitPrice \in 0..MaxAmount /\ l.unitPrice % 10 = 0 /\ l.description # ""
    BY DEF SavedLines
  <2>4. money(amountOf(<<l.unitPrice>>)) = l.unitPrice
    BY <2>3, AmountKept, MoneyFits
  <2>5. savedLines(f)[n] = [description |-> IF f.lines[n].description = "" THEN "Line item" ELSE f.lines[n].description,
                            expenseType |-> f.lines[n].expenseType,
                            unitPrice |-> money(amountOf(f.lines[n].amount))]
    BY <1>7, <1>8 DEF savedLines
  <2>6. f.lines[n].description = l.description /\ f.lines[n].expenseType = l.expenseType
        /\ f.lines[n].amount = <<l.unitPrice>>
    BY <1>2, <2>1, <2>2
  <2>7. savedLines(f)[n] = [description |-> l.description, expenseType |-> l.expenseType, unitPrice |-> l.unitPrice]
    BY <2>3, <2>4, <2>5, <2>6
  <2>8. l = [description |-> l.description, expenseType |-> l.expenseType, unitPrice |-> l.unitPrice]
    BY DEF SavedLines
  <2>. QED
    BY <2>2, <2>7, <2>8
<1>10. savedLines(f) = [n \in 1..k |-> savedLines(f)[n]]
  BY <1>7, <1>8 DEF savedLines
<1>11. q = [n \in 1..k |-> q[n]]
  BY <1>1
<1>12. savedLines(f) = q
  BY <1>9, <1>10, <1>11
<1>. QED
  BY <1>12 DEF f, q

\* So a record reopened is a good form, and it agrees with what it was.
LEMMA RecordReopened ==
  ASSUME NEW r \in GoodRecords
  PROVE  rebuilt(toViewRequest(r)) \in GoodForms /\ Agrees(r, rebuilt(toViewRequest(r)))
<1>. DEFINE view == toViewRequest(r)
            f == rebuilt(view)
<1>1. r \in RecordType
  BY DEF GoodRecords
<1>2. /\ view \in RecordType
      /\ view.plain = [p \in Plain |-> IF p \in Unseen THEN "" ELSE r.plain[p]]
      /\ view.site = r.site /\ view.funding = r.funding /\ view.customSite = r.customSite
      /\ view.customFunding = r.customFunding /\ view.lineItems = r.lineItems
      /\ view.amount = r.amount /\ view.description = r.description
      /\ view.expenseType = r.expenseType
  BY <1>1, RecordSeen
<1>. HIDE DEF view
<1>3. f.lines \in Lines
  BY <1>2, LinesRebuilt
<1>4. /\ f.site = r.site /\ f.funding = r.funding /\ f.customSite = r.customSite
      /\ f.customFunding = r.customFunding /\ f.plain = view.plain /\ f.amount = r.amount
      /\ f.description = r.description /\ f.expenseType = r.expenseType
  BY <1>2 DEF rebuilt
<1>5. f = [site |-> view.site, funding |-> view.funding, customSite |-> view.customSite,
           customFunding |-> view.customFunding, plain |-> view.plain, lines |-> f.lines,
           amount |-> view.amount, description |-> view.description, expenseType |-> view.expenseType,
           mode |-> "type", signature |-> ""]
  BY DEF rebuilt
<1>6. f \in FormType
  <2>1. PICK lines \in [LineNos -> [description : Items, expenseType : Expenses, amount : Seq(Int)]] :
          lines = f.lines
    BY <1>3 DEF Lines
  <2>2. /\ view.site \in Names \cup {""} /\ view.funding \in Fundings \cup {""}
        /\ view.customSite \in BOOLEAN /\ view.customFunding \in BOOLEAN
        /\ view.plain \in [Plain -> {"", "good", "bad"}] /\ view.amount \in Nat
        /\ view.description \in Seq(Items) /\ view.expenseType \in Expenses
    BY <1>2 DEF RecordType
  <2>3. "type" \in {"type", "draw"} /\ "" \in {"", "typed", "drawn"}
    OBVIOUS
  <2>4. f = [site |-> view.site, funding |-> view.funding, customSite |-> view.customSite,
             customFunding |-> view.customFunding, plain |-> view.plain, lines |-> lines,
             amount |-> view.amount, description |-> view.description, expenseType |-> view.expenseType,
             mode |-> "type", signature |-> ""]
    BY <1>5, <2>1
  <2>. HIDE DEF f
  <2>. QED
    BY <2>2, <2>3, <2>4 DEF FormType
<1>7. grandTotal(f.lines) = r.amount /\ savedLines(f) = r.lineItems
  BY <1>2, RebuiltAddsUp, RebuiltSavesAgain DEF GoodRecords
<1>. HIDE DEF f
<1>8. f \in GoodForms
  BY <1>4, <1>6, <1>7 DEF GoodForms, GoodRecords, Funded
<1>9. siteCode(f) = r.siteCode
  <2>1. siteCode(f) = siteCode(r)
    BY <1>4 DEF siteCode
  <2>. QED
    BY <2>1 DEF GoodRecords
<1>10. total(savedLines(f)) = r.amount
  BY <1>7 DEF GoodRecords
<1>11. \A p \in Plain \ Unseen : r.plain[p] = f.plain[p]
  BY <1>2, <1>4
<1>12. DOMAIN r = {"site", "siteCode", "funding", "customSite", "customFunding", "plain", "lineItems",
                   "amount", "description", "expenseType", "status"}
  BY <1>1 DEF RecordType
<1>13. \A field \in DOMAIN r \ {"plain", "status"} : r[field] = shape(f)[field]
  BY <1>4, <1>7, <1>9, <1>10, <1>12 DEF shape
<1>. QED
  BY <1>8, <1>11, <1>13 DEF Agrees, f, view

\* A record agrees with the form it was saved of.
LEMMA SavedAgrees ==
  ASSUME NEW f \in FormType
  PROVE  Agrees(shape(f), f)
<1>1. shape(f).plain = f.plain
  BY DEF shape
<1>. QED
  BY <1>1 DEF Agrees

-----------------------------------------------------------------------------
(* The invariant holds.                                                    *)

\* A site and a funding source are a pair,
LEMMA PairFits == \A site \in Names \cup {""}, funding \in Fundings : <<site, funding>> \in Pairs
BY DEF Pairs

\* and an edit that is taken is counted.
LEMMA OneMore ==
  ASSUME NEW n \in 0..MaxEdits, n < MaxEdits
  PROVE  n + 1 \in 0..MaxEdits
BY Limits

\* Typing a name more makes no form and no record wrong.
LEMMA GoodStays ==
  ASSUME typed \subseteq typed'
  PROVE  GoodForms \subseteq GoodForms' /\ GoodRecords \subseteq GoodRecords'
BY DEF GoodForms, GoodRecords, Funded

\* It holds at the start, with whatever draft was saved before.
LEMMA InitGood == Init => FormInv
<1>. SUFFICES ASSUME Init PROVE FormInv
  OBVIOUS
<1>1. form \in GoodForms /\ baseline \in FormType /\ synced \in FormType
  BY FreshIsGood DEF Init, GoodForms
<1>2. timers \in [Combos -> {NoTimer} \cup [text : Texts, form : GoodForms]]
  BY DEF Init
<1>3. record \in GoodRecords /\ record.status \in {"None", "Draft"} /\ typed \subseteq Pairs
  <2>1. CASE record = NoRecord
    <3>1. record.funding = ""
      <4>1. NoRecord.funding = shape(freshForm).funding
        BY DEF NoRecord, shape
      <4>2. shape(freshForm).funding = ""
        BY DEF shape, freshForm
      <4>. QED
        BY <2>1, <4>1, <4>2
    <3>2. typed = {}
      BY <3>1 DEF Init, typedEarlier
    <3>. QED
      BY <2>1, <3>2, NoRecordIsGood
  <2>2. CASE record # NoRecord
    <3>1. PICK f \in Drafts : record = shape(f)
      BY <2>2 DEF Init
    <3>2. f \in FormType
      BY <3>1, Zenon, FormAssumption DEF FormAssumption
    <3>3. record.site = f.site /\ record.funding = f.funding
      BY <3>1 DEF shape
    <3>4. typed = {<<f.site, f.funding>> : x \in {f.funding} \ (choices(f.site) \cup {""})}
      BY <3>3 DEF Init, typedEarlier
    <3>5. Funded(f)
      BY <3>4 DEF Funded
    <3>6. f.site \in Names \cup {""} /\ f.funding \in Fundings \cup {""}
      BY <3>2 DEF FormType
    <3>7. typed \subseteq Pairs
      <4>1. \A e \in typed : e = <<f.site, f.funding>> /\ f.funding # ""
        BY <3>4
      <4>2. \A e \in typed : f.site \in Names \cup {""} /\ f.funding \in Fundings
        BY <3>6, <4>1
      <4>3. SUFFICES ASSUME NEW e \in typed PROVE e \in Pairs
        OBVIOUS
      <4>. QED
        BY <4>1, <4>2, PairFits
    <3>. QED
      BY <3>1, <3>2, <3>5, <3>7, FormShaped
  <2>. QED
    BY <2>1, <2>2
<1>4. buffer = <<>> /\ signed = <<>> /\ ~open /\ ~overlaid /\ edits = 0 /\ open \in BOOLEAN /\ overlaid \in BOOLEAN
  BY DEF Init
<1>5. edits \in 0..MaxEdits
  BY <1>4, Limits
<1>6. FormsFit
  BY <1>1, <1>2, <1>3, <1>4, <1>5 DEF FormsFit, NoneOrOne
<1>7. ReadBack /\ SignedFits
  BY <1>4 DEF ReadBack, SignedFits
<1>8. SubmittedFits /\ SubmittedKeepsTheRules
  BY <1>3 DEF SubmittedFits, SubmittedKeepsTheRules
<1>. QED
  BY <1>6, <1>7, <1>8 DEF FormInv

\* An edit that makes a good form keeps the invariant.
LEMMA EditGood ==
  ASSUME FormInv, NEW f, Edit(f), f \in GoodForms', timers' = timers,
         typed \subseteq typed', typed' \subseteq Pairs
  PROVE  FormInv'
<1>1. GoodForms \subseteq GoodForms' /\ GoodRecords \subseteq GoodRecords'
  BY GoodStays
<1>2. /\ open /\ form' = f /\ buffer' = buffered(f) /\ edits' = edits + 1 /\ edits < MaxEdits
      /\ UNCHANGED <<baseline, open, record, signed, synced, overlaid>>
  BY DEF Edit
<1>3. NoneOrOne(buffer', GoodForms')
  <2>1. <<f>> = <<(<<f>>)[1]>> /\ (<<f>>)[1] = f
    OBVIOUS
  <2>2. NoneOrOne(buffer, GoodForms)
    BY DEF FormInv, FormsFit
  <2>. QED
    BY <1>1, <1>2, <2>1, <2>2 DEF buffered, NoneOrOne
<1>4. NoneOrOne(signed', GoodForms')
  BY <1>1, <1>2 DEF FormInv, FormsFit, NoneOrOne
<1>5. timers' \in [Combos -> {NoTimer} \cup [text : Texts, form : GoodForms']]
  <2>1. timers \in [Combos -> {NoTimer} \cup [text : Texts, form : GoodForms]]
    BY DEF FormInv, FormsFit
  <2>2. [text : Texts, form : GoodForms] \subseteq [text : Texts, form : GoodForms']
    BY <1>1
  <2>. QED
    BY <2>1, <2>2
<1>6. edits' \in 0..MaxEdits
  <2>1. edits \in 0..MaxEdits
    BY DEF FormInv, FormsFit
  <2>. QED
    BY <1>2, <2>1, OneMore
<1>7. FormsFit'
  BY <1>1, <1>2, <1>3, <1>4, <1>5, <1>6 DEF FormInv, FormsFit
<1>8. ReadBack' /\ SignedFits' /\ SubmittedFits' /\ SubmittedKeepsTheRules'
  BY <1>2 DEF FormInv, ReadBack, SignedFits, SubmittedFits, SubmittedKeepsTheRules, Agrees
<1>. QED
  BY <1>7, <1>8 DEF FormInv

\* So does everything but the comboboxes' typed names that an editor edits.
LEMMA ControlGood ==
  ASSUME FormInv, NEW f \in GoodForms, Control(f)
  PROVE  FormInv'
<1>1. f \in GoodForms' /\ Edit(f) /\ timers' = timers /\ typed' = typed
  BY DEF Control, GoodForms, Funded
<1>. QED
  BY <1>1, EditGood DEF FormInv, FormsFit

\* The texts of the comboboxes are names of sites and of funding sources.
LEMMA TextsFit == Texts \subseteq Names /\ Texts \subseteq Fundings
BY DEF Names, Fundings

\* A name typed for a form is kept with its site.
LEMMA TypedFits ==
  ASSUME FormInv, NEW f \in FormType, typed' = typedNow(f)
  PROVE  typed \subseteq typed' /\ (f.funding # "" => typed' \subseteq Pairs)
<1>1. f.site \in Names \cup {""} /\ (f.funding # "" => f.funding \in Fundings)
  BY DEF FormType
<1>2. typed \subseteq Pairs
  BY DEF FormInv, FormsFit
<1>3. f.funding # "" => <<f.site, f.funding>> \in Pairs
  BY <1>1, PairFits
<1>4. typed' = typed \/ typed' = typed \cup {<<f.site, f.funding>>}
  BY DEF typedNow
<1>. QED
  BY <1>2, <1>3, <1>4

\* Committing a text, at once or later, makes a good form of a good form.
LEMMA CustomGood ==
  ASSUME FormInv, NEW c \in Combos, NEW f \in GoodForms, NEW text \in Texts,
         typed' = typedNow(onCustom(c, f, text))
  PROVE  /\ onCustom(c, f, text) \in GoodForms'
         /\ typed \subseteq typed' /\ typed' \subseteq Pairs
<1>1. f \in FormType
  BY DEF GoodForms
<1>2. CASE c = "site"
  <2>1. onCustom(c, f, text) = enterCustomSite(f, text)
    BY <1>2 DEF onCustom
  <2>2. ~enterCustomSite(f, text).customFunding
    BY <1>1 DEF enterCustomSite, FormType
  <2>3. typed' = typed
    BY <2>1, <2>2 DEF typedNow
  <2>4. GoodForms' = GoodForms
    BY <2>3 DEF GoodForms, Funded
  <2>. QED
    BY <2>1, <2>3, <2>4, SiteTyped DEF FormInv, FormsFit
<1>3. CASE c # "site"
  <2>1. onCustom(c, f, text) = enterCustomFunding(f, text)
    BY <1>3 DEF onCustom
  <2>2. enterCustomFunding(f, text) \in GoodForms'
    BY <2>1, FundingTyped
  <2>3. enterCustomFunding(f, text) \in FormType /\ enterCustomFunding(f, text).funding = text
    BY <1>1, <2>2 DEF GoodForms, enterCustomFunding, FormType
  <2>4. text # ""
    BY Zenon, FormAssumption DEF FormAssumption
  <2>. QED
    BY <2>1, <2>2, <2>3, <2>4, TypedFits
<1>. QED
  BY <1>2, <1>3

\* The fields of the comboboxes,
LEMMA ComboGood ==
  ASSUME FormInv, NEW c \in Combos, Choose(c) \/ CommitCustom(c) \/ Blur(c) \/ BlurTimer(c)
  PROVE  FormInv'
<1>0. form \in GoodForms /\ typed \subseteq Pairs /\ edits \in 0..MaxEdits
  BY DEF FormInv, FormsFit
<1>1. CASE Choose(c)
  <2>0. PICK text \in Texts \cup {""} : \E option \in matched(c, text) : Edit(onChange(c, form, option))
    BY <1>1, Zenon DEF Choose
  <2>1. PICK option \in matched(c, text) : Edit(onChange(c, form, option))
    BY <2>0, Zenon
  <2>2. option \in options(c) /\ timers' = timers /\ typed' = typed
    BY <1>1, <2>1 DEF Choose, matched
  <2>3. onChange(c, form, option) \in GoodForms
    <3>1. CASE c = "site"
      BY <1>0, <2>2, <3>1, SiteSelected DEF onChange, options
    <3>2. CASE c # "site"
      BY <1>0, <2>2, <3>2, FundingSelected DEF onChange, options
    <3>. QED
      BY <3>1, <3>2
  <2>. QED
    BY <2>1, <2>2, <2>3, ControlGood DEF Control
<1>2. CASE CommitCustom(c)
  <2>1. PICK text \in Texts : Edit(onCustom(c, form, text))
    BY <1>2 DEF CommitCustom
  <2>2. form' = onCustom(c, form, text)
    BY <2>1 DEF Edit
  <2>3. timers' = timers /\ typed' = typedNow(onCustom(c, form, text))
    BY <1>2, <2>2 DEF CommitCustom
  <2>. QED
    BY <1>0, <2>1, <2>3, CustomGood, EditGood
<1>3. CASE Blur(c)
  <2>1. /\ edits < MaxEdits /\ edits' = edits + 1
        /\ UNCHANGED <<form, baseline, open, record, buffer, signed, typed, synced, overlaid>>
    BY <1>3 DEF Blur
  <2>2. PICK text \in Texts : timers' = [timers EXCEPT ![c] = [text |-> text, form |-> form]]
    BY <1>3 DEF Blur
  <2>3. timers \in [Combos -> {NoTimer} \cup [text : Texts, form : GoodForms]]
    BY DEF FormInv, FormsFit
  <2>4. [text |-> text, form |-> form] \in [text : Texts, form : GoodForms]
    BY <1>0
  <2>5. timers' \in [Combos -> {NoTimer} \cup [text : Texts, form : GoodForms]]
    BY <2>2, <2>3, <2>4
  <2>6. GoodForms' = GoodForms /\ GoodRecords' = GoodRecords
    BY <2>1 DEF GoodForms, GoodRecords, Funded
  <2>7. edits' \in 0..MaxEdits
    BY <1>0, <2>1, OneMore
  <2>8. FormsFit'
    BY <2>1, <2>5, <2>6, <2>7 DEF FormInv, FormsFit, NoneOrOne
  <2>9. ReadBack' /\ SignedFits' /\ SubmittedFits' /\ SubmittedKeepsTheRules'
    BY <2>1 DEF FormInv, ReadBack, SignedFits, SubmittedFits, SubmittedKeepsTheRules, Agrees
  <2>. QED
    BY <2>8, <2>9 DEF FormInv
<1>4. CASE BlurTimer(c)
  <2>1. /\ timers[c] # NoTimer /\ timers' = [timers EXCEPT ![c] = NoTimer]
        /\ form' = onCustom(c, timers[c].form, timers[c].text) /\ typed' = typedNow(form')
        /\ buffer' = IF open THEN buffered(form') ELSE buffer
        /\ UNCHANGED <<baseline, open, record, signed, synced, overlaid, edits>>
    BY <1>4 DEF BlurTimer
  <2>2. timers \in [Combos -> {NoTimer} \cup [text : Texts, form : GoodForms]]
    BY DEF FormInv, FormsFit
  <2>3. timers[c] \in [text : Texts, form : GoodForms]
    BY <2>1, <2>2
  <2>4. PICK f \in GoodForms, text \in Texts : f = timers[c].form /\ text = timers[c].text
    BY <2>3
  <2>5. form' = onCustom(c, f, text) /\ typed' = typedNow(onCustom(c, f, text))
    BY <2>1, <2>4
  <2>6. PICK g : g = onCustom(c, f, text)
    OBVIOUS
  <2>7. form' = g /\ g \in GoodForms' /\ typed \subseteq typed' /\ typed' \subseteq Pairs
    BY <2>5, <2>6, CustomGood
  <2>8. GoodForms \subseteq GoodForms' /\ GoodRecords \subseteq GoodRecords'
    BY <2>7, GoodStays
  <2>9. timers' \in [Combos -> {NoTimer} \cup [text : Texts, form : GoodForms']]
    <3>1. [text : Texts, form : GoodForms] \subseteq [text : Texts, form : GoodForms']
      BY <2>8
    <3>. QED
      BY <2>1, <2>2, <3>1
  <2>10. NoneOrOne(buffer', GoodForms') /\ (buffer' # <<>> => open \/ buffer # <<>>)
    <3>1. <<g>> = <<(<<g>>)[1]>> /\ (<<g>>)[1] = g
      OBVIOUS
    <3>2. NoneOrOne(buffer, GoodForms)
      BY DEF FormInv, FormsFit
    <3>. QED
      BY <2>1, <2>7, <2>8, <3>1, <3>2 DEF buffered, NoneOrOne
  <2>11. NoneOrOne(signed', GoodForms')
    BY <2>1, <2>8 DEF FormInv, FormsFit, NoneOrOne
  <2>12. FormsFit'
    BY <2>1, <2>7, <2>8, <2>9, <2>10, <2>11 DEF FormInv, FormsFit
  <2>13. ReadBack' /\ SignedFits' /\ SubmittedFits' /\ SubmittedKeepsTheRules'
    BY <2>1, <2>10 DEF FormInv, ReadBack, SignedFits, SubmittedFits, SubmittedKeepsTheRules, Agrees
  <2>. QED
    BY <2>12, <2>13 DEF FormInv
<1>. QED
  BY <1>1, <1>2, <1>3, <1>4

\* the plain ones,
LEMMA FillGood == FormInv /\ Fill => FormInv'
<1>. SUFFICES ASSUME FormInv, Fill PROVE FormInv'
  OBVIOUS
<1>1. PICK p \in Plain : \E value \in Values(p) : Control(update(form, p, value))
  BY DEF Fill
<1>2. PICK value \in Values(p) : Control(update(form, p, value))
  BY <1>1
<1>3. update(form, p, value) \in GoodForms
  BY FieldFilled DEF FormInv, FormsFit
<1>. QED
  BY <1>2, <1>3, ControlGood

\* the lines,
LEMMA EditLineGood ==
  ASSUME FormInv, EditLine
  PROVE  FormInv' /\ \E i \in LineNos : \E line \in Line : Control(updateLine(form, i, line))
<1>0. form \in GoodForms /\ form.lines \in [LineNos -> Line]
  BY DEF FormInv, FormsFit, GoodForms, FormType, Line
<1>1. PICK i \in LineNos :
        \/ \E d \in Items : Control(updateLine(form, i, [form.lines[i] EXCEPT !.description = d]))
        \/ \E e \in Expenses : Control(updateLine(form, i, [form.lines[i] EXCEPT !.expenseType = e]))
        \/ \E a \in {<<>>} \cup {<<n>> : n \in Amounts} :
             Control(updateLine(form, i, [form.lines[i] EXCEPT !.amount = a]))
  BY DEF EditLine
<1>2. PICK line \in Line : line = form.lines[i]
  BY <1>0
<1>3. \A a \in {<<>>} \cup {<<n>> : n \in Amounts} : a \in Seq(Int)
  <2>1. Amounts \subseteq Int
    BY Zenon, FormAssumption DEF FormAssumption
  <2>2. <<>> \in Seq(Int) /\ \A n \in Int : <<n>> \in Seq(Int)
    OBVIOUS
  <2>. QED
    BY <2>1, <2>2, Zenon
<1>4. /\ \A d \in Items : [line EXCEPT !.description = d] \in Line
      /\ \A e \in Expenses : [line EXCEPT !.expenseType = e] \in Line
      /\ \A a \in Seq(Int) : [line EXCEPT !.amount = a] \in Line
  BY DEF Line
<1>5. PICK new \in Line : Control(updateLine(form, i, new))
  BY <1>1, <1>2, <1>3, <1>4
<1>6. updateLine(form, i, new) \in GoodForms
  BY <1>0, LineWritten DEF Line
<1>. QED
  BY <1>5, <1>6, ControlGood

\* and the signature.
LEMMA SignGood ==
  ASSUME FormInv, Sign
  PROVE  /\ FormInv'
         /\ \/ \E m \in {"type", "draw"} : Control(onMode(form, m))
            \/ \E s \in {"", "typed", "drawn"} : Control(onSignature(form, s))
<1>0. form \in GoodForms
  BY DEF FormInv, FormsFit
<1>1. \/ \E m \in {"type", "draw"} : Control(onMode(form, m))
      \/ \E s \in {"", "typed", "drawn"} : Control(onSignature(form, s))
  BY DEF Sign
<1>. QED
  BY <1>0, <1>1, FormSigned, ControlGood

-----------------------------------------------------------------------------
(* Saving, closing, reopening, submitting.                                 *)

\* The form and what surrounds it, when only these may change.
LEMMA StoredGood ==
  ASSUME FormInv, UNCHANGED <<timers, typed, edits>>,
         form' \in GoodForms, baseline' \in FormType, synced' \in FormType,
         NoneOrOne(buffer', GoodForms), NoneOrOne(signed', GoodForms), record' \in GoodRecords,
         open' \in BOOLEAN, overlaid' \in BOOLEAN
  PROVE  FormsFit'
<1>1. GoodForms' = GoodForms /\ GoodRecords' = GoodRecords
  BY DEF GoodForms, GoodRecords, Funded
<1>. QED
  BY <1>1 DEF FormInv, FormsFit, NoneOrOne

\* One copy of a good form.
LEMMA OneCopy == \A f \in GoodForms : NoneOrOne(<<f>>, GoodForms)
<1>1. \A f : <<f>> = <<(<<f>>)[1]>> /\ (<<f>>)[1] = f
  OBVIOUS
<1>. QED
  BY <1>1 DEF NoneOrOne

\* A save puts the form in the record, or nothing.
LEMMA SaveFits ==
  ASSUME FormInv, open, saveNativeDraft
  PROVE  /\ synced' \in FormType /\ NoneOrOne(buffer', GoodForms)
         /\ record' \in GoodRecords /\ overlaid' \in BOOLEAN
         /\ record'.status # "Pending Supervisor Approval"
         /\ record'.status = "Draft" => Agrees(record', synced')
         /\ parses(form) => record' = shape(form) /\ (signed # <<>> => overlaid')
         /\ ~parses(form) => UNCHANGED <<record, overlaid>>
<1>0. /\ form \in GoodForms /\ synced \in FormType /\ NoneOrOne(buffer, GoodForms)
      /\ record \in GoodRecords /\ overlaid \in BOOLEAN
  BY DEF FormInv, FormsFit
<1>1. record.status # "Pending Supervisor Approval" /\ (record.status = "Draft" => Agrees(record, synced))
  BY DEF FormInv, SubmittedFits, ReadBack
<1>2. record.status \in {"None", "Draft"}
  BY <1>0, <1>1 DEF GoodRecords, RecordType
<1>3. CASE parses(form)
  <2>1. record' = shape(form) /\ buffer' = <<form>> /\ synced' = form /\ overlaid' = (signed # <<>>)
    BY <1>2, <1>3 DEF saveNativeDraft
  <2>2. form \in FormType /\ Funded(form)
    BY <1>0 DEF GoodForms
  <2>3. record' \in GoodRecords /\ record'.status = "Draft"
    BY <2>1, <2>2, FormShaped
  <2>4. NoneOrOne(buffer', GoodForms)
    BY <1>0, <2>1, OneCopy
  <2>5. Agrees(record', synced')
    BY <2>1, <2>2, SavedAgrees
  <2>6. overlaid' \in BOOLEAN
    BY <2>1
  <2>. QED
    BY <1>3, <2>1, <2>2, <2>3, <2>4, <2>5, <2>6
<1>4. CASE ~parses(form)
  <2>1. UNCHANGED <<record, buffer, synced, overlaid>>
    BY <1>4 DEF saveNativeDraft
  <2>. QED
    BY <1>0, <1>1, <1>4, <2>1
<1>. QED
  BY <1>3, <1>4

\* The button of the editor, and its clock,
LEMMA SaveGood == FormInv /\ Save => FormInv'
<1>. SUFFICES ASSUME FormInv, Save PROVE FormInv'
  OBVIOUS
<1>1. open /\ saveNativeDraft /\ UNCHANGED <<form, baseline, open, timers, signed, typed, edits>>
  BY DEF Save
<1>2. /\ synced' \in FormType /\ NoneOrOne(buffer', GoodForms)
      /\ record' \in GoodRecords /\ overlaid' \in BOOLEAN
      /\ record'.status # "Pending Supervisor Approval"
      /\ record'.status = "Draft" => Agrees(record', synced')
      /\ parses(form) => record' = shape(form) /\ (signed # <<>> => overlaid')
      /\ ~parses(form) => UNCHANGED <<record, overlaid>>
  BY <1>1, SaveFits
<1>3. FormsFit'
  BY <1>1, <1>2, StoredGood DEF FormInv, FormsFit
<1>4. SignedFits'
  <2>1. CASE parses(form)
    BY <1>1, <1>2, <2>1 DEF SignedFits
  <2>2. CASE ~parses(form)
    <3>1. UNCHANGED <<record, signed, overlaid>>
      BY <1>1, <1>2, <2>2
    <3>. QED
      BY <3>1 DEF FormInv, SignedFits
  <2>. QED
    BY <2>1, <2>2
<1>5. ReadBack' /\ SubmittedFits' /\ SubmittedKeepsTheRules'
  BY <1>1, <1>2 DEF ReadBack, SubmittedFits, SubmittedKeepsTheRules
<1>. QED
  BY <1>3, <1>4, <1>5 DEF FormInv

\* its closing,
LEMMA CloseGood == FormInv /\ CloseEditor => FormInv'
<1>. SUFFICES ASSUME FormInv, CloseEditor PROVE FormInv'
  OBVIOUS
<1>1. open /\ open' = FALSE /\ UNCHANGED <<form, baseline, timers, signed, typed, edits>>
  BY DEF CloseEditor
<1>2. CASE saveNativeDraft
  <2>1. /\ synced' \in FormType /\ NoneOrOne(buffer', GoodForms)
        /\ record' \in GoodRecords /\ overlaid' \in BOOLEAN
        /\ record'.status # "Pending Supervisor Approval"
        /\ record'.status = "Draft" => Agrees(record', synced')
        /\ parses(form) => record' = shape(form) /\ (signed # <<>> => overlaid')
        /\ ~parses(form) => UNCHANGED <<record, overlaid>>
    BY <1>1, <1>2, SaveFits
  <2>2. FormsFit'
    BY <1>1, <2>1, StoredGood DEF FormInv, FormsFit
  <2>3. SignedFits'
    <3>1. CASE parses(form)
      BY <1>1, <2>1, <3>1 DEF SignedFits
    <3>2. CASE ~parses(form)
      <4>1. UNCHANGED <<record, signed, overlaid>>
        BY <1>1, <2>1, <3>2
      <4>. QED
        BY <4>1 DEF FormInv, SignedFits
    <3>. QED
      BY <3>1, <3>2
  <2>4. ReadBack' /\ SubmittedFits' /\ SubmittedKeepsTheRules'
    BY <1>1, <2>1 DEF ReadBack, SubmittedFits, SubmittedKeepsTheRules
  <2>. QED
    BY <2>2, <2>3, <2>4 DEF FormInv
<1>3. CASE UNCHANGED <<record, buffer, synced, overlaid>>
  <2>1. FormsFit'
    BY <1>1, <1>3, StoredGood DEF FormInv, FormsFit
  <2>2. ReadBack' /\ SignedFits' /\ SubmittedFits' /\ SubmittedKeepsTheRules'
    BY <1>1, <1>3 DEF FormInv, ReadBack, SignedFits, SubmittedFits, SubmittedKeepsTheRules, Agrees
  <2>. QED
    BY <2>1, <2>2 DEF FormInv
<1>. QED
  BY <1>2, <1>3 DEF CloseEditor

\* a new request,
LEMMA StartGood == FormInv /\ StartNew => FormInv'
<1>. SUFFICES ASSUME FormInv, StartNew PROVE FormInv'
  OBVIOUS
<1>1. /\ record = NoRecord /\ signed = <<>> /\ form' = freshForm /\ baseline' = freshForm /\ open' = TRUE
      /\ UNCHANGED <<timers, record, buffer, signed, typed, synced, overlaid, edits>>
  BY DEF StartNew
<1>2. freshForm \in GoodForms /\ freshForm \in FormType
  BY FreshIsGood DEF GoodForms
<1>3. FormsFit'
  BY <1>1, <1>2, StoredGood DEF FormInv, FormsFit
<1>4. record.status = "None"
  BY <1>1, NoRecordIsGood
<1>5. ReadBack' /\ SignedFits' /\ SubmittedFits' /\ SubmittedKeepsTheRules'
  BY <1>1, <1>4 DEF ReadBack, SignedFits, SubmittedFits, SubmittedKeepsTheRules
<1>. QED
  BY <1>3, <1>5 DEF FormInv

\* an earlier one,
LEMMA ResumeGood == FormInv /\ Resume => FormInv'
<1>. SUFFICES ASSUME FormInv, Resume PROVE FormInv'
  OBVIOUS
<1>1. /\ record.status = "Draft" /\ signed = <<>> /\ open' = TRUE /\ baseline' = form' /\ buffer' = <<form'>>
      /\ UNCHANGED <<timers, record, signed, typed, overlaid, edits>>
  BY DEF Resume
<1>2. /\ buffer # <<>> => form' = buffer[1] /\ synced' = synced
      /\ buffer = <<>> => form' = rebuilt(toViewRequest(record)) /\ synced' = form'
  BY DEF Resume
<1>3. NoneOrOne(buffer, GoodForms) /\ record \in GoodRecords /\ synced \in FormType
  BY DEF FormInv, FormsFit
<1>4. /\ rebuilt(toViewRequest(record)) \in GoodForms
      /\ Agrees(record, rebuilt(toViewRequest(record)))
  BY <1>3, RecordReopened
<1>5. form' \in GoodForms /\ synced' \in FormType /\ Agrees(record, synced')
  <2>1. CASE buffer # <<>>
    <3>1. Agrees(record, synced)
      BY <1>1, <2>1 DEF FormInv, ReadBack
    <3>. QED
      BY <1>2, <1>3, <2>1, <3>1 DEF NoneOrOne
  <2>2. CASE buffer = <<>>
    BY <1>2, <1>4, <2>2 DEF GoodForms
  <2>. QED
    BY <2>1, <2>2
<1>6. FormsFit'
  <2>1. NoneOrOne(buffer', GoodForms)
    BY <1>1, <1>5, OneCopy
  <2>2. baseline' \in FormType
    BY <1>1, <1>5 DEF GoodForms
  <2>. QED
    BY <1>1, <1>5, <2>1, <2>2, StoredGood DEF FormInv, FormsFit
<1>7. ReadBack' /\ SignedFits' /\ SubmittedFits' /\ SubmittedKeepsTheRules'
  BY <1>1, <1>5 DEF ReadBack, SignedFits, SubmittedFits, SubmittedKeepsTheRules
<1>. QED
  BY <1>6, <1>7 DEF FormInv

\* and the loss of the local copy.
LEMMA ForgetGood == FormInv /\ ForgetBuffer => FormInv'
<1>. SUFFICES ASSUME FormInv, ForgetBuffer PROVE FormInv'
  OBVIOUS
<1>1. /\ ~open /\ buffer' = <<>>
      /\ UNCHANGED <<form, baseline, open, timers, record, signed, typed, synced, overlaid, edits>>
  BY DEF ForgetBuffer
<1>2. FormsFit'
  BY <1>1, StoredGood DEF FormInv, FormsFit, NoneOrOne
<1>3. ReadBack' /\ SignedFits' /\ SubmittedFits' /\ SubmittedKeepsTheRules'
  BY <1>1 DEF FormInv, ReadBack, SignedFits, SubmittedFits, SubmittedKeepsTheRules
<1>. QED
  BY <1>2, <1>3 DEF FormInv

\* The click on submit: the form is checked, saved and signed.
LEMMA SubmitGood == FormInv /\ SubmitNative => FormInv'
<1>. SUFFICES ASSUME FormInv, SubmitNative PROVE FormInv'
  OBVIOUS
<1>1. /\ open /\ signed = <<>> /\ findProblems(form) = {} /\ saveNativeDraft
      /\ signed' = (IF parses(form) THEN <<form>> ELSE <<>>)
      /\ UNCHANGED <<form, baseline, open, timers, typed, edits>>
  BY DEF SubmitNative
<1>2. /\ synced' \in FormType /\ NoneOrOne(buffer', GoodForms)
      /\ record' \in GoodRecords /\ overlaid' \in BOOLEAN
      /\ record'.status # "Pending Supervisor Approval"
      /\ record'.status = "Draft" => Agrees(record', synced')
      /\ parses(form) => record' = shape(form)
  BY <1>1, SaveFits
<1>3. form \in GoodForms
  BY DEF FormInv, FormsFit
<1>4. NoneOrOne(signed', GoodForms)
  <2>1. NoneOrOne(<<form>>, GoodForms) /\ NoneOrOne(<<>>, GoodForms)
    BY <1>3, OneCopy DEF NoneOrOne
  <2>. QED
    BY <1>1, <2>1
<1>5. FormsFit'
  BY <1>1, <1>2, <1>4, StoredGood DEF FormInv, FormsFit
<1>6. SignedFits'
  <2>1. CASE parses(form)
    <3>1. signed' = <<form>> /\ signed'[1] = form
      BY <1>1, <2>1
    <3>. QED
      BY <1>1, <1>2, <2>1, <3>1 DEF SignedFits
  <2>2. CASE ~parses(form)
    BY <1>1, <2>2 DEF SignedFits
  <2>. QED
    BY <2>1, <2>2
<1>7. ReadBack' /\ SubmittedFits' /\ SubmittedKeepsTheRules'
  BY <1>1, <1>2 DEF ReadBack, SubmittedFits, SubmittedKeepsTheRules
<1>. QED
  BY <1>5, <1>6, <1>7 DEF FormInv

\* Every line that is saved has the expense type of a line of the form.
LEMMA LinesCome ==
  ASSUME NEW f \in FormType
  PROVE  \A n \in DOMAIN savedLines(f) :
           \E i \in LineNos : savedLines(f)[n].expenseType = f.lines[i].expenseType
<1>. DEFINE k == Cardinality(filled(f))
<1>1. filled(f) \in SUBSET LineNos
  BY DEF filled
<1>2. DOMAIN savedLines(f) = 1..k
  BY DEF savedLines
<1>. SUFFICES ASSUME NEW n \in 1..k
              PROVE  \E i \in LineNos : savedLines(f)[n].expenseType = f.lines[i].expenseType
  BY <1>2
<1>3. nth(filled(f), n) \in LineNos
  BY <1>1, NthIsOne
<1>4. savedLines(f)[n].expenseType = f.lines[nth(filled(f), n)].expenseType
  BY DEF savedLines
<1>. QED
  BY <1>3, <1>4

\* The rules that only the form checks, for what is saved of a form in which
\* no problem was found.
Ruled(r) ==
  /\ r.plain["paymentType"] # ""
  /\ r.siteCode # "" \/ r.customSite
  /\ ~vague(r.description)
  /\ ~(/\ r.funding \in AssetFunding /\ r.site \in AssetSites
       /\ \E i \in DOMAIN r.lineItems : r.lineItems[i].expenseType = "Transportation")

\* findProblems asks for all of them.
LEMMA CheckedIsRuled ==
  ASSUME NEW f \in FormType, findProblems(f) = {}
  PROVE  Ruled(shape(f))
<1>. DEFINE r == shape(f)
<1>1. /\ r.plain = f.plain /\ r.siteCode = siteCode(f) /\ r.customSite = f.customSite
      /\ r.description = f.description /\ r.funding = f.funding /\ r.site = f.site
      /\ r.lineItems = savedLines(f)
  BY DEF shape
<1>2. "payment" \notin findProblems(f) /\ "site" \notin findProblems(f)
      /\ "lines" \notin findProblems(f) /\ "rules" \notin findProblems(f)
  OBVIOUS
<1>3. f.plain["paymentType"] # ""
  BY <1>2, Zenon DEF findProblems
<1>4. siteCode(f) # "" \/ f.customSite
  BY <1>2, Zenon DEF findProblems
<1>5. ~vague(f.description)
  BY <1>2, Zenon DEF findProblems
<1>6. ~blocked(f)
  BY <1>2, Zenon DEF findProblems
<1>7. ~(/\ f.funding \in AssetFunding /\ f.site \in AssetSites
        /\ \E i \in DOMAIN savedLines(f) : savedLines(f)[i].expenseType = "Transportation")
  BY <1>6, LinesCome DEF blocked
<1>. HIDE DEF r
<1>. QED
  BY <1>1, <1>3, <1>4, <1>5, <1>7 DEF Ruled, r

\* The second call of the submission, which the server takes or refuses.
LEMMA ArrivesGood == FormInv /\ SubmitArrives => FormInv'
<1>. SUFFICES ASSUME FormInv, SubmitArrives PROVE FormInv'
  OBVIOUS
<1>0. /\ signed # <<>> /\ signed' = <<>>
      /\ UNCHANGED <<form, baseline, timers, buffer, typed, synced, overlaid, edits>>
  BY DEF SubmitArrives
<1>1. /\ record \in GoodRecords /\ open \in BOOLEAN /\ NoneOrOne(signed, GoodForms)
      /\ NoneOrOne(buffer, GoodForms) /\ synced \in FormType /\ overlaid \in BOOLEAN
  BY DEF FormInv, FormsFit
<1>2. CASE UNCHANGED <<record, open>>
  <2>1. FormsFit'
    BY <1>0, <1>1, <1>2, StoredGood DEF FormInv, FormsFit, NoneOrOne
  <2>2. ReadBack' /\ SignedFits' /\ SubmittedFits' /\ SubmittedKeepsTheRules'
    BY <1>0, <1>2 DEF FormInv, ReadBack, SignedFits, SubmittedFits, SubmittedKeepsTheRules, Agrees
  <2>. QED
    BY <2>1, <2>2 DEF FormInv
<1>3. CASE record' = [record EXCEPT !.status = "Pending Supervisor Approval"] /\ open' = FALSE
  <2>1. record \in RecordType
    BY <1>1 DEF GoodRecords
  <2>2. /\ record' \in RecordType /\ record'.status = "Pending Supervisor Approval"
        /\ record'.site = record.site /\ record'.siteCode = record.siteCode
        /\ record'.funding = record.funding /\ record'.customSite = record.customSite
        /\ record'.plain = record.plain /\ record'.lineItems = record.lineItems
        /\ record'.amount = record.amount /\ record'.description = record.description
    BY <1>3, <2>1 DEF RecordType
  <2>3. record' \in GoodRecords
    <3>1. siteCode(record') = siteCode(record)
      BY <2>2 DEF siteCode
    <3>2. Funded(record) /\ typed' = typed
      BY <1>0, <1>1 DEF GoodRecords
    <3>3. record'.funding # "" => record'.funding \in choices(record'.site)
            \/ <<record'.site, record'.funding>> \in typed
      BY <2>2, <3>2 DEF Funded
    <3>. QED
      BY <1>1, <2>2, <3>1, <3>3 DEF GoodRecords, Funded
  <2>4. FormsFit'
    <3>1. form \in GoodForms /\ baseline \in FormType /\ NoneOrOne(signed', GoodForms)
      BY <1>0 DEF FormInv, FormsFit, NoneOrOne
    <3>. QED
      BY <1>0, <1>1, <1>3, <2>3, <3>1, StoredGood
  <2>5. ReadBack' /\ SignedFits' /\ SubmittedFits'
    BY <1>0, <1>3, <2>2 DEF ReadBack, SignedFits, SubmittedFits
  <2>6. SubmittedKeepsTheRules'
    <3>1. SUFFICES ASSUME ~overlaid PROVE Ruled(record')
      BY <1>0 DEF SubmittedKeepsTheRules, Ruled
    <3>2. record = shape(signed[1]) /\ findProblems(signed[1]) = {}
      BY <1>0, <3>1 DEF FormInv, SignedFits
    <3>3. signed[1] \in FormType
      BY <1>0, <1>1 DEF NoneOrOne, GoodForms
    <3>4. Ruled(record)
      BY <3>2, <3>3, CheckedIsRuled
    <3>. QED
      BY <2>2, <3>4 DEF Ruled
  <2>. QED
    BY <2>4, <2>5, <2>6 DEF FormInv
<1>. QED
  BY <1>2, <1>3 DEF SubmitArrives

\* Every step keeps the invariant.
LEMMA NextGood == FormInv /\ [Next]_vars => FormInv'
<1>. SUFFICES ASSUME FormInv, [Next]_vars PROVE FormInv'
  OBVIOUS
<1>1. CASE \E c \in Combos : Combo(c)
  BY <1>1, ComboGood DEF Combo
<1>2. CASE Fill \/ EditLine \/ Sign
  BY <1>2, FillGood, EditLineGood, SignGood
<1>3. CASE Save \/ StartNew \/ Resume \/ CloseEditor
  BY <1>3, SaveGood, StartGood, ResumeGood, CloseGood
<1>4. CASE ForgetBuffer \/ SubmitNative \/ SubmitArrives
  BY <1>4, ForgetGood, SubmitGood, ArrivesGood
<1>5. CASE UNCHANGED vars
  <2>1. UNCHANGED <<form, baseline, open, timers, record, buffer, signed, typed, synced, overlaid, edits>>
    BY <1>5 DEF vars
  <2>2. FormsFit'
    BY <2>1, StoredGood DEF FormInv, FormsFit
  <2>3. ReadBack' /\ SignedFits' /\ SubmittedFits' /\ SubmittedKeepsTheRules'
    BY <2>1 DEF FormInv, ReadBack, SignedFits, SubmittedFits, SubmittedKeepsTheRules, Agrees
  <2>. QED
    BY <2>2, <2>3 DEF FormInv
<1>. QED
  BY <1>1, <1>2, <1>3, <1>4, <1>5 DEF Next

\* The invariant holds of every reachable state.
THEOREM FormInvAlways == Spec => []FormInv
BY InitGood, NextGood, PTL DEF Spec

-----------------------------------------------------------------------------
(* What follows from it.                                                   *)

\* Every variable stays in its type, whatever is typed, saved and read back.
THEOREM FormTypes == Spec => []FormTypeOK
<1>1. FormInv => FormTypeOK
  <2>. SUFFICES ASSUME FormInv PROVE FormTypeOK
    OBVIOUS
  <2>1. form \in FormType /\ baseline \in FormType /\ synced \in FormType
    BY DEF FormInv, FormsFit, GoodForms
  <2>2. NoneOrOne(buffer, GoodForms) /\ NoneOrOne(signed, GoodForms)
    BY DEF FormInv, FormsFit
  <2>3. \A q : NoneOrOne(q, GoodForms) => \A f \in ToSet(q) : f \in FormType
    <3>. SUFFICES ASSUME NEW q, NoneOrOne(q, GoodForms), NEW f \in ToSet(q) PROVE f \in FormType
      OBVIOUS
    <3>1. CASE q = <<>>
      <4>1. DOMAIN q = {}
        BY <3>1
      <4>. QED
        BY <4>1 DEF ToSet
    <3>2. CASE q = <<q[1]>> /\ q[1] \in GoodForms
      <4>1. PICK g \in GoodForms : q = <<g>>
        BY <3>2
      <4>2. DOMAIN <<g>> = {1} /\ <<g>>[1] = g
        OBVIOUS
      <4>3. f = g
        BY <4>1, <4>2 DEF ToSet
      <4>. QED
        BY <4>3 DEF GoodForms
    <3>. QED
      BY <3>1, <3>2 DEF NoneOrOne
  <2>4. \A c \in Combos : timers[c].form \in FormType
    <3>. SUFFICES ASSUME NEW c \in Combos PROVE timers[c].form \in FormType
      OBVIOUS
    <3>1. timers[c] = NoTimer \/ timers[c] \in [text : Texts, form : GoodForms]
      BY DEF FormInv, FormsFit
    <3>2. NoTimer.form = freshForm
      BY DEF NoTimer
    <3>3. freshForm \in FormType
      BY FreshIsGood DEF GoodForms
    <3>. QED
      BY <3>1, <3>2, <3>3 DEF GoodForms
  <2>5. record.status \in {"None", "Draft", "Pending Supervisor Approval"} /\ record.amount \in Nat
    BY DEF FormInv, FormsFit, GoodRecords, RecordType
  <2>6. {form, baseline, synced} \subseteq FormType
    BY <2>1
  <2>7. \A f \in ToSet(buffer) \cup ToSet(signed) \cup {timers[c].form : c \in Combos} : f \in FormType
    BY <2>2, <2>3, <2>4
  <2>8. typed \subseteq (Names \cup {""}) \X Fundings
    BY Zenon DEF FormInv, FormsFit, Pairs
  <2>9. open \in BOOLEAN /\ overlaid \in BOOLEAN /\ edits \in 0..MaxEdits
    BY DEF FormInv, FormsFit
  <2>. QED
    BY <2>5, <2>6, <2>7, <2>8, <2>9, Zenon DEF FormTypeOK
<1>. QED
  BY <1>1, FormInvAlways, PTL

\* The total of the form, and that of the record, is the sum of the lines at
\* every moment, through the server's rounding and the rebuilding of a draft.
THEOREM TotalAlways == Spec => []TotalIsTheSum
<1>1. FormInv => TotalIsTheSum
  BY DEF FormInv, FormsFit, GoodForms, GoodRecords, TotalIsTheSum
<1>. QED
  BY <1>1, FormInvAlways, PTL

\* The funding source of the form, and of the record, is one its site can draw
\* on or one that was typed for it.
THEOREM FundingAlways == Spec => []FundingIsTheSites
<1>1. FormInv => FundingIsTheSites
  BY DEF FormInv, FormsFit, GoodForms, GoodRecords, Funded, FundingIsTheSites
<1>. QED
  BY <1>1, FormInvAlways, PTL

\* A submitted request keeps the rules that only the form checks.
THEOREM RulesAlways == Spec => []SubmittedKeepsTheRules
<1>1. FormInv => SubmittedKeepsTheRules
  BY DEF FormInv
<1>. QED
  BY <1>1, FormInvAlways, PTL

\* Only a save and the end of a submission write the record.
LEMMA RecordSteps ==
  ASSUME FormInv, [Next]_vars
  PROVE  \/ record' = record
         \/ open /\ saveNativeDraft
         \/ SubmitArrives
<1>1. CASE \E c \in Combos : Combo(c)
  BY <1>1 DEF Combo, Choose, CommitCustom, Blur, BlurTimer, Edit
<1>2. CASE Fill \/ EditLine \/ Sign
  BY <1>2 DEF Fill, EditLine, Sign, Control, Edit
<1>3. CASE Save \/ CloseEditor \/ SubmitNative
  BY <1>3 DEF Save, CloseEditor, SubmitNative
<1>4. CASE StartNew \/ Resume \/ ForgetBuffer
  BY <1>4 DEF StartNew, Resume, ForgetBuffer
<1>5. CASE UNCHANGED vars
  BY <1>5 DEF vars
<1>. QED
  BY <1>1, <1>2, <1>3, <1>4, <1>5 DEF Next

\* What reaches the approvers is the form of the click, as the server keeps
\* forms.
THEOREM SubmittedAsSigned == Spec => SubmittedIsWhatWasSigned
<1>. DEFINE Step == record.status = "Draft" /\ record'.status # "Draft" /\ ~overlaid
                      => record = shape(signed[1])
<1>1. ASSUME FormInv, [Next]_vars PROVE Step
  <2>1. CASE open /\ saveNativeDraft
    <3>1. CASE parses(form)
      <4>1. record' = shape(form)
        BY <1>1, <2>1, <3>1, SaveFits
      <4>2. shape(form).status = "Draft"
        BY DEF shape
      <4>. QED
        BY <4>1, <4>2
    <3>2. CASE ~parses(form)
      BY <1>1, <2>1, <3>2, SaveFits
    <3>. QED
      BY <3>1, <3>2
  <2>2. CASE SubmitArrives
    BY <1>1, <2>2 DEF FormInv, SignedFits, SubmitArrives
  <2>3. CASE record' = record
    BY <2>3
  <2>. QED
    BY <1>1, <2>1, <2>2, <2>3, RecordSteps
<1>2. FormInv /\ [Next]_vars => [Step]_vars
  BY <1>1
<1>. HIDE DEF Step
<1>3. Spec => [][Step]_vars
  BY <1>2, FormInvAlways, PTL DEF Spec
<1>. QED
  BY <1>3 DEF SubmittedIsWhatWasSigned, Step

\* Saving a reopened draft changes no field the client reads back in which the
\* form was not changed.
THEOREM UntouchedSurvive == Spec => UntouchedFieldsSurvive
<1>. DEFINE Step == record.status = "Draft" /\ record' # record =>
                      /\ \A field \in DOMAIN record \ {"plain", "status"} : Survives(field)
                      /\ \A p \in Plain \ Unseen : SurvivesPlain(p)
<1>1. ASSUME FormInv, [Next]_vars, record.status = "Draft", record' # record
      PROVE  /\ \A field \in DOMAIN record \ {"plain", "status"} : Survives(field)
             /\ \A p \in Plain \ Unseen : SurvivesPlain(p)
  <2>1. CASE open /\ saveNativeDraft
    <3>1. record' = shape(form)
      BY <1>1, <2>1 DEF saveNativeDraft
    <3>2. Agrees(record, synced)
      BY <1>1, <2>1 DEF FormInv, ReadBack
    <3>3. record'.plain = form.plain
      BY <3>1 DEF shape
    <3>. QED
      BY <3>1, <3>2, <3>3 DEF Agrees, Survives, SurvivesPlain
  <2>2. CASE SubmitArrives
    <3>1. record' = [record EXCEPT !.status = "Pending Supervisor Approval"]
      BY <1>1, <2>2 DEF SubmitArrives
    <3>2. record \in RecordType
      BY <1>1 DEF FormInv, FormsFit, GoodRecords
    <3>3. \A field \in DOMAIN record \ {"status"} : record'[field] = record[field]
      BY <3>1
    <3>4. record'.plain = record.plain
      BY <3>1, <3>2 DEF RecordType
    <3>. QED
      BY <3>3, <3>4 DEF Survives, SurvivesPlain
  <2>. QED
    BY <1>1, <2>1, <2>2, RecordSteps
<1>2. FormInv /\ [Next]_vars => [Step]_vars
  BY <1>1
<1>. HIDE DEF Step
<1>3. Spec => [][Step]_vars
  BY <1>2, FormInvAlways, PTL DEF Spec
<1>. QED
  BY <1>3 DEF UntouchedFieldsSurvive, Step

-----------------------------------------------------------------------------
(* Each control keeps to its field.                                        *)

\* Forms that differ do so in some part,
LEMMA PartsFound ==
  ASSUME NEW f \in FormType, NEW g \in FormType, Parts(f, g) = {}
  PROVE  g = f
<1>1. \A p \in Plain : g.plain[p] = f.plain[p]
  BY Zenon DEF Parts
<1>2. sitePart(g) = sitePart(f) /\ linesPart(g) = linesPart(f) /\ signPart(g) = signPart(f)
  BY DEF Parts
<1>3. g.plain = f.plain
  <2>1. PICK S : f.plain \in [Plain -> S] /\ g.plain \in [Plain -> S]
    BY DEF FormType
  <2>. QED
    BY <1>1, <2>1
<1>4. /\ g.site = f.site /\ g.funding = f.funding /\ g.customSite = f.customSite
      /\ g.customFunding = f.customFunding
  BY <1>2 DEF sitePart
<1>5. g.lines = f.lines /\ g.amount = f.amount /\ g.description = f.description /\ g.expenseType = f.expenseType
  BY <1>2 DEF linesPart
<1>6. g.mode = f.mode /\ g.signature = f.signature
  BY <1>2 DEF signPart
<1>7. \A h \in FormType :
        h = [site |-> h.site, funding |-> h.funding, customSite |-> h.customSite,
             customFunding |-> h.customFunding, plain |-> h.plain, lines |-> h.lines,
             amount |-> h.amount, description |-> h.description, expenseType |-> h.expenseType,
             mode |-> h.mode, signature |-> h.signature]
  <2>. DEFINE Site == Names \cup {""}
              Funding == Fundings \cup {""}
              Text == {"", "good", "bad"}
              Table == [LineNos -> [description : Items, expenseType : Expenses, amount : Seq(Int)]]
              Signature == {"", "typed", "drawn"}
  <2>1. FormType = [site : Site, funding : Funding, customSite : BOOLEAN, customFunding : BOOLEAN,
                    plain : [Plain -> Text], lines : Table, amount : Nat, description : Seq(Items),
                    expenseType : Expenses, mode : {"type", "draw"}, signature : Signature]
    BY DEF FormType
  <2>. HIDE DEF Site, Funding, Text, Table, Signature
  <2>. QED
    BY <2>1
<1>. QED
  BY <1>3, <1>4, <1>5, <1>6, <1>7

\* in one, if no other part differs.
LEMMA OnePart ==
  ASSUME NEW f \in FormType, NEW g \in FormType, g # f,
         NEW x, \A y \in Parts(f, g) : y = x
  PROVE  Cardinality(Parts(f, g)) = 1
<1>1. Parts(f, g) # {}
  BY PartsFound
<1>2. Parts(f, g) = {x}
  BY <1>1
<1>. QED
  BY <1>2, FS_Singleton

\* What a part is.
LEMMA PartIs ==
  ASSUME NEW f, NEW g, NEW y \in Parts(f, g)
  PROVE  \/ y \in Plain /\ g.plain[y] # f.plain[y]
         \/ y = "site" /\ sitePart(g) # sitePart(f)
         \/ y = "lines" /\ linesPart(g) # linesPart(f)
         \/ y = "sign" /\ signPart(g) # signPart(f)
BY Zenon DEF Parts

\* The comboboxes change the site and its funding source,
LEMMA CombosChange ==
  ASSUME NEW f \in FormType, NEW c \in Combos, NEW text
  PROVE  /\ \A y \in Parts(f, onChange(c, f, text)) : y = "site"
         /\ \A y \in Parts(f, onCustom(c, f, text)) : y = "site"
<1>1. \A g \in {selectSite(f, text), selectFunding(f, text), enterCustomSite(f, text), enterCustomFunding(f, text)} :
        /\ g.plain = f.plain /\ g.lines = f.lines /\ g.amount = f.amount /\ g.description = f.description
        /\ g.expenseType = f.expenseType /\ g.mode = f.mode /\ g.signature = f.signature
  <2>1. /\ selectSite(f, text).plain = f.plain /\ selectSite(f, text).lines = f.lines
        /\ selectSite(f, text).amount = f.amount /\ selectSite(f, text).description = f.description
        /\ selectSite(f, text).expenseType = f.expenseType /\ selectSite(f, text).mode = f.mode
        /\ selectSite(f, text).signature = f.signature
    BY DEF selectSite, FormType
  <2>2. /\ selectFunding(f, text).plain = f.plain /\ selectFunding(f, text).lines = f.lines
        /\ selectFunding(f, text).amount = f.amount /\ selectFunding(f, text).description = f.description
        /\ selectFunding(f, text).expenseType = f.expenseType /\ selectFunding(f, text).mode = f.mode
        /\ selectFunding(f, text).signature = f.signature
    BY DEF selectFunding, FormType
  <2>3. /\ enterCustomSite(f, text).plain = f.plain /\ enterCustomSite(f, text).lines = f.lines
        /\ enterCustomSite(f, text).amount = f.amount /\ enterCustomSite(f, text).description = f.description
        /\ enterCustomSite(f, text).expenseType = f.expenseType /\ enterCustomSite(f, text).mode = f.mode
        /\ enterCustomSite(f, text).signature = f.signature
    BY DEF enterCustomSite, FormType
  <2>4. /\ enterCustomFunding(f, text).plain = f.plain /\ enterCustomFunding(f, text).lines = f.lines
        /\ enterCustomFunding(f, text).amount = f.amount /\ enterCustomFunding(f, text).description = f.description
        /\ enterCustomFunding(f, text).expenseType = f.expenseType /\ enterCustomFunding(f, text).mode = f.mode
        /\ enterCustomFunding(f, text).signature = f.signature
    BY DEF enterCustomFunding, FormType
  <2>. QED
    BY <2>1, <2>2, <2>3, <2>4
<1>2. \A g : /\ g.plain = f.plain /\ g.lines = f.lines /\ g.amount = f.amount /\ g.description = f.description
             /\ g.expenseType = f.expenseType /\ g.mode = f.mode /\ g.signature = f.signature
             => \A y \in Parts(f, g) : y = "site"
  BY PartIs DEF linesPart, signPart
<1>3. onChange(c, f, text) \in {selectSite(f, text), selectFunding(f, text)}
  BY DEF onChange
<1>4. onCustom(c, f, text) \in {enterCustomSite(f, text), enterCustomFunding(f, text)}
  BY DEF onCustom
<1>. QED
  BY <1>1, <1>2, <1>3, <1>4

\* a field of text itself,
LEMMA FieldChanges ==
  ASSUME NEW f \in GoodForms, NEW p \in Plain, NEW value \in Values(p)
  PROVE  \A y \in Parts(f, update(f, p, value)) : y = p
<1>. DEFINE g == update(f, p, value)
<1>1. f \in FormType /\ g = [f EXCEPT !.plain = [f.plain EXCEPT ![p] = value]]
  BY FieldFilled DEF GoodForms
<1>2. /\ g.plain = [f.plain EXCEPT ![p] = value]
      /\ g.site = f.site /\ g.funding = f.funding /\ g.customSite = f.customSite
      /\ g.customFunding = f.customFunding /\ g.lines = f.lines /\ g.amount = f.amount
      /\ g.description = f.description /\ g.expenseType = f.expenseType /\ g.mode = f.mode
      /\ g.signature = f.signature
  BY <1>1 DEF FormType
<1>3. \A q \in Plain : q # p => g.plain[q] = f.plain[q]
  BY <1>1, <1>2 DEF FormType
<1>4. sitePart(g) = sitePart(f) /\ linesPart(g) = linesPart(f) /\ signPart(g) = signPart(f)
  BY <1>2 DEF sitePart, linesPart, signPart
<1>. HIDE DEF g
<1>5. \A y \in Parts(f, g) : y = p
  BY <1>3, <1>4, PartIs
<1>. QED
  BY <1>5 DEF g

\* a line the lines and what is worked out of them,
LEMMA LineChanges ==
  ASSUME NEW f \in FormType, NEW i, NEW line
  PROVE  \A y \in Parts(f, updateLine(f, i, line)) : y = "lines"
<1>. DEFINE g == updateLine(f, i, line)
<1>1. /\ g.plain = f.plain /\ g.site = f.site /\ g.funding = f.funding /\ g.customSite = f.customSite
      /\ g.customFunding = f.customFunding /\ g.mode = f.mode /\ g.signature = f.signature
  BY DEF updateLine, FormType
<1>2. sitePart(g) = sitePart(f) /\ signPart(g) = signPart(f)
  BY <1>1 DEF sitePart, signPart
<1>. HIDE DEF g
<1>3. \A y \in Parts(f, g) : y = "lines"
  BY <1>1, <1>2, PartIs
<1>. QED
  BY <1>3 DEF g

\* and the signature field the signature.
LEMMA SignChanges ==
  ASSUME NEW f \in FormType, NEW s
  PROVE  /\ \A y \in Parts(f, onMode(f, s)) : y = "sign"
         /\ \A y \in Parts(f, onSignature(f, s)) : y = "sign"
<1>1. \A g \in {onMode(f, s), onSignature(f, s)} :
        /\ g.plain = f.plain /\ g.site = f.site /\ g.funding = f.funding /\ g.customSite = f.customSite
        /\ g.customFunding = f.customFunding /\ g.lines = f.lines /\ g.amount = f.amount
        /\ g.description = f.description /\ g.expenseType = f.expenseType
  BY DEF onMode, onSignature, FormType
<1>2. \A g : /\ g.plain = f.plain /\ g.site = f.site /\ g.funding = f.funding /\ g.customSite = f.customSite
             /\ g.customFunding = f.customFunding /\ g.lines = f.lines /\ g.amount = f.amount
             /\ g.description = f.description /\ g.expenseType = f.expenseType
             => \A y \in Parts(f, g) : y = "sign"
  BY PartIs DEF sitePart, linesPart
<1>. QED
  BY <1>1, <1>2

\* A step that leaves the editor open and no commit overtakes comes from one
\* control.
LEMMA OneControl ==
  ASSUME FormInv, [Next]_vars, open, open', form' # form, ~Overtaken
  PROVE  \E x : \A y \in Parts(form, form') : y = x
<1>0. form \in GoodForms /\ form \in FormType
  BY DEF FormInv, FormsFit, GoodForms
<1>1. CASE \E c \in Combos : Combo(c)
  <2>1. PICK c \in Combos : Combo(c)
    BY <1>1
  <2>2. \/ \E text : form' = onChange(c, form, text)
        \/ \E text : form' = onCustom(c, form, text)
    <3>1. CASE Choose(c)
      BY <3>1, Zenon DEF Choose, Edit
    <3>2. CASE CommitCustom(c)
      BY <3>2, Zenon DEF CommitCustom, Edit
    <3>3. CASE Blur(c)
      BY <3>3 DEF Blur
    <3>4. CASE BlurTimer(c)
      <4>1. timers[c] # NoTimer /\ form' = onCustom(c, timers[c].form, timers[c].text)
        BY <3>4 DEF BlurTimer
      <4>2. timers[c] \in [text : Texts, form : GoodForms]
        BY <4>1 DEF FormInv, FormsFit
      <4>3. timers[c].text \in Texts
        BY <4>2
      <4>4. timers[c].text # ""
        <5>1. Texts \subseteq STRING \ {""}
          BY Zenon, FormAssumption DEF FormAssumption
        <5>. QED
          BY <4>3, <5>1, Zenon
      <4>5. timers[c].form = form
        BY <4>4, Zenon DEF Overtaken
      <4>. QED
        BY <4>1, <4>5, Zenon
    <3>. QED
      BY <2>1, <3>1, <3>2, <3>3, <3>4 DEF Combo
  <2>. QED
    BY <1>0, <2>2, CombosChange
<1>2. CASE Fill
  <2>1. PICK p \in Plain : \E value \in Values(p) : Control(update(form, p, value))
    BY <1>2 DEF Fill
  <2>2. PICK value \in Values(p) : Control(update(form, p, value))
    BY <2>1
  <2>3. form' = update(form, p, value)
    BY <2>2 DEF Control, Edit
  <2>. QED
    BY <1>0, <2>3, FieldChanges
<1>3. CASE EditLine
  <2>1. PICK i \in LineNos : \E line \in Line : Control(updateLine(form, i, line))
    BY <1>3, EditLineGood
  <2>2. PICK line \in Line : form' = updateLine(form, i, line)
    BY <2>1 DEF Control, Edit
  <2>. QED
    BY <1>0, <2>2, LineChanges
<1>4. CASE Sign
  <2>1. (\E s : form' = onMode(form, s)) \/ (\E s : form' = onSignature(form, s))
    BY <1>4, SignGood DEF Control, Edit
  <2>. QED
    BY <1>0, <2>1, SignChanges
<1>5. CASE Save \/ StartNew \/ Resume \/ CloseEditor \/ ForgetBuffer \/ SubmitNative \/ SubmitArrives
  BY <1>5 DEF Save, StartNew, Resume, CloseEditor, ForgetBuffer, SubmitNative, SubmitArrives
<1>6. CASE UNCHANGED vars
  BY <1>6 DEF vars
<1>. QED
  BY <1>1, <1>2, <1>3, <1>4, <1>5, <1>6 DEF Next

\* What one control does to the form leaves every other control's fields alone.
THEOREM ControlsKeepToTheirField == Spec => EditsKeepToTheirField
<1>. DEFINE Step == open /\ open' /\ form' # form /\ ~Overtaken => Cardinality(Parts(form, form')) = 1
<1>1. ASSUME FormInv, FormInv', [Next]_vars PROVE Step
  <2>1. form \in FormType /\ form' \in FormType
    BY <1>1 DEF FormInv, FormsFit, GoodForms
  <2>2. ASSUME open, open', form' # form, ~Overtaken
        PROVE  Cardinality(Parts(form, form')) = 1
    BY <1>1, <2>1, <2>2, OneControl, OnePart
  <2>. QED
    BY <2>2
<1>2. FormInv /\ FormInv' /\ [Next]_vars => [Step]_vars
  BY <1>1
<1>. HIDE DEF Step
<1>3. Spec => [][Step]_vars
  BY <1>2, FormInvAlways, PTL DEF Spec
<1>. QED
  BY <1>3 DEF EditsKeepToTheirField, Step

=============================================================================
