-------------------------------- MODULE Form --------------------------------
(***************************************************************************)
(* The purchase request form: RequestForm.tsx with its comboboxes and its  *)
(* signature field, what a save makes of the form (draftPayload, parseDraft*)
(* and the store's shape and total), what reopening makes of the record    *)
(* (toViewRequest, resume), and the checks made before and at submission.  *)
(*                                                                         *)
(* One requester, one draft, one tab.  A save is one step here: calls that *)
(* overlap are the subject of DraftEditor.  What is not is the 180 ms a    *)
(* combobox waits, after it lost the focus, to commit what was typed in it.*)
(* The accounting workbook has been loaded before the form is opened.      *)
(*                                                                         *)
(* A name stands for the site it names, and an amount is counted in tenths *)
(* of a cent: <<>> is an empty cell, <<n>> one that parses to n.           *)
(***************************************************************************)
EXTENDS Integers, FiniteSetsExt, SequencesExt

CONSTANTS
  Rows,          \* the accounting workbook, row by row
  PeriodExempt,  \* funding sources that are offered as they are
  Periods,       \* the periods any other one is offered in
  AssetFunding,  \* funding the ASSET rule is about, listed or typed
  AssetSites,    \* the sites it is about
  Texts,         \* what may be typed into a combobox
  Amounts,       \* what may be typed as the amount of a line
  MaxAmount,     \* MAX_AMOUNT, above any amount here
  MaxLines,      \* lines of the form; ten in the code
  Drafts,        \* forms saved in earlier sittings, perhaps in other browsers
  MaxEdits       \* bound: edits of the form

VARIABLES
  form,      \* what the editor holds
  baseline,  \* the form as it was when the editor opened
  open,      \* creating: the editor is on the screen
  timers,    \* by combobox: what it is about to commit since it lost the focus
  record,    \* the request in the store
  buffer,    \* local storage's copies of the form: none or one
  signed,    \* the forms on their way to be submitted: none or one
  typed,     \* history: the funding sources typed, each with its site
  synced,    \* history: the form when the record was last read or written
  overlaid,  \* history: a save came between the saving and the submission
  edits      \* history: the number of edits

vars == <<form, baseline, open, timers, record, buffer, signed,
          typed, synced, overlaid, edits>>

Plain == {"vendor", "paymentType", "vendorEmail", "copyEmail"}
\* Empty, acceptable to the server, or refused by it (too long, malformed).
Values(p) == IF p = "paymentType" THEN {"", "good"} ELSE {"", "good", "bad"}

Items    == {"", "Line item", "24 robotics kits for the Grade 9 lab"}
Expenses == {"Program Supplies", "Transportation"}
LineNos  == 1..MaxLines

blankLine == [description |-> "", expenseType |-> "Program Supplies", amount |-> <<>>]

freshForm ==
  [site |-> "", funding |-> "", customSite |-> FALSE, customFunding |-> FALSE,
   plain |-> [p \in Plain |-> ""], lines |-> [i \in LineNos |-> blankLine],
   amount |-> 0, description |-> <<>>, expenseType |-> "Program Supplies",
   mode |-> "type", signature |-> ""]

-----------------------------------------------------------------------------
(* Amounts.                                                                *)

amountOf(a) == IF a = <<>> \/ a[1] <= 0 THEN 0 ELSE Min({a[1], MaxAmount})

isNegative(a) == a # <<>> /\ a[1] < 0

\* sanitize.ts, money: to whole cents.
money(n) == ((n + 5) \div 10) * 10

\* The n-th of a set of line numbers, in the order of the form.
nth(S, n) == CHOOSE i \in S : Cardinality({j \in S : j <= i}) = n

\* A description is the sequence of its lines' items; one that is specific
\* makes the whole specific.
vague(d) == \A i \in DOMAIN d : d[i] \in {"", "Line item"}

-----------------------------------------------------------------------------
(* Sites and funding sources.                                              *)

\* Every row reaches the menu, whatever tab it is from.
buildSiteOptions == {Rows[i].site : i \in DOMAIN Rows}

siteRows(site) == {i \in DOMAIN Rows : Rows[i].site = site}

\* The code of the first row, as in selectSite.
siteCode(f) == IF f.customSite \/ siteRows(f.site) = {} THEN ""
               ELSE Rows[Min(siteRows(f.site))].siteCode

expandFundingPeriods(source) ==
  IF source \in PeriodExempt THEN <<source>>
  ELSE [i \in DOMAIN Periods |-> source \o " " \o Periods[i]]

fundedRows(site) == {i \in siteRows(site) : Rows[i].fundingSource # ""}

\* By site.  A source may be on several rows, and a variant of one may be the
\* name of another; each is offered once.
fundingChoicesFor ==
  [site \in buildSiteOptions |->
    UNION {ToSet(expandFundingPeriods(Rows[i].fundingSource)) : i \in fundedRows(site)}]

\* A site that is not in the workbook has no rows.
choices(site) == IF site \in buildSiteOptions THEN fundingChoicesFor[site] ELSE {}

\* What a chosen site fills in: the first in the order of the workbook.
firstChoice(site) ==
  IF fundedRows(site) = {} THEN ""
  ELSE expandFundingPeriods(Rows[Min(fundedRows(site))].fundingSource)[1]

\* What the form already holds stays in the menu, "as entered".
buildFundingOptions(f) == choices(f.site) \cup ({f.funding} \ {""})

-----------------------------------------------------------------------------
(* Types.                                                                  *)

Names    == buildSiteOptions \cup Texts
Fundings == (UNION {choices(s) : s \in Names}) \cup Texts

FormType ==
  [site : Names \cup {""}, funding : Fundings \cup {""},
   customSite : BOOLEAN, customFunding : BOOLEAN, plain : [Plain -> {"", "good", "bad"}],
   lines : [LineNos -> [description : Items, expenseType : Expenses, amount : Seq(Int)]],
   amount : Nat, description : Seq(Items), expenseType : Expenses,
   mode : {"type", "draw"}, signature : {"", "typed", "drawn"}]

\* FUNDING_PERIODS names some, MAX_AMOUNT is whole, and
\* enterCustomSite and enterCustomFunding take no empty text.
ASSUME FormAssumption ==
  /\ Rows \in Seq([site : STRING, siteCode : STRING, fundingSource : STRING])
  /\ Periods \in Seq(STRING) /\ Periods # <<>>
  /\ Texts \subseteq STRING \ {""}
  /\ Amounts \subseteq Int /\ MaxAmount \in Nat /\ MaxAmount % 10 = 0
  /\ {MaxLines, MaxEdits} \subseteq Nat
  /\ Drafts \subseteq FormType

-----------------------------------------------------------------------------
(* What each control makes of the form.                                    *)

\* Fault: the funding source of the site before stays.
selectSite_KeepsFunding(f, site) ==
  [f EXCEPT !.site = site, !.customSite = FALSE, !.customFunding = FALSE]

selectSite(f, site) ==
  [f EXCEPT !.site = site, !.customSite = FALSE, !.customFunding = FALSE,
            !.funding = firstChoice(site)]

selectFunding(f, funding) == [f EXCEPT !.funding = funding, !.customFunding = FALSE]

enterCustomSite(f, text) ==
  [f EXCEPT !.site = text, !.funding = "", !.customSite = TRUE, !.customFunding = FALSE]

enterCustomFunding(f, text) == [f EXCEPT !.funding = text, !.customFunding = TRUE]

\* Fault: the form spread is the one of the first render.
update_FirstRender(f, p, value) == [baseline EXCEPT !.plain[p] = value]

update(f, p, value) == [f EXCEPT !.plain[p] = value]

grandTotal(lines) == MapThenSumSet(LAMBDA i : amountOf(lines[i].amount), LineNos)

described(lines) == {i \in LineNos : lines[i].description # ""}

descriptionOf(lines) ==
  [n \in 1..Cardinality(described(lines)) |-> lines[nth(described(lines), n)].description]

expenseTypeOf(lines) ==
  IF described(lines) = {} THEN "Program Supplies" ELSE lines[Min(described(lines))].expenseType

\* Fault: the total is of the lines before the edit.
updateLine_OldTotal(f, i, line) ==
  LET lines == [f.lines EXCEPT ![i] = line]
  IN  [f EXCEPT !.lines = lines, !.amount = grandTotal(f.lines),
                !.description = descriptionOf(lines), !.expenseType = expenseTypeOf(lines)]

updateLine(f, i, line) ==
  LET lines == [f.lines EXCEPT ![i] = line]
  IN  [f EXCEPT !.lines = lines, !.amount = grandTotal(lines),
                !.description = descriptionOf(lines), !.expenseType = expenseTypeOf(lines)]

\* Either mode's button clears the signature.
onMode(f, mode) == [f EXCEPT !.mode = mode, !.signature = ""]
onSignature(f, signature) == [f EXCEPT !.signature = signature]

-----------------------------------------------------------------------------
(* From the form to the record, and back.                                  *)

hasContent(f) ==
  \/ f.plain["vendor"] # "" \/ f.description # <<>>
  \/ \E i \in LineNos : f.lines[i].description # "" \/ f.lines[i].amount # <<>>

filled(f) == {i \in LineNos : f.lines[i].description # "" \/ f.lines[i].amount # <<>>}

\* draftPayload drops blank lines and names the nameless, parseDraft rounds.
savedLines(f) ==
  [n \in 1..Cardinality(filled(f)) |->
    LET line == f.lines[nth(filled(f), n)]
    IN  [description |-> IF line.description = "" THEN "Line item" ELSE line.description,
         expenseType |-> line.expenseType,
         unitPrice |-> money(amountOf(line.amount))]]

\* FieldError, unless every text fits and every address is one.
parses(f) == \A p \in Plain : f.plain[p] # "bad"

total(lines) == MapThenSumSet(LAMBDA i : lines[i].unitPrice, DOMAIN lines)

shape(f) ==
  [site |-> f.site, siteCode |-> siteCode(f), funding |-> f.funding,
   customSite |-> f.customSite, customFunding |-> f.customFunding, plain |-> f.plain,
   lineItems |-> savedLines(f), amount |-> total(savedLines(f)),
   description |-> f.description, expenseType |-> f.expenseType, status |-> "Draft"]

NoRecord == [shape(freshForm) EXCEPT !.status = "None"]

\* Address, city, email, justification and the colleague to copy are not
\* among what the client keeps of a record.
Unseen == {"vendorEmail", "copyEmail"}

\* Fault: the marks of unlisted names are not kept either.
toViewRequest_NoFlags(r) ==
  [r EXCEPT !.plain = [p \in Plain |-> IF p \in Unseen THEN "" ELSE r.plain[p]],
            !.customSite = FALSE, !.customFunding = FALSE]

toViewRequest(r) == [r EXCEPT !.plain = [p \in Plain |-> IF p \in Unseen THEN "" ELSE r.plain[p]]]

\* What resume makes of a record when local storage has no copy.
rebuilt(view) ==
  [site |-> view.site, funding |-> view.funding,
   customSite |-> view.customSite, customFunding |-> view.customFunding, plain |-> view.plain,
   lines |-> [i \in LineNos |->
     IF i \in DOMAIN view.lineItems
     THEN [description |-> view.lineItems[i].description,
           expenseType |-> view.lineItems[i].expenseType, amount |-> <<view.lineItems[i].unitPrice>>]
     ELSE blankLine],
   amount |-> view.amount, description |-> view.description, expenseType |-> view.expenseType,
   mode |-> "type", signature |-> ""]

-----------------------------------------------------------------------------
(* The checks.                                                             *)

\* Fault: the rule looks at the expense type of the form.
blocked_FirstItem(f) ==
  f.funding \in AssetFunding /\ f.site \in AssetSites /\ f.expenseType = "Transportation"

\* "We cannot use ASSET funding for transportation."
blocked(f) ==
  /\ f.funding \in AssetFunding /\ f.site \in AssetSites
  /\ \E i \in LineNos : f.lines[i].expenseType = "Transportation"

\* A site is one that has a code, or one that was typed.  The printed name and
\* the date are filled in from the start and not modelled.
findProblems(f) ==
  {p \in {"site", "funding", "payment", "vendor", "lines", "amount", "signature", "copyEmail", "rules"} :
    \/ p = "site"      /\ siteCode(f) = "" /\ ~(f.customSite /\ f.site # "")
    \/ p = "funding"   /\ f.funding = ""
    \/ p = "payment"   /\ f.plain["paymentType"] = ""
    \/ p = "vendor"    /\ f.plain["vendor"] = ""
    \/ p = "lines"     /\ \/ descriptionOf(f.lines) = <<>> \/ vague(f.description)
                          \/ \E i \in LineNos : isNegative(f.lines[i].amount)
    \/ p = "amount"    /\ f.amount <= 0
    \/ p = "signature" /\ f.signature = ""
    \/ p = "copyEmail" /\ f.plain["copyEmail"] = "bad"
    \/ p = "rules"     /\ blocked(f)}

\* The image of a drawn signature is far longer than the 120 characters of the
\* submit route.
signatureFits(f) == f.signature = "typed"

\* What the store asks of the record.
complete(r) ==
  /\ r.plain["vendor"] # "" /\ r.description # <<>> /\ r.site # "" /\ r.funding # ""
  /\ r.lineItems # <<>>

-----------------------------------------------------------------------------
(* The comboboxes.                                                         *)

Combos  == {"site", "funding"}
NoTimer == [text |-> "", form |-> freshForm]

\* With the row "-- select --".
options(c) == {""} \cup (IF c = "site" THEN buildSiteOptions ELSE buildFundingOptions(form))

\* An option is found by its label; a site also by its funding sources, a
\* funding source by the one it is a period of.
terms ==
  [site |-> [option \in buildSiteOptions |->
              {Rows[i].fundingSource : i \in siteRows(option)}],
   funding |-> [option \in UNION {choices(s) : s \in buildSiteOptions} |->
                 {Rows[i].fundingSource : i \in {j \in DOMAIN Rows :
                    option \in ToSet(expandFundingPeriods(Rows[j].fundingSource))}}]]

found(c, option) == {option} \cup (IF option \in DOMAIN terms[c] THEN terms[c][option] ELSE {})

matched(c, text) == {o \in options(c) : text = "" \/ text \in found(c, o)}

exactMatch(c, text) == text \in options(c)

onChange(c, f, option) == IF c = "site" THEN selectSite(f, option) ELSE selectFunding(f, option)
onCustom(c, f, text)   == IF c = "site" THEN enterCustomSite(f, text) ELSE enterCustomFunding(f, text)

disabled(c) == c = "funding" /\ form.site = ""

\* The form is written to local storage whenever it changes, once the draft
\* has a number.
buffered(f) == IF record = NoRecord THEN buffer ELSE <<f>>

Edit(f) ==
  /\ open /\ edits < MaxEdits
  /\ form' = f
  /\ buffer' = buffered(f)
  /\ edits' = edits + 1
  /\ UNCHANGED <<baseline, open, record, signed, synced, overlaid>>

\* Some text is typed, or none, and an option it leaves in the menu is taken:
\* by the pointer, or by Enter when the text is an option's own.
Choose(c) ==
  /\ ~disabled(c)
  /\ \E text \in Texts \cup {""} : \E option \in matched(c, text) : Edit(onChange(c, form, option))
  /\ UNCHANGED <<timers, typed>>

typedNow(f) == IF f.customFunding THEN typed \cup {<<f.site, f.funding>>} ELSE typed

\* By the row "+ Use ...", which comes before every match, so Enter takes it
\* first.
CommitCustom(c) ==
  /\ ~disabled(c)
  /\ \E text \in Texts : ~exactMatch(c, text) /\ Edit(onCustom(c, form, text))
  /\ typed' = typedNow(form')
  /\ UNCHANGED timers

\* Some text is typed and the field is left.  The timer keeps the text and the
\* form of that moment; without a text, or with an option's own, it does no
\* more than close the menu, and is left out.
Blur(c) ==
  /\ open /\ ~disabled(c) /\ timers[c] = NoTimer /\ edits < MaxEdits
  /\ \E text \in Texts : ~exactMatch(c, text) /\ timers' = [timers EXCEPT ![c] = [text |-> text, form |-> form]]
  /\ edits' = edits + 1
  /\ UNCHANGED <<form, baseline, open, record, buffer, signed, typed, synced, overlaid>>

\* 180 ms later, whatever has become of the form or of the editor.
BlurTimer(c) ==
  /\ timers[c] # NoTimer
  /\ form' = onCustom(c, timers[c].form, timers[c].text)
  /\ typed' = typedNow(form')
  /\ buffer' = IF open THEN buffered(form') ELSE buffer
  /\ timers' = [timers EXCEPT ![c] = NoTimer]
  /\ UNCHANGED <<baseline, open, record, signed, synced, overlaid, edits>>

-----------------------------------------------------------------------------
(* The other controls.                                                     *)

Control(f) == Edit(f) /\ UNCHANGED <<timers, typed>>

Fill == \E p \in Plain : \E value \in Values(p) \ {form.plain[p]} :
          /\ p = "paymentType" => value # ""
          /\ Control(update(form, p, value))

EditLine == \E i \in LineNos :
  \/ \E d \in Items \ {"Line item", form.lines[i].description} :
       Control(updateLine(form, i, [form.lines[i] EXCEPT !.description = d]))
  \/ \E e \in Expenses \ {form.lines[i].expenseType} :
       Control(updateLine(form, i, [form.lines[i] EXCEPT !.expenseType = e]))
  \/ \E a \in {<<>>} \cup {<<n>> : n \in Amounts} :
       a # form.lines[i].amount /\ Control(updateLine(form, i, [form.lines[i] EXCEPT !.amount = a]))

Sign ==
  \/ \E m \in {"type", "draw"} : Control(onMode(form, m))
  \/ \E s \in {"", IF form.mode = "type" THEN "typed" ELSE "drawn"} \ {form.signature} :
       Control(onSignature(form, s))

-----------------------------------------------------------------------------
(* Saving, closing, reopening, submitting.                                 *)

\* A refused save changes nothing.
saveNativeDraft ==
  IF parses(form) /\ record.status \in {"None", "Draft"}
  THEN /\ record' = shape(form)
       /\ buffer' = <<form>>
       /\ synced' = form
       /\ overlaid' = (signed # <<>>)
  ELSE UNCHANGED <<record, buffer, synced, overlaid>>

\* By the button, or every 30 seconds when the form has content.
Save ==
  /\ open
  /\ saveNativeDraft
  /\ UNCHANGED <<form, baseline, open, timers, signed, typed, edits>>

StartNew ==
  /\ ~open /\ record = NoRecord /\ signed = <<>>
  /\ form' = freshForm /\ baseline' = form' /\ open' = TRUE
  /\ UNCHANGED <<timers, record, buffer, signed, typed, synced, overlaid, edits>>

\* Local storage is preferred to the record.
Resume ==
  /\ ~open /\ record.status = "Draft" /\ signed = <<>>
  /\ form' = IF buffer # <<>> THEN buffer[1] ELSE rebuilt(toViewRequest(record))
  /\ baseline' = form' /\ open' = TRUE
  /\ buffer' = <<form'>>
  /\ synced' = IF buffer # <<>> THEN synced ELSE form'
  /\ UNCHANGED <<timers, record, signed, typed, overlaid, edits>>

\* Saved if the form is not what it was when it was opened.
CloseEditor ==
  /\ open
  /\ IF form # baseline THEN saveNativeDraft ELSE UNCHANGED <<record, buffer, synced, overlaid>>
  /\ open' = FALSE
  /\ UNCHANGED <<form, baseline, timers, signed, typed, edits>>

\* Signing out empties local storage, and another browser never had it.
ForgetBuffer ==
  /\ ~open /\ buffer # <<>>
  /\ buffer' = <<>>
  /\ UNCHANGED <<form, baseline, open, timers, record, signed, typed, synced, overlaid, edits>>

\* Fault: a form that is not dirty is not saved first.
SubmitNative_IfDirty ==
  /\ open /\ signed = <<>> /\ findProblems(form) = {}
  /\ IF form # baseline \/ record = NoRecord THEN saveNativeDraft
     ELSE UNCHANGED <<record, buffer, synced, overlaid>>
  /\ signed' = IF parses(form) THEN <<form>> ELSE <<>>
  /\ UNCHANGED <<form, baseline, open, timers, typed, edits>>

\* The form is checked, saved, and signed as it is at the click.
SubmitNative ==
  /\ open /\ signed = <<>> /\ findProblems(form) = {}
  /\ saveNativeDraft
  /\ signed' = IF parses(form) THEN <<form>> ELSE <<>>
  /\ UNCHANGED <<form, baseline, open, timers, typed, edits>>

\* The second call of the two; refused, the editor stays.
SubmitArrives ==
  /\ signed # <<>>
  /\ signed' = <<>>
  /\ IF signatureFits(signed[1]) /\ complete(record)
     THEN /\ record' = [record EXCEPT !.status = "Pending Supervisor Approval"]
          /\ open' = FALSE
     ELSE UNCHANGED <<record, open>>
  /\ UNCHANGED <<form, baseline, timers, buffer, typed, synced, overlaid, edits>>

\* What an earlier sitting saved and no menu offers was typed there.
typedEarlier(r) == {<<r.site, r.funding>> : x \in {r.funding} \ (choices(r.site) \cup {""})}

Init ==
  /\ form = freshForm /\ baseline = freshForm /\ open = FALSE
  /\ timers = [c \in Combos |-> NoTimer]
  /\ record \in {NoRecord} \cup {shape(f) : f \in Drafts}
  /\ buffer = <<>> /\ signed = <<>>
  /\ typed = typedEarlier(record) /\ synced = freshForm /\ overlaid = FALSE /\ edits = 0

Combo(c) == Choose(c) \/ CommitCustom(c) \/ Blur(c) \/ BlurTimer(c)

Next ==
  \/ \E c \in Combos : Combo(c)
  \/ Fill \/ EditLine \/ Sign
  \/ Save \/ StartNew \/ Resume \/ CloseEditor \/ ForgetBuffer \/ SubmitNative \/ SubmitArrives

Spec == Init /\ [][Next]_vars

-----------------------------------------------------------------------------
(* Properties.                                                             *)

\* Every variable stays in its type: whatever is typed, saved and read back,
\* no total is negative (amountOf against the number inputs).
FormTypeOK ==
  /\ {form, baseline, synced} \subseteq FormType
  /\ \A f \in ToSet(buffer) \cup ToSet(signed) \cup {timers[c].form : c \in Combos} : f \in FormType
  /\ open \in BOOLEAN /\ overlaid \in BOOLEAN
  /\ record.status \in {"None", "Draft", "Pending Supervisor Approval"} /\ record.amount \in Nat
  /\ typed \subseteq (Names \cup {""}) \X Fundings /\ edits \in 0..MaxEdits

\* The grand total is the sum of the lines at every moment: while they are
\* edited, after the server has rounded them, after amounts it does not take
\* were dropped, and in a draft reopened from either copy (updateLine,
\* draftPayload, total, resume).
TotalIsTheSum ==
  /\ form.amount = grandTotal(form.lines)
  /\ record.amount = total(record.lineItems)

\* The funding source of a form, and of what is saved, is one the chosen site
\* can draw on or one that was typed for that very site, however often the
\* site is changed, retyped, or put back by a late commit (RequestForm.tsx,
\* "restricts the funding dropdown to the sources that site can draw on").
FundingIsTheSites ==
  \A f \in {form, record} :
    f.funding # "" => f.funding \in choices(f.site) \/ <<f.site, f.funding>> \in typed

\* A combobox commits over a form that was edited since it lost the focus.
Overtaken == \E c \in Combos : timers[c].text # "" /\ timers[c].form # form

sitePart(f)  == <<f.site, f.funding, f.customSite, f.customFunding>>
linesPart(f) == <<f.lines, f.amount, f.description, f.expenseType>>
signPart(f)  == <<f.mode, f.signature>>

\* The parts in which two forms differ.
Parts(f, g) ==
  {p \in Plain : g.plain[p] # f.plain[p]}
    \cup {"site" : x \in {sitePart(g)} \ {sitePart(f)}}
    \cup {"lines" : x \in {linesPart(g)} \ {linesPart(f)}}
    \cup {"sign" : x \in {signPart(g)} \ {signPart(f)}}

\* What one control does to the form leaves every other control's fields
\* alone, unless a combobox commits over a form that was edited in the 180 ms
\* since it lost the focus (the closures over form in RequestForm.tsx).
EditsKeepToTheirField ==
  [][open /\ open' /\ form' # form /\ ~Overtaken => Cardinality(Parts(form, form')) = 1]_vars

\* A field of the record changes only if the form was changed in it since the
\* editor last read the record or wrote it.
Survives(field) ==
  record'[field] # record[field] => shape(form)[field] # shape(synced)[field]

SurvivesPlain(p) ==
  record'.plain[p] # record.plain[p] => form.plain[p] # synced.plain[p]

\* Reopening a draft and saving it changes nothing the requester did not
\* change, with or without the local copy, for every field the client reads
\* back (draftPayload, parseDraft, shape, toViewRequest, resume).
UntouchedFieldsSurvive ==
  [][record.status = "Draft" /\ record' # record =>
       /\ \A field \in DOMAIN record \ {"plain", "status"} : Survives(field)
       /\ \A p \in Plain \ Unseen : SurvivesPlain(p)]_vars

\* What reaches the approvers is what the requester saw and signed: the form of
\* the click, as the server keeps forms.  Only a save between the two calls of
\* the submission can put something else in its place (page.tsx, submitNative).
SubmittedIsWhatWasSigned ==
  [][record.status = "Draft" /\ record'.status # "Draft" /\ ~overlaid
       => record = shape(signed[1])]_vars

\* A submitted request keeps the rules that only the form checks and the server
\* does not: a payment type, a coded or typed site, a description that is
\* specific, no transportation out of ASSET funding (findProblems against
\* submitRequest of store.ts).  The exception is a record that a save between
\* the two calls of the submission put in the place of the checked one.
SubmittedKeepsTheRules ==
  record.status = "Pending Supervisor Approval" /\ ~overlaid =>
    /\ record.plain["paymentType"] # ""
    /\ record.siteCode # "" \/ record.customSite
    /\ ~vague(record.description)
    /\ ~(/\ record.funding \in AssetFunding /\ record.site \in AssetSites
         /\ \E i \in DOMAIN record.lineItems : record.lineItems[i].expenseType = "Transportation")

\* "Everything the editor holds is saved except the signature": reopening a
\* draft and saving it changes nothing the requester did not change.
EverythingIsKept ==
  [][record.status = "Draft" => \A p \in Plain : SurvivesPlain(p)]_vars

\* "Everything that has to be true before a PRF can be submitted": a form in
\* which no problem is found and that is saved is not refused for the way in
\* which it was signed.
SignedFormsAreTaken ==
  [][signed # <<>> /\ signed' = <<>> /\ ~overlaid => record'.status # "Draft"]_vars

\* RequestForm.tsx, findProblems: "A custom site has no code yet", and every
\* other one is taken to have one: a site the menu offers is no problem.
OfferedSitesCanBeSubmitted == form.site \in buildSiteOptions => "site" \notin findProblems(form)

\* Signing is "not a value that should reappear because a draft was reopened".
SignatureIsNotRestored == [][~open /\ open' => form'.signature = ""]_vars

=============================================================================
