# Purchase Request Hub: formal verification

TLA+ models of the Purchase Request Hub (`src/`), the TLC runs that check them and the theorems TLAPS
proves about them. The Hub is a Next.js application in which staff of a non-profit write purchase request
forms (PRFs), a supervisor with enough authority signs them (gate 1) and Finance clears them for payment
(gate 2). Everything it knows is one JSON file behind `lib/store.ts`.

Line numbers below are those of the files under `src/`. Definitions keep the names of the source where they
model a function (`submitRequest`, `nextPrfNumber`, `saveNativeDraft`); a name in capitals or CamelCase that
is not in the source is a notion of the model.

## 1. Inventory

| Component | State | Operations | What makes it correct | Modules |
|---|---|---|---|---|
| Authority (`lib/store.ts` 37-141) | none | roles, six signing bands, `tierForAmount`, `nextTierAbove` | a routed amount is covered by the tier it is routed to; one rung up never covers less | `PrfAuthority` |
| Requests (`lib/store.ts` 780-1130) | `requests`: record, approvals list, audit trail, attachment records | create, update, attach, detach, delete, submit, decide, finance review | status, audit trail, approvals list and signatures tell one story; nothing is cleared without a signature, on that submission, by somebody else with authority over that amount; a submitted request is permanent | `PrfStore`, `TwoGates` |
| Accounts (`lib/store.ts` 630-750, 1150-1190) | `users`, `accountLog` | `assignRole`, `updateProfile`, `upsertUser`, `provisionFromIdentity`, the band given on load | one account per address, never overwritten; the log explains every position; nobody promotes themselves | `PrfStore`, `Accounts` |
| Notifications (`lib/store.ts` 700-775) | `notifications`, newest 2000 | written by submit, decide, review; mark as read | a submission is told to exactly those who could sign it; nothing is said of a draft | `PrfStore` |
| Transaction engine (`lib/store.ts` 360-512) | the file, the `cache`, the promise `queue` | `readDatabase`, `writeDatabase`, `transaction` | what is answered is durable, what is refused leaves no trace, every caller is answered | `StoreEngine` |
| Sessions (`lib/session.ts`, `lib/api.ts`, `app/api/auth/`) | signed cookie (copy of the account, `issuedAt`, `lastSeen`), `revoked` set, CSRF token in each tab | start, read, slide, end | one idle hour, twelve hours at most, revoked stays revoked; a page acts for the person it shows | `Sessions` |
| Sign-in and seeding (`lib/auth.ts`, `lib/seed.ts`, `lib/demo-accounts.ts`) | demo credentials file, one shared promise | seed, verify, provision | an account is seeded once, with a password somebody has; every sign-in is answered | `Accounts` |
| Rate limiter (`lib/ratelimit.ts`) | windows by key | `overLimit`, sweep | tries of one key are bounded in every window | `Accounts` |
| Uploaded files (`lib/uploads.ts`, attachment routes) | bytes on disk, the editor's zone | store, attach, detach, unlink, list | a record names bytes that are there and its owner's; removed is gone | `Uploads` |
| Form (`RequestForm`, `SearchableCombobox`, `SignatureField`, `funding.ts`, `prf-input.ts`) | the form, pending commits of comboboxes, local copies | edit, choose, commit late, save, reopen, submit | total, site and funding are consistent; an edit touches its own field; what is submitted is what was signed | `Form` |
| Editor page (`app/page.tsx`) | form, `editingId`, list of requests, local copies, calls under way | start, resume, type, autosave, save, close, submit, delete, sign out | what is typed reaches the server, under its own number, once | `DraftEditor` |
| Reviewer's page (`app/page.tsx`, `SupervisorReview`, `NotificationBell`) | lists, bell, the open request, calls under way | open, decide, mark read, refresh | what is shown is what is there; a decision means what its screen said | `Desk` |
| HTTP handlers (`app/api/**/route.ts`) | none | authenticate, clean, call one operation | as the operations | with their callers |
| Client library (`lib/prf-client.ts`) | CSRF token | one call per operation, `toViewRequest` | an ended session is told apart from an error | with its callers |
| Export, code lists, other components, standalone build | none, or display only | formatting | not modelled | |

How they interact. The page calls a handler through the client library; the handler resolves the session from
the cookie and calls one operation of the data layer with an *actor*, the copy of the account in that cookie.
The operation runs inside `transaction`, on a deep copy of the database, and either throws, which commits
nothing, or is written to the file by a rename and then becomes the cache. Mutations are serialised by a
promise chain; reads are not in it. Every answer of a session carries the cookie again, with a new `lastSeen`.

Where it is hard:

- actors are **stale by design**: role and band are taken at sign-in, live up to twelve hours, and are never
  refreshed, while the recipients of notices come from the accounts as they are now;
- records go round **both gates repeatedly**, and fields of an earlier round survive into the next one;
- the approvals list is rewritten **by index** in four places, the audit trail is append-only by convention
  and by one check before the commit;
- a **cold read** assigns the cache after an await without being in the queue; provisioning looks an account up
  outside it as well; seeding is one shared promise over several transactions;
- bytes are written **before** their record and removed **after** it, and a number may be given out again
  in between;
- the page's saves are **asynchronous and overlapping**: each answer is applied to whatever is on the screen
  when it comes back; tabs share one cookie, and answers that carry it may arrive in any order;
- everything a reviewer sees is a **copy of unknown age**, and a decision sends nothing of it back;
- a combobox **commits 180 ms late**, through the closure of an earlier render;
- a reopened draft is rebuilt from **the fields the page happens to keep**, and saved whole;
- PRF numbers are computed from **what is left** after deletions;
- React runs the **clean-up of an effect after** the handler that caused it.

`PROJECT.json` lists each of these at its line, with the property that watches it or the reason there is none.

## 2. Modules

| Module | Models |
|---|---|
| `PrfAuthority` | roles, bands, limits in cents, routing by amount |
| `PrfStore` | `lib/store.ts`: one action per operation; a committed transaction is one step |
| `PrfStoreProperties` | what is claimed about `PrfStore`, and its refinement mapping |
| `TwoGates` | the abstract promise: write, revise, submit, sign, clear, send back, discard |
| `StoreEngine` | the file, the cache and the queue; one step per await |
| `Accounts` | accounts, seeding, provisioning, sign-in and the rate limiter |
| `Sessions` | cookies, revocation, CSRF, the idle rule in the server and in the browser |
| `Uploads` | extends `PrfStoreProperties`: bytes on disk, transfers of one editor and of others |
| `Desk` | extends `PrfStoreProperties`: the page of a reviewer, beside the data layer |
| `DraftEditor` | the editor of `app/page.tsx`, the calls it makes and the server's answers |
| `Form` | the fields of the form, what a save makes of them and what reopening makes of the record |
| `PrfStoreProofs` | theorems about the ladder and the store: its invariants; its steps, its refinement, its bell and its log |
| `UploadsProofs`, `DeskProofs` | theorems about what is composed with the store; both build on the store's |
| `StoreEngineProofs`, `SessionsProofs`, `AccountsProofs` | theorems about the engine, the sessions, the accounts and the limiter |
| `DraftEditorProofs`, `FormProofs` | theorems about the editor's calls and about its fields |
| `MC*` | instances for TLC |

How the granularities fit. `StoreEngine` justifies `PrfStore`: there an operation is atomic; here it is a call
that is queued, loads, writes, renames and finishes, with failures and crashes between any two awaits.
`PrfStore`, in turn, is the server of `Uploads` and `Desk`, which compose it with the bytes and with a page.
`DraftEditor` and `Form` share the editor: the first has its overlapping calls and knows a text by the checks it passes,
the second has its fields and treats a save as one step. `Sessions` has the life of a session; the other
modules keep of it only that a session carries a copy of an account and may end at any time.

**`PrfStore`.** `users`, `sessions`, `requests`, `notifications` and `accountLog` are the fields of
`Database`. `sessions` is the set of account copies that live cookies carry: `SignIn` adds one, `EndSession`
(sign-out, idle or absolute timeout) removes one, and an operation takes its actor from it. A refusal throws
before the commit, so it is a disabled action. A form is reduced to its total in cents, whether the fields
`submitRequest` requires are filled in, and the colleague it is copied to. An amount is data the tiers tell
apart, so instances choose amounts on both sides of a limit. The audit entry keeps its action, its actor and
the band its detail mentions; timestamps, wording and ids are left out. `requests` is a function from the PRF
number. `locate` is the visibility rule, position by position, and throws Not Found. `decideRequest` and
`financeReview` each have two actions, one per answer, which share `MayDecide` and `MayReview`.
`Restart` is what `readDatabase` does to accounts when a new process first reads the file.

**`StoreEngine`.** `run` is the transaction at the head of `queue`: `loading` (awaiting a cold read),
`writing` (from the deep copy to the rename), `renamed` (file replaced, cache not yet). `Refuse` is any throw:
a rule, the append-only check or the file system. `reads` are `readDatabase` calls outside the queue.
`Crash` keeps only the file. The engine abstracts a database to the set of calls applied to it, so "lost" and
"left a trace" are set membership.

**`Accounts`.** `users` is the sequence of accounts, so a double would show; each has its address, name and
position. `memo` is the shared promise of `ensureSeeded`, and seeding is one transaction per account followed by
the credentials file; `Crash` may come between any two and empties the limiter's counters with the process.
A sign-in holds its slot from the look-up to the transaction, which is how two first requests of one person
interleave. Passwords are the fact of being known.

**`Sessions`.** A browser has one cookie and several tabs. A tab has the person it shows, its CSRF token, the
time of its last activity and whether the expiry dialog is up. A call takes the cookie and the token of the tab
when it is sent (`send`); `serve` is `authenticated`: resolve, check the token, slide, run, answer; the answer's
cookie is applied when it comes back, in any order. The store may fail under any call (`storeFails`); a sign-out
is then answered as a success all the same, without a revocation, as `logout/route.ts` 23 does. `now` is a clock that moves when no timer is due; `Idle` and
`Absolute` are the two limits in its units.

**`Uploads`.** `bytes` is what is on disk, by number, file and sender. A transfer is an upload (`store`, then
`attach`) or a removal (`detach`, then `unlink`), each step one await of the route; it may be refused, lost or
stopped by `Crash` in between. The editor sends the files of one drop one after the other, as `attachFiles`
does, and the zone is what it shows. `elsewhere` is the same transfers from another tab or another person.

**`Desk`.** `desk` is the page: who is at it, the rows and notices it loaded, the request that is open, which is
a copy of a row. Its calls are the list, the bell, marking as read and the two decisions; each is sent, served
against `PrfStore` as it is then, and answered later, or fails. A list of notices keeps each one's place in the
store, which gives their order, and has the newest `BellSize` of them. `quiet` is history: since the page
opened nobody else changed anything.

**`DraftEditor`.** One tab. A call has a kind, the number and form it carries, what the function that made it
does next (`submitNative` saves and then submits; `signOut` saves and then logs out), and a stage: sent,
served (`done`), refused (`failed`), or refused because there is no session (`ended`). User actions, the
30-second timer, arrivals at the server, losses, the end of the session and the handling of each answer are
separate actions. A form is the purchase its author has in mind and a text; the page knows
nothing of the purchase, it tells whose text ended up where. Of a text four checks matter, none of which implies
the next: whether it is worth a save (`hasContent`: a vendor, a description or a line, so a form with only a site, a
funding source or a copied colleague is not), whether `parseDraft` takes it (`Sound`: a malformed address is enough to
have the whole form refused), and whether the page and the server let it be submitted. `dirty` compares with
`baseline`, the form of the opening, whatever was saved since. `reverted` is history: the purchases that were closed as
they were opened after another text of theirs had been saved. `active` says whether the copies under
`prf-active-draft-v1` and in IndexedDB exist; `buffers` are the copies under `prf-editor-<id>`. An effect that
runs because an action changed its dependencies is part of that action; in particular `active' = open`
wherever `setCreating(false)` is called, because the clean-up of the autosave effect (293) calls `persist()`
after the handler has finished. The server here is what `createDraft`, `updateDraft`, `submitRequest` and
`deleteDraft` do to the requests of one user. `disturbed` counts the times the user did something while a
call was under way, a call or answer was lost, or the session expired.

**`Form`.** A form keeps the fields that rules relate: site and funding with their marks, the lines with the
total, description and expense type computed from them, four plain fields that stand for the rest, and the
signature with its mode. A combobox that
lost the focus holds a timer with the text *and the form of the render it closed over*; `BlurTimer` commits
both. Saving is `draftPayload`, `parseDraft` and `shape`; reopening is the local copy or
`toViewRequest` and `resume`. `fundingChoicesFor` and the period expansion are the code's, over a small workbook
with a source that is offered in periods, one that is exempt from them, a grant site without a code and a text
one may type that is also the name of a source. The workbook has been loaded before the form is opened.

## 3. Runs

| Run | Distinct states | Question |
|---|---|---|
| `lifecycle` | 100,992 | One request, four people, positions fixed, up to nine audit entries |
| `reassign` | 855,512 | One request, three people, an administrator who moves them, stale sessions, restarts |
| `engine` | 9,990 | Three calls, two cold readers, one crash, every order |
| `editor` | 575,030 | Two purchases, an empty, a complete and a malformed text, two calls at a time, one disturbance |
| `sessions` | 3,014,921 | Two tabs, two people, two sessions, two calls at a time, a store that may fail, a clock |
| `accounts` | 609,556 | Seeding, password sign-in and provisioning at once, one stop, profile and position changes, a limiter with two tries in two ticks |
| `uploads` | 1,280,720 | Two files, two transfers, one number shared by two people, crashes |
| `form` | 794,462 | Three edits of a form with two lines, two comboboxes, saves, reopening, submission |
| `desk` | 1,002,600 | The page of an approver or of Finance, two calls at a time, two versions of a request |

What they show:

- `TypeOK`, `EditorTypeOK`, `UploadsTypeOK` (with the limit of attachments under parallel uploads). The type
  invariants of the other modules (`EngineTypeOK`, `SessionsTypeOK`, `AccountsTypeOK`, `FormTypeOK`) document
  their variables; adding one to its cfg checks it, and all four hold. `EngineTypeOK`, `SessionsTypeOK`
  and `FormTypeOK` are proved.
- `TrailIsTrue`: in every status the audit trail ends in exactly the steps that lead there. So a request at
  or past gate 2 was signed after its latest submission, with no edit since, by somebody other than its owner
  whose band covers the tier it was routed to, and that tier covers its amount. The theorem of the same name
  says so also when the signer's session carries a position they no longer have.
- `ApprovalsAgree`: the approvals list names, gate by gate, the people of the record.
- `ImplementsTwoGates`: every behaviour of the store is a behaviour of `TwoGates`, under the mapping at the end
  of `PrfStoreProperties`. A record keeps its `approverId` while it is being revised; the mapping counts a
  signature only while the record is past gate 1, and takes the authority from the audit entry.
- `SubmittedIsPermanent`, `EveryChangeIsAudited`: no step removes, reassigns or reopens a submitted request,
  changes an approved one, or changes any record without an entry.
- `EscalatedPastItsAuthor`: an approver's own request needs more authority than they have.
- `SubmissionReachesItsSigners`: `approversFor` (who is told, from the accounts) and `decideRequest` (who may
  sign, from the session) agree at the moment of submission, and the bell's bound does not push them out as long
  as it keeps as many notices as there are people.
- `LogExplainsPositions`: entry by entry, the account log leads from the seed to everybody's position; each entry
  starts where the one before it ended, nobody moves themselves, and whoever moves somebody was an administrator
  by seed or by an earlier entry, stale sessions included. `NoNoticeOfADraft`.
- `DoneIsKeptUnlessOvertaken`, `RefusedLeavesNoTrace`, `EveryCallIsSettled`: durability as long as no cold
  read puts an old copy in memory, atomicity of refusals, and for every caller the answer of its own transaction: a
  rejected chain, which would refuse whatever waits in it without running it, is told apart from a refusal.
- `RevokedStaysOut`: once the revocation of a session was stored, nothing is served under it, whichever cookie comes
  back late, until the very instant its revocation lapses (the age is compared with `>`, the revocation is kept
  up to that age). A sign-out that stored none is `SignOutRevokes` below. `ActsAsShown`: no mutation is applied for anybody but the person the tab showed when it sent it.
  `UnattendedBrowserEnds`, `ActiveUserStaysIn`: while calls neither overlap nor are lost, the timer's calls do not keep
  an idle session alive, and what somebody drives keeps an active one. Answers that come back in another order do
  shorten the idle window (`session.ts` 182), which is why overlapping calls are excepted.
- `OneAccountPerAddress`, `AccountsAreKept`: two first requests of one person, or one beside an administrator's
  change, make one account and undo nothing, unless two of them found the account missing at the same time: then
  the later one replaces what the earlier one made. `CredentialsAreKnown`: after a seeding that was not stopped
  half way, however many requests shared it and whatever came before, every demo account has the password of the
  file; one that was stopped leaves accounts whose password nobody has, and is not resumed. `TriesAreBounded`:
  fewer than twice the budget in any stretch as long as a window, for an address nobody signed in to; the run's stretch
  of two ticks lies across the edge of two windows of two ticks, and holds three tries of a budget of two.
  `EverySignInIsAnswered`: also when seeding fails or is shared.
- `FilesAreTheOwners`, `RemovedIsGone`, `ZoneShowsTheRecord`: see the comments in `Uploads`; the last one is for
  a user nobody interferes with (`patient`).
- `TotalIsTheSum`, `FundingIsTheSites`, `SubmittedKeepsTheRules`, `EditsKeepToTheirField`,
  `UntouchedFieldsSurvive`, `SubmittedIsWhatWasSigned`: see the comments in `Form`. `EditsKeepToTheirField`
  excepts a combobox that commits over a form edited in its 180 ms: the code does revert that edit. The two about
  submitted requests except a save between the two calls of the submission: the server submits what it holds then.
- `DeskIsCurrent`: left alone, a page agrees with the store after any number of its own decisions, although it
  replaces one row and fetches no list. `DecidedAtItsGate`: however often and however late a decision comes, it takes effect only at the gate its
  screen was about. `SignsWhatWaits`: what an approval signs differs from what was shown only if the request was
  sent back and submitted again.
- `SubmittedNeverChanges`: no late or reordered save touches a submitted request.
- `OneDraftPerPurchase`, `PatientUserLosesNothing`, `AutosaveCatchesUp`: what the page gives a user whose
  calls do not overlap. While signed in, what was typed last is in the editor or is what opening the request shows
  (from the local copy when the server refused it or closing did not save it), unless it is a new form that never got a
  number. After signing out it is on the server if it is worth a save, is taken, and was not typed back to the
  opening. The timer brings to the server what is worth a save and taken; what is refused it sends again every 30
  seconds, in vain. The hypothesis `disturbed = 0` is needed: each of the three fails without it, and
  `draft_mixup` below shows how. `ClosedIsSaved` and `SignOutKeepsTheDraft` below are what the page says of itself.

Bounds. `MaxPrf`, `MaxAudit` and `MaxLog` bound a behaviour of the store and appear in guards only (`Room`,
`createDraft`, `assignRole`); nothing in the code depends on them. Nine entries take a request that Finance returned back to
gate 1, and one that was returned at gate 1 through to its clearance, so everything carried over from a former
round is reached; six take a request straight to the end; four are enough for a draft to be written, given
files, submitted and signed. Two log entries are enough to move somebody and act on it. One PRF number is enough to delete a draft and
give its number to somebody else. `MaxAttachments`, `MaxNotifications` and `BellSize` stand for limits of the code (20, 2000 and
50) and are small so that the limit is hit. `MaxCrashes`, `MaxStops`, `MaxCalls`, `MaxTransfers`, `MaxLogins`, `MaxDrafts`, `MaxPurchases`,
`MaxSid`, `MaxEdits`, `MaxLines` and `MaxDisturbances` bound the other models; one crash and three calls give
every order of a commit, a cold read and a crash; two calls at a time are the least that overlap. `MaxTime` is
one unit past the absolute limit of two (`sessions`), where an idle limit of one makes every comparison hit its
boundary. In `accounts` a window lasts two ticks of three and a password account is tried four times with a budget
of two, so that a window may close and another open within a stretch of two ticks. The texts of `editor` are the form as
it was opened, one that everything takes and one that only the page takes; `MCEditorTexts` checks the same properties
with a site-only form and an incomplete one added and nothing disturbed (284,796 states). Bounds of `desk` beside the numbers: positions are fixed, only the requester writes
requests, a first draft is submitted as it is, the page is opened while no call but a decision is under
way, and answers that reach the login screen are ignored. Two tries at a sign-in and three edits reach an edit beside a pending commit,
a save and a second edit. Symmetry is used where the elements are alike and no
liveness is checked: the tabs and people of `sessions` and the files of `uploads`. Deadlock is checked except in
the engine, whose calls are each made once, the editor, which stops after signing out, and the form, whose
edits are bounded.

Fairness. The store, its pages, the sessions, the uploads and the form have none: people need not act. The engine has weak fairness of
`TransactionStep` only: file operations return, with a result or an error, and the event loop runs every
continuation that is ready. Readers and new calls are not fair. The editor has weak fairness of the timer
(`setInterval` of an open editor), of arrivals and of the handling of answers; losses are bounded, and user
actions are not fair. `Accounts` has weak fairness of the seeding's next step and of each sign-in's, for the same
reason as the engine; stops are bounded.

### Where code and documentation disagree

Each of these runs checks one statement of the repository and ends in a counterexample.

| Run | Statement | What happens |
|---|---|---|
| `draft_mixup` | notice at `page.tsx` 277: you can close and resume the draft at any time | `closeEditor` does not await its save; the answer gives its number to the form opened meanwhile (274), which is then saved over it |
| `reopened_draft` | `page.tsx` 326: everything the editor holds is saved except the signature | `toViewRequest` (`prf-client.ts` 338) drops six fields; a draft reopened without its local copy shows them empty and the next save erases them |
| `signed_unseen` | `SupervisorReview.tsx` 54: the screen lays out everything a decision needs | `decide` (`page.tsx` 421) carries no version: a request returned by a colleague, amended and submitted again is approved from the screen of before |

Further statements the code does not keep. Each definition is in its module, and `tlc -config <cfg> <module>`
shows the counterexample; where no cfg is named, put the property in the cfg of the module's run.

| Property | Module, cfg | Statement | What happens |
|---|---|---|---|
| `IndependentReviews` | `MCReassign`, `MCIndependentReviews` | README 187: two independent reviews | the approver who signed is moved to Finance and clears the same request (`store.ts` 998) |
| `NumbersNeverReused` | `MCNumbering`, `MCNumbering` | `store.ts` 545: from the highest *issued* number | deleting the newest draft gives its number out again (546) |
| `EveryApproverHasABand` | `MCReassign`, `MCBand` | `store.ts` 416: an approver always has a band | `assignRole` (1183) gives none until the next restart; the new approver can sign nothing and is told of nothing |
| `SignedMeansSigned` | `MCLifecycle`, `MCStaleSignature` | `types.ts` 79: the printed name of whoever approved | after a return by Finance and a new submission the record still says the supervisor signed (863) |
| `DoneIsKept` | `StoreEngine`, `MCLostUpdate` | `store.ts` 458: mutations are queued so that none is lost | a cold read that ends after a commit puts the old file in memory (396), and the next commit writes from it |
| `ClosedIsSaved` | `DraftEditor`, `MCEditorClosed` | dialog at `page.tsx` 309: OK saves it as an Open Draft and closes | a form `parseDraft` refuses is closed without having been saved, and a new one is gone; text typed back to that of the opening is not dirty (244) and leaves what was autosaved in between |
| `SignOutKeepsTheDraft` | `DraftEditor`, `MCEditorSignOut` | `page.tsx` 211: save first, or what was typed would be gone | a form without vendor, description and lines is not saved (63, 213), one that is refused cannot be, and every local copy is cleared |
| `SignedOutLeavesNothing` | `DraftEditor`, `MCEditorResidue` | README 101: signing out clears every local draft | the editor's clean-up (`page.tsx` 293) writes the active draft again after `clearLocalCaches` |
| `SignOutRevokes` | `MCSessions`, `MCSignOut` | `logout/route.ts` 10: the sid is revoked server-side as well | when the store fails the error is logged and sign-out answered as done (23); a replayed cookie is served |
| `NothingLooksForged` | `MCSessions`, `MCSingleSignOn` | `api.ts` 114: under single sign-on tokens and the idle window work identically | under single sign-on a write after the session ended starts a new session, whose token the page cannot have, and is refused as forged without the new cookie |
| `ProfileIsOnesOwn` | `MCAccounts`, `MCSharedId` | `store.ts`, `updateProfile`: anyone may edit their own name | the id of a provisioned account is a prefix of the encoded address, so two addresses with the same first twelve characters share one, and a profile is saved to the other's account |
| `SignedFormsAreTaken` | `MCForm`, `MCDrawn` | `RequestForm.tsx`: everything that has to be true before a PRF can be submitted | a drawn one is longer than the 120 characters the server takes (`submit/route.ts` 18) |
| `OfferedSitesCanBeSubmitted` | `MCForm`, as `form` | `RequestForm.tsx` 431: only a custom site has no code yet | a grant site has no site code, and the form's own `findProblems` (432) wants one of any site that was not typed; `submitRequest` asks for the site's name only (855) |
| `SignatureIsNotRestored` | `MCForm`, as `form` | `page.tsx` 327: the signature is deliberately not restored | the local copy restores it (324) |
| `OwnRequestIsNotActionable` | `MCDesk`, as `desk` with `Buyers = {req, mgr}` | `store.ts` 865: one's own request does not sit in one's queue looking actionable | the queue is picked by status alone (`page.tsx` 459) |

Seen while modelling, and not the subject of a property:

- *Sessions.* Adopting a session does not reset `sessionExpired`; resuming with somebody else's cookie keeps the
  former person's open editor; an error answer does not slide the cookie, and moving only the mouse calls nobody;
  a concurrent answer may put back the cookie with the former display name (`api.ts` 205).
- *Accounts.* A seeding that fails refuses every sign-in until a restart; under single sign-on an API call
  before any session call makes the store non-empty and suppresses seeding, so there is no administrator.
- *Uploads.* Refused uploads and deleted drafts leave bytes without a record; an upload under way may land on a
  new draft of the same owner that has the number; a deletion during a download answers 500.
- *Form.* Enter and leaving a combobox commit a partial match as custom; choosing the row "as entered" clears the
  custom mark; a total that rounds to zero is accepted; a malformed vendor address, which the form does not check, has every save refused; the drop-down's names typed before the workbook arrives become unlisted sites.
- *Desk.* `guard` puts the reason of a refused decision where only the requester's form shows it
  (`page.tsx` 174, 531); a notice about a request that is not in the list opens nothing (475); opening the bell
  marks read also what was never shown; an answer closes whatever request is open, with the note typed in it
  (430); approvers and Finance have no way in the page to start a request, though the server lets them.

## 4. Proofs

TLAPS checks these for every set of users, amounts, contents, files, tabs, sessions, calls and readers, every
workbook, and every value of the limits and bounds. All but the invariants, the ladder's theorems,
`DeskImplementsTheStore`, `SessionsTypeOK` and `FormTypeOK` state a property that a run checks, and every safety and action
property that a run finds to hold is one of them.

| Module | Theorems (property) |
|---|---|
| `PrfStoreProofs` | `TierForAmountCovers`, `TierForAmountIsLowest`: an amount is routed to the lowest rung that covers it. `NextTierAboveCovers`, `NextTierAboveCoversMore`: one rung up covers no less, and below the top more |
| `PrfStoreProofs` | `StoreInvAlways`; `TypeCorrect` (`TypeOK`), `TrailAlwaysTrue` (`TrailIsTrue`), `ApprovalsAlwaysAgree` (`ApprovalsAgree`) |
| `PrfStoreProofs` | `SubmittedStays` (`SubmittedIsPermanent`), `ChangesAreAudited` (`EveryChangeIsAudited`), `AlwaysEscalated` (`EscalatedPastItsAuthor`), `StoreImplementsTwoGates` (`ImplementsTwoGates`), `NobodyHearsOfDrafts` (`NoNoticeOfADraft`), `PositionsExplained` (`LogExplainsPositions`), `SignersAreReached` (`SubmissionReachesItsSigners`) |
| `StoreEngineProofs` | `EngineTypes` (`EngineTypeOK`), `RefusalsLeaveNoTrace` (`RefusedLeavesNoTrace`), `DoneIsDurable` (`DoneIsKeptUnlessOvertaken`), `RefusedInTurn` (the part of `EveryCallIsSettled` about refusals) |
| `UploadsProofs` | `UInvAlways`; `UploadsTypeCorrect` (`UploadsTypeOK`), `FilesAlwaysTheOwners` (`FilesAreTheOwners`), `RemovedStaysGone` (`RemovedIsGone`), `ZoneShowsTheFiles` (`ZoneShowsTheRecord`); of the store beside the transfers `UploadsAreAudited`, `UploadsTellNobodyOfDrafts`, `UploadsImplementTwoGates` |
| `DeskProofs` | `DeskImplementsTheStore` (`DSpec => Spec`), `DeskInvAlways`; `DecidedWhereShown` (`DecidedAtItsGate`), `SignedAsItWaits` (`SignsWhatWaits`), `DeskStaysCurrent` (`DeskIsCurrent`) |
| `SessionsProofs` | `SessionsInvAlways`, `SessionsTypeCorrect`; `RevokedStayOut` (`RevokedStaysOut`), `ActAsShown` (`ActsAsShown`), `ActiveUsersStayIn` (`ActiveUserStaysIn`), `UnattendedBrowsersEnd` (`UnattendedBrowserEnds`) |
| `AccountsProofs` | `AccountsInvAlways`; `OnePerAddress` (`OneAccountPerAddress`), `SheetIsRight` (`CredentialsAreKnown`), `KeptUnlessOvertaken` (`AccountsAreKept`), `TriesAlwaysBounded` (`TriesAreBounded`) |
| `DraftEditorProofs` | `EditorInvAlways`, `CalmInvAlways`; `EditorTypes` (`EditorTypeOK`), `SubmittedIsFinal` (`SubmittedNeverChanges`), `OneDraft` (`OneDraftPerPurchase`), `NothingLost` (`PatientUserLosesNothing`) |
| `FormProofs` | `FormInvAlways`; `FormTypes` (`FormTypeOK`), `TotalAlways` (`TotalIsTheSum`), `FundingAlways` (`FundingIsTheSites`), `RulesAlways` (`SubmittedKeepsTheRules`), `SubmittedAsSigned` (`SubmittedIsWhatWasSigned`), `UntouchedSurvive` (`UntouchedFieldsSurvive`), `ControlsKeepToTheirField` (`EditsKeepToTheirField`) |

Assumptions are those of the modules, and TLC evaluates each in the runs: `InfinityAssumption` (an unlimited band
is above all numeric limits), `NoTierAssumption`, `StoreAssumption` (`NoUser` and `System` are not users, the seeded
accounts and contents are well typed, amounts are finite, bounds are naturals, `Users` is finite),
`EngineAssumption` (`NoCopy` is no database), `SessionsAssumption` (limits and bounds are naturals; what stands for
nobody and for the password deployment is nobody's name), `NoTokenAssumption` (an empty jar holds no session),
`AccountsAssumption` (the demo accounts are a sequence of addresses with roles, bounds are naturals, and the budget
of a window allows a try), `UploadsAssumption`, `DeskAssumption` and `EditorAssumption` (people are users, bounds are
naturals), and `FormAssumption` (the workbook is a sequence of rows, sources are offered in at least one period, nobody
types an empty text, the largest price is in whole cents). `SignersAreReached` has a
hypothesis of its own: the store keeps at least as many notices as there are people. Without it the statement is
false, since the notices of one submission would push each other out; the code keeps 2000.

**The store.** None of its three invariants is inductive alone. That a signature is true of the trail needs the
type of the trail and of the signer's session; that the approvals list has a second and a third entry to rewrite
needs the status to say how often it was appended to; that an edit of a returned request keeps its story needs
the place of the return in the trail. `StoreInv` is their conjunction in the form one proves by record: every
record is a `GoodRecord` (typed, trail explains status, approvals fit), and the other variables are typed. Each
operation changes at most one record, so the proof of a step is one lemma about a record (`NewDraftGood`,
`EditGood`, `SubmittedGood`, `SignedGood`, `ClearedGood`, `ReturnedGood`) and one about putting it back (`PutGood`).
The record lemmas rest on what appending one or two entries does to "the entry k places before the last"
(`TrailAfterOne`, `TrailAfterTwo`) and to an approvals list of two or three. `RequiredCovers` ties
routing to authority: whatever band the author's session claims, the tier required at submission covers the amount.

**Its steps.** `StepShape` says what any operation does to the requests: one record is created, deleted, or
replaced as `RecordStep` says. The action properties follow for a record (`RecordStepKeeps`) and then for the
store. For the refinement, each of those shapes is one action of `TwoGates` seen from one request
(`GatesWrite` to `GatesSendBack`); the mapping reads the signer and their authority from the audit trail, which `StoreInv` explains, and `GatesInv`
adds that nobody is named as having cleared a request that is not approved. Two invariants are proved beside `StoreInv`. `BellInv`:
every notice is about a request that is no draft, and such a request is permanent. `PositionsInv`:
the log leads to everybody's position, *and* whoever's session claims an administrator's powers was one by seed or by
an entry. The second part is what makes it inductive, since the authority of whoever moves somebody is taken
from the session.

**Who is told.** `SubmissionReachesItsSigners` asks two things. `TheyCouldSign`: whoever `approversFor` finds passes the
checks of `decideRequest` with a session begun now, and nobody else does. `BellEnds`: what a step
adds stands at the end of the bell, however much is pushed out at its beginning. A submission adds one notice for each
of a set of people (`OneNoticeEach`), so all of them are kept.

**The engine.** `EngineInv` says where a call may be found: the calls of the chain are distinct and
all wait (`InLine`); the file, memory and the readers hold only `Applied` calls, those answered, those cut off by
a crash, and the one renamed but not yet answered (`OnlyApplied`); a draft is made of those and of its own call
(`RunFits`); and unless a read overtook a commit it has grown from the file itself (`GrownFromTheFile`). The last
call of `Applied` is needed because a reader may open the file between the rename and the answer, and then hold a
call whose caller still waits. A refused call is then nowhere, since a refusal comes before the rename.

**Uploads.** A step of `Uploads` is a step of the store or none (`UStepIsStoreStep`), so the store's theorems
carry over; three are restated for `USpec`. `FileInv` says where a file may be: stored bytes whose record is not
made yet are on disk, on no record and in one upload only; a file that was detached is on no record, in no upload,
and all there is of it on disk lies where the removal will look. So a removal cannot miss bytes, and an upload
that ends late cannot bring them back.

What the zone shows is an invariant of a user nobody interferes with (`ZoneInv`): at most one transfer is under way, it
is the page's, and it knows how far it is. Before it changes the record the zone shows what the record holds; after that
the call carries the difference (`Agrees`), and its answer brings both together again. Everything else the data layer
may do leaves the files of the editor's request alone (`OtherwiseSameFiles` and the lemmas beside it).

**The reviewer's page.** `DeskInv` is about the past of a request: of what is shown as submitted, in a row, in the open
request, in an answer or in a decision under way, the request still exists, and either it was submitted again since, or it is back with
its owner, or its content is what is shown (`Shows`). That stays true whatever the store does, since the number
of submissions only grows (`Rounds`, `StaysTrue`). A decision carries no version; what ties it to its screen is that a gate is left only to the other gate,
to Finance's approval or back to the owner, and entered again only by a new submission.

`CurrentInv` is about a page that is left alone: one call is under way at most, and what the page has, with
what that call brings, is what the server would list (`Brings`). Deciding changes one row of that list and leaves it
visible to whoever decided (`DecidedRow`), and marking the notices here and there comes to the same list
(`MarkedEverywhere`), so one replaced row is enough.

**Sessions.** Cookies, tabs, calls and revocations carry copies of the same facts: whose session it is and
when it began. No variable holds them, so `SessionsInv` says that *some* book does (`\E b : Booked(b)`) and that
everything agrees with it; starting a session adds a line, and everything that fitted the book fits the longer
one (`CookieKept`, `CallKept`, `ListKept`). A revoked session stays on the list until the instant it is too old
to be served (`ListFits`), and a call judged before its session was revoked is remembered as `late`. For the two properties of an
undisturbed browser `QuietInv` adds that, while calls neither overlap nor are lost or delayed, the jar is the latest
word of the server, or one answer on its way is, and that a cookie was last slid by somebody at a tab.

**Accounts.** `AccountsInv` says that at most one run of the seeding is under way and, unless one was cut short,
that the run knows every password there is from its first account on, there is none before that, and the file has
them at any other time (`SecretsAreKnown`). `OneAccountPerAddress` is kept because the write looks the address
up again in its own transaction (`UpsertKeeps`), whatever an earlier look-up said. That a
provisioning under way is always of somebody who was not found (`ProvisionsAreUnseen`) leaves edits and overtakings as
the only changes of an account (`StepKeeps`). `AtFinds` and `ByIdFinds` say what the first match of a directory is.

The limiter's count says nothing of two windows together. `TriesFit` adds that the tries of the open window are the
last ones, that it opened with the first of these, and that a try a whole budget before that one came a window earlier;
from that, any two tries that are two budgets apart are a window apart.

**The editor.** `EditorInv` says what may be anywhere at any time, whatever comes late: every form on the server, in a list,
in a copy or in a call is of a purchase its author began, a call about a draft names one,
and the server has room for the creations on their way. `SubmittedIsFinal` needs no more than these types and
the guards of each operation. The other two properties are about a
user who waits. `CalmInv` says that one call is under way at most and what it knows: a creation that was not
served is for a purchase the server has nothing of, one that was served made what it carries; a save, a submission and
a deletion name the draft of their own purchase; a save fails only for a text the server does not take (`CreateFits` to
`LogoutFits`). Of the editor it says that it shows what was typed last and is about a draft of the list, or about one
not made yet that was opened empty (`CalmEditor`), so that a new form that is closed unchanged is the empty one. Of every
row, that the server has the request and that opening it would show what was typed last, from the local copy where the
server refused it (`CalmRows`). Of every purchase, that it is in one of these places or is nothing the server
would take (`Recorded`), and that a text worth a save and taken is on the server, on its way or in the editor, unless
closing found it unchanged (`Saved`).

**The form.** The four invariants need each other. `FormInv` says that every form there is (on the screen, in a
timer of a combobox, in the local copy, signed) adds up and has a source of its site (`GoodForms`), since a late
timer puts back a whole form; that the record agrees with what was last read or written, in all that is read back
(`ReadBack`); and that what was signed was saved and had no problems (`SignedFits`). Sums are folds, that is recursive
functions: a sum is characterised by its table of partial sums (`SumsExist`, `SumsUnique`) and by its lines in any order
(`SumsAnyOrder`), where a least counterexample stands for induction.

What the proofs changed in the models. `Form` made the choices of a site, the description and the lines that
are saved with `SelectSeq`, a recursion nothing can be proved of here; they are made from sets of places now, as are the
lists of notices of `Desk`, which had left out that the bell shows fifty. The limiter's
budget was not assumed to allow anything. `SubmissionReachesItsSigners` turned out to need a bell as long as the list
of people. A proof of `tabAfter` failed because two guards of its `CASE` overlapped, so that
TLC and the semantics of `CASE` could differ: a resumption that succeeded matched both; they are disjoint now. `NoToken` was
not assumed to be no session. `LogExplainsPositions` was not inductive as it stood and said too little:
it compared a position with the last entry only, and now follows the log entry by entry.

Only model-checked:

- liveness (the answers of `EveryCallIsSettled`, `AutosaveCatchesUp`, `EverySignInIsAnswered`): fairness is outside the prover;
- the disagreements of section 3, which are false.

## 5. Not modelled

Password hashing, cookie encoding and signatures, header parsing, string cleaning character by character, the
parsing of the workbook, PDF, CSV and spreadsheet formatting, e-mail drafts and the presentational components:
formatting or cryptography without a state to go wrong in. The standalone build runs the same data layer in a
browser; its shim repeats the handlers. The profile page, the directory, filters, tiles and the choice of a view
are left out of the pages, the groups of single sign-on out of `Accounts`, and every endpoint's budget but
sign-in's out of the limiter. `APPROVAL_LADDER` and `routeFor` are a second ladder that only the display uses.

## 6. Plan

Order: what a wrong answer costs most comes first. The models of the plan are built, and all their safety and action
properties are proved. What is left:

1. Composition: one `PrfStore` transaction as a call of `StoreEngine`, so that the atomicity which `PrfStore` assumes
   is a refinement rather than the argument of section 2. It needs a `PrfStore` whose operations take the database
   as a parameter.
2. The hazards without a property that holds: one person at both gates (`store.ts` 998) and the clean-up that writes
   local copies (`page.tsx` 293). Both are stated in section 3 as what the code does not keep; were the code changed,
   `IndependentReviews` and `SignedOutLeavesNothing` would become properties to keep and to prove.
3. The directory and the profile page, and the budgets of the other endpoints.
