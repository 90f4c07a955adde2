------------------------------ MODULE Accounts ------------------------------
(***************************************************************************)
(* Where accounts come from and what happens to them: the demo accounts    *)
(* of src/lib/seed.ts, written once by whoever asks first, the people a    *)
(* proxy vouches for (provisionFromIdentity and upsertUser of store.ts),   *)
(* the password sign-in with its limiter (login/route.ts, ratelimit.ts),   *)
(* profiles and positions.                                                 *)
(*                                                                         *)
(* Accounts are found by address when people sign in and by id afterwards, *)
(* and both by the first match in the order of the directory.              *)
(***************************************************************************)
EXTENDS PrfAuthority, Sequences, SequencesExt, FiniteSetsExt

CONSTANTS
  Addresses,
  SeedUsers,    \* the demo accounts in order: [email, role]
  ssoId,        \* the first twelve characters of an address, which the id of a vouched-for account keeps
  Names,
  Positions,    \* the roles an administrator gives here
  NoCookie,
  BudgetMax,    \* BUDGETS.login.max
  Window,       \* BUDGETS.login.windowMs
  MaxTime,      \* bound: the clock
  MaxCalls,     \* bound: sign-ins under way at the same time
  MaxLogins,    \* bound: passwords tried on each account
  MaxLog,       \* bound: length of the account log
  MaxStops      \* bound: crashes and failed writes

ASSUME AccountsAssumption ==
  /\ SeedUsers \in Seq([email : Addresses, role : Roles])
  /\ Positions \subseteq Roles
  /\ {BudgetMax, Window, MaxTime, MaxCalls, MaxLog, MaxStops} \subseteq Nat
  /\ MaxLogins \in [Addresses -> Nat]
  /\ BudgetMax > 0

VARIABLES
  directory,    \* database.users, in order
  accountLog,   \* database.accountLog
  memo,         \* the promise "seeding" of seed.ts: "none", "running", "done", "failed"
  seeders,      \* the runs of its body that are under way
  credentials,  \* seed-credentials.txt: the run it is from, 0 before it is written
  cookies,      \* the session of each person's browser
  calls,        \* sign-ins under way
  counters,     \* the fixed windows of the limiter, by account
  now,          \* the clock
  stops,        \* crashes and failures so far
  seedings,     \* runs of the seeding so far
  interrupted,  \* history: a seeding was cut short between its first account and its file
  tried         \* history: passwords tried since the account last signed in, by time

avars == <<directory, accountLog, memo, seeders, credentials, cookies, calls,
           counters, now, stops, seedings, interrupted, tried>>
store == <<directory, accountLog>>
seed  == <<memo, seeders, credentials, seedings>>
limit == <<counters, tried>>
environment == <<now, stops, interrupted>>

Runs == 1..(MaxStops + 1)
Id   == {<<"sso", ssoId[a], 0>> : a \in Addresses} \cup ({"user"} \X Addresses \X Runs)

\* secret is the run that drew the password, 0 for "".
Account == [email : Addresses, id : Id, role : Roles, name : Names, secret : Runs \cup {0}]
Session == [email : Addresses, id : Id, role : Roles, name : Names]
Change  == [actor : Id, subject : Id, from : Names \cup Roles, to : Names \cup Roles]

firstName == CHOOSE n \in Names : TRUE

Emails   == {directory[i].email : i \in DOMAIN directory}
At(a)    == SelectInSeq(directory, LAMBDA account : account.email = a)
ById(id) == SelectInSeq(directory, LAMBDA account : account.id = id)

session(account) == [email |-> account.email, id |-> account.id, role |-> account.role, name |-> account.name]

Init ==
  /\ directory = <<>> /\ accountLog = <<>>
  /\ memo = "none" /\ seeders = {} /\ credentials = 0 /\ seedings = 0
  /\ cookies = [a \in Addresses |-> NoCookie]
  /\ calls = {}
  /\ counters = [a \in Addresses |-> [count |-> 0, resetAt |-> 0]]
  /\ tried = [a \in Addresses |-> <<>>]
  /\ now = 0 /\ stops = 0 /\ interrupted = FALSE

-----------------------------------------------------------------------------
(* The directory.                                                          *)

\* Fault: an account is added without looking for one.
upsertUser_Push(account) == directory' = Append(directory, account)

\* In one transaction: everything the caller brings replaces what is there.
upsertUser(account) ==
  directory' = IF At(account.email) = 0 THEN Append(directory, account)
               ELSE [directory EXCEPT ![At(account.email)] = account]

logged(actor, subject, from, to) ==
  IF from = to THEN UNCHANGED accountLog
  ELSE /\ Len(accountLog) < MaxLog
       /\ accountLog' = Append(accountLog, [actor |-> actor, subject |-> subject, from |-> from, to |-> to])

\* The profile page: one's own name, which the cookie takes over.
updateProfile(a, name) ==
  /\ cookies[a] # NoCookie
  /\ LET i == ById(cookies[a].id)
     IN  /\ i # 0
         /\ directory' = [directory EXCEPT ![i].name = name]
         /\ logged(cookies[a].id, directory[i].id, directory[i].name, name)
  /\ cookies' = [cookies EXCEPT ![a].name = name]
  /\ UNCHANGED <<seed, calls, limit, environment>>

assignRole(a, id, role) ==
  /\ cookies[a] # NoCookie /\ isAdmin(cookies[a].role) /\ id # cookies[a].id
  /\ LET i == ById(id)
     IN  /\ i # 0
         /\ directory' = [directory EXCEPT ![i].role = role]
         /\ logged(cookies[a].id, id, directory[i].role, role)
  /\ UNCHANGED <<seed, cookies, calls, limit, environment>>

-----------------------------------------------------------------------------
(* Seeding.                                                                *)

seedAccount(run, i) ==
  [email |-> SeedUsers[i].email, id |-> <<"user", SeedUsers[i].email, run>>,
   role |-> SeedUsers[i].role, name |-> firstName, secret |-> run]

\* Fault: every page that asks starts a seeding of its own.
MustSeed_Always == memo # "done"

MustSeed == memo = "none"

\* The first who asks starts the body, the others wait for it.
ensureSeeded ==
  IF MustSeed /\ seedings < MaxStops + 1
  THEN /\ memo' = "running" /\ seedings' = seedings + 1
       /\ seeders' = seeders \cup {[run |-> seedings + 1, next |-> 0]}
  ELSE UNCHANGED <<memo, seedings, seeders>>

\* The page asks for its session or for the list of demo accounts.
visit ==
  /\ ensureSeeded
  /\ UNCHANGED <<store, credentials, cookies, calls, limit, environment>>

Step(seeder, to) == seeders' = (seeders \ {seeder}) \cup to

\* It ends at once if anybody has an account.
shortCircuit(seeder) ==
  /\ seeder.next = 0
  /\ IF directory # <<>> THEN Step(seeder, {}) /\ memo' = "done"
     ELSE Step(seeder, {[seeder EXCEPT !.next = 1]}) /\ UNCHANGED memo
  /\ UNCHANGED <<store, credentials, seedings, cookies, calls, limit, environment>>

\* One transaction for each account.
seedNext(seeder) ==
  /\ seeder.next \in DOMAIN SeedUsers
  /\ upsertUser(seedAccount(seeder.run, seeder.next))
  /\ Step(seeder, {[seeder EXCEPT !.next = @ + 1]})
  /\ UNCHANGED <<accountLog, memo, credentials, seedings, cookies, calls, limit, environment>>

writeCredentials(seeder) ==
  /\ seeder.next = Len(SeedUsers) + 1
  /\ credentials' = seeder.run
  /\ Step(seeder, {}) /\ memo' = "done"
  /\ UNCHANGED <<store, seedings, cookies, calls, limit, environment>>

stop ==
  /\ stops < MaxStops /\ stops' = stops + 1
  /\ interrupted' = (interrupted \/ \E s \in seeders : s.next > 1)

\* Fault: the error is caught and the promise never settles.
afterFailure_Swallowed == "running"

\* The rejected promise is kept: every page that asks gets the same error.
afterFailure == "failed"

\* A transaction or the file cannot be written.
seedFails(seeder) ==
  /\ stop
  /\ Step(seeder, {}) /\ memo' = afterFailure
  /\ UNCHANGED <<store, credentials, seedings, cookies, calls, limit, now>>

Restarted == "none"

\* The process stops; what it had in memory is gone.
Crash ==
  /\ stop
  /\ memo' = Restarted /\ seeders' = {} /\ calls' = {}
  /\ counters' = [a \in Addresses |-> [count |-> 0, resetAt |-> 0]]
  /\ tried' = [a \in Addresses |-> <<>>]
  /\ UNCHANGED <<store, credentials, seedings, cookies, now>>

-----------------------------------------------------------------------------
(* Single sign-on.                                                         *)

Slots == 1..MaxCalls
Free  == Slots \ {call.slot : call \in calls}

Leave(call, to) == calls' = (calls \ {call}) \cup to
signedIn(account) == cookies' = [cookies EXCEPT ![account.email] = session(account)]

\* Fault: the account is made anew each time.
known_Never(a) == FALSE

known(a) == a \in Emails

\* The first half, outside the queue of transactions.  unseen is history:
\* there was no such account when it was looked up.
provisionFromIdentity(a) ==
  /\ IF known(a)
     THEN signedIn(directory[At(a)]) /\ UNCHANGED calls
     ELSE /\ Free # {}
          /\ calls' = calls \cup {[kind |-> "provision", slot |-> Min(Free), email |-> a, unseen |-> a \notin Emails]}
          /\ UNCHANGED cookies
  /\ UNCHANGED <<store, seed, limit, environment>>

\* The second half, and the session of what it brought.
provisioned(call) ==
  /\ call.kind = "provision"
  /\ LET account == [email |-> call.email, id |-> <<"sso", ssoId[call.email], 0>>,
                     role |-> "REQUESTER", name |-> firstName, secret |-> 0]
     IN  upsertUser(account) /\ signedIn(account)
  /\ Leave(call, {})
  /\ UNCHANGED <<accountLog, seed, limit, environment>>

-----------------------------------------------------------------------------
(* Signing in with a password.                                             *)

\* The sheet of demo accounts: the file's password for an address that both
\* the file and the directory know.
demoAccounts(a) ==
  IF credentials # 0 /\ a \in Emails /\ \E i \in DOMAIN SeedUsers : SeedUsers[i].email = a
  THEN {credentials} ELSE {}

\* The page sends an address and a password, the one of the sheet or a
\* mistaken one (0).
login(a) ==
  /\ Free # {} /\ Len(tried[a]) + Cardinality({call \in calls : call.email = a}) < MaxLogins[a]
  /\ \E secret \in {0} \cup demoAccounts(a) :
       calls' = calls \cup {[kind |-> "login", slot |-> Min(Free), email |-> a, secret |-> secret]}
  /\ ensureSeeded
  /\ UNCHANGED <<store, credentials, cookies, limit, environment>>

\* The handler waits for the seeding first.  If that failed it answers 500.
loginFails(call) ==
  /\ call.kind = "login" /\ memo = "failed"
  /\ Leave(call, {})
  /\ UNCHANGED <<store, seed, cookies, limit, environment>>

\* Fault: the window closes an instant early.
hit_ClosesEarly(entry) ==
  IF now + 1 >= entry.resetAt THEN [count |-> 1, resetAt |-> now + Window]
  ELSE [entry EXCEPT !.count = Min({@, BudgetMax}) + 1]

\* overLimit: a window opens with the first try after the last one closed.
\* A count beyond the budget is as good as any other, and the entries that
\* the sweep removes are closed ones.
hit(entry) ==
  IF now >= entry.resetAt THEN [count |-> 1, resetAt |-> now + Window]
  ELSE [entry EXCEPT !.count = Min({@, BudgetMax}) + 1]

loginChecked(call) ==
  LET entry == hit(counters[call.email])
  IN  /\ call.kind = "login" /\ memo = "done"
      /\ counters' = [counters EXCEPT ![call.email] = entry]
      /\ IF entry.count > BudgetMax THEN Leave(call, {}) /\ UNCHANGED tried
         ELSE /\ tried' = [tried EXCEPT ![call.email] = Append(@, now)]
              /\ Leave(call, {[kind |-> "verify", slot |-> call.slot, secret |-> call.secret, email |-> call.email,
                               user |-> {directory[i] : i \in {At(call.email)} \ {0}}]})
      /\ UNCHANGED <<store, seed, cookies, environment>>

\* scrypt takes its time; the session is of the account as it was found.
verified(call) ==
  /\ call.kind = "verify"
  /\ Leave(call, {})
  /\ IF \E user \in call.user : user.secret # 0 /\ user.secret = call.secret
     THEN /\ \E user \in call.user : signedIn(user)
          /\ counters' = [counters EXCEPT ![call.email] = [count |-> 0, resetAt |-> 0]]
          /\ tried' = [tried EXCEPT ![call.email] = <<>>]
     ELSE UNCHANGED <<cookies, limit>>
  /\ UNCHANGED <<store, seed, environment>>

Tick ==
  /\ now < MaxTime /\ now' = now + 1
  /\ UNCHANGED <<store, seed, cookies, calls, limit, stops, interrupted>>

-----------------------------------------------------------------------------
Seeding == \E seeder \in seeders : shortCircuit(seeder) \/ seedNext(seeder) \/ writeCredentials(seeder)

Answering(slot) ==
  \E call \in {c \in calls : c.slot = slot} :
    IF call.kind = "provision" THEN provisioned(call)
    ELSE IF call.kind = "verify" THEN verified(call)
    ELSE loginFails(call) \/ loginChecked(call)

Next ==
  \/ visit \/ Seeding
  \/ \E slot \in Slots : Answering(slot)
  \/ \E seeder \in seeders : seedFails(seeder)
  \/ Crash \/ Tick
  \/ \E a \in Addresses :
       \/ provisionFromIdentity(a) \/ login(a)
       \/ \E name \in Names : updateProfile(a, name)
       \/ \E id \in {directory[i].id : i \in DOMAIN directory}, role \in Positions : assignRole(a, id, role)

\* The process goes on with what it has begun; nobody has to sign in.
Spec ==
  /\ Init /\ [][Next]_avars
  /\ WF_avars(Seeding) /\ \A slot \in Slots : WF_avars(Answering(slot))

-----------------------------------------------------------------------------
(* Properties.                                                             *)

\* Every variable stays in its type, and a seeding the pages wait for is one
\* that somebody is working at.
AccountsTypeOK ==
  /\ directory \in Seq(Account) /\ accountLog \in Seq(Change)
  /\ memo \in {"none", "running", "done", "failed"}
  /\ seeders \subseteq [run : Runs, next : 0..Len(SeedUsers) + 1]
  /\ memo = "running" <=> seeders # {}
  /\ credentials \in 0..seedings
  /\ cookies \in [Addresses -> Session \cup {NoCookie}]
  /\ Cardinality(calls) <= MaxCalls

\* However many first requests of one person arrive together, and whoever
\* else writes accounts, an address has one account.
OneAccountPerAddress ==
  \A i, j \in DOMAIN directory : directory[i].email = directory[j].email => i = j

\* seed.ts: "Each account gets a random one on first run, [...] written to
\* .secure-data/seed-credentials.txt".  Once the seeding is over, and was not
\* interrupted, every account that has a password has the one in the file.
CredentialsAreKnown ==
  memo = "done" /\ ~interrupted =>
    \A i \in DOMAIN directory : directory[i].secret \in {0, credentials}

\* The account of address a is about to be overtaken: somebody found it
\* missing, by looking it up or by beginning to seed, and it is there now.
Overtaken(a) ==
  \/ \E call \in calls : call.kind = "provision" /\ call.email = a /\ call.unseen
  \/ \E s \in seeders : s.next \in DOMAIN SeedUsers /\ SeedUsers[s.next].email = a

\* store.ts: "Roles are granted here, never asserted by a header".  An
\* account keeps its address, its id and its password, and its name and role
\* change only with an entry of the log that says from what to what, however
\* often its owner signs in.  The exception is an account two writers create
\* at once: the later one replaces what the earlier one made.
AccountsAreKept ==
  [][\A i \in DOMAIN directory :
       LET before == directory[i]
           after  == directory'[i]
       IN  before # after /\ ~Overtaken(before.email) =>
             /\ before.email = after.email /\ before.id = after.id /\ before.secret = after.secret
             /\ Len(accountLog') = Len(accountLog) + 1
             /\ Last(accountLog').subject = before.id
             /\ <<Last(accountLog').from, Last(accountLog').to>>
                \in {<<before.role, after.role>>, <<before.name, after.name>>}
             /\ before.role = after.role \/ before.name = after.name]_avars

\* ratelimit.ts: "Failed sign-ins are throttled hard".  A window opens with
\* a try, so in a stretch of time as long as a window, which may lie across
\* the edge of two, fewer than twice its passwords are tried on an account
\* that nobody signed in to.
TriesAreBounded ==
  \A a \in Addresses, t \in 0..MaxTime :
    Cardinality({k \in DOMAIN tried[a] : tried[a][k] \in t..(t + Window - 1)}) < 2 * BudgetMax

\* Every sign-in is answered, also one that waits for a seeding that fails or
\* that somebody else began.
EverySignInIsAnswered ==
  \A slot \in Slots :
    (\E call \in calls : call.slot = slot /\ call.kind = "login")
      ~> ~(\E call \in calls : call.slot = slot /\ call.kind = "login")

\* store.ts, updateProfile: "Anyone may edit their own name and contact
\* address."  What a person edits is the account of their own address.
ProfileIsOnesOwn ==
  [][\A a \in Addresses, name \in Names :
       updateProfile(a, name) =>
         \A i \in DOMAIN directory : directory'[i] # directory[i] => directory[i].email = a]_avars
=============================================================================
