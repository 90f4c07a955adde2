--------------------------- MODULE AccountsProofs ---------------------------
(***************************************************************************)
(* What is proved of Accounts: for any demo accounts, any people a proxy   *)
(* vouches for and any interleaving of seedings, provisionings, sign-ins   *)
(* and crashes, an address has one account, the file of demo credentials   *)
(* is right unless a seeding was cut short, and an account keeps what it   *)
(* is unless the log says otherwise; and the limiter does what it says.    *)
(***************************************************************************)
EXTENDS Accounts, FiniteSetTheorems, WellFoundedInduction, TLAPS

(***************************************************************************)
(* The invariant.                                                          *)
(***************************************************************************)

\* What an account is made of.  An account that a proxy vouches for begins
\* with firstName, and no constant says that people have names.
AnyId == {<<"sso", ssoId[a], 0>> : a \in Addresses} \cup ({"user"} \X Addresses \X Nat)
Entry == [email : Addresses, id : AnyId, role : Roles, name : Names \cup {firstName}, secret : Nat]

\* Every password there is, is one of these.
SecretsIn(S) == \A i \in DOMAIN directory : directory[i].secret \in S

\* At most one run of the seeding is under way, and only while the others
\* wait for it.
OneSeeder ==
  /\ seedings \in Nat /\ seeders \subseteq [run : Nat, next : Nat]
  /\ memo # "running" => seeders = {}
  /\ \A s, r \in seeders : s = r

\* Between its first account and its file a run knows every password, before
\* its first account there is none, and at any other time the file has them.
SecretsAreKnown ==
  ~interrupted =>
    /\ (\A s \in seeders : s.next = 0) => SecretsIn({0, credentials})
    /\ \A s \in seeders : /\ s.next >= 1 => SecretsIn({0, s.run})
                          /\ s.next = 1 => SecretsIn({0})

\* A provisioning under way is of somebody who was not found.
ProvisionsAreUnseen ==
  \A call \in calls : call.kind = "provision" => call.email \in Addresses /\ call.unseen

AccountsInv ==
  /\ directory \in Seq(Entry) /\ OneAccountPerAddress
  /\ \E S : accountLog \in Seq(S)
  /\ ProvisionsAreUnseen /\ OneSeeder /\ SecretsAreKnown

-----------------------------------------------------------------------------
(* Looking somebody up.                                                    *)

\* A non-empty set of naturals has a least element.
LEMMA LeastExists ==
  ASSUME NEW S \in SUBSET Nat, S # {}
  PROVE  \E m \in S : \A n \in S : m <= n
<1>. DEFINE R == OpToRel(<, Nat)
<1>1. IsWellFoundedOn(R, Nat)
  BY NatLessThanWellFounded
<1>2. \A m, n \in Nat : <<n, m>> \in R <=> n < m
  BY DEF OpToRel
<1>. HIDE DEF R
<1>3. PICK m \in S : \A n \in S : ~(<<n, m>> \in R)
  BY <1>1, WFMin
<1>4. ASSUME NEW n \in S  PROVE m <= n
  <2>1. m \in Nat /\ n \in Nat /\ ~(n < m)
    BY <1>2, <1>3
  <2>. QED
    BY <2>1
<1>. QED
  BY <1>4

\* Min finds it.
LEMMA MinIsIn ==
  ASSUME NEW S \in SUBSET Nat, S # {}
  PROVE  Min(S) \in S
<1>1. \E x \in S : \A y \in S : x =< y
  BY LeastExists
<1>. QED
  BY <1>1 DEF Min

\* The first account of an address, if it has one.
LEMMA AtFinds ==
  ASSUME directory \in Seq(Entry), NEW a
  PROVE  \/ At(a) = 0 /\ \A i \in DOMAIN directory : directory[i].email # a
         \/ At(a) \in DOMAIN directory /\ At(a) # 0 /\ directory[At(a)].email = a
<1>. DEFINE I == {i \in 1..Len(directory) : directory[i].email = a}
<1>1. At(a) = IF I # {} THEN Min(I) ELSE 0
  BY DEF At, SelectInSeq
<1>2. DOMAIN directory = 1..Len(directory) /\ Len(directory) \in Nat
  OBVIOUS
<1>3. I \in SUBSET Nat /\ 0 \notin I
  BY <1>2
<1>4. CASE I = {}
  BY <1>1, <1>2, <1>4
<1>5. CASE I # {}
  <2>1. Min(I) \in I
    <3>. HIDE DEF I
    <3>. QED
      BY <1>3, <1>5, MinIsIn
  <2>. QED
    BY <1>1, <1>2, <1>3, <1>5, <2>1
<1>. QED
  BY <1>4, <1>5

\* The first account of an id, if it has one.
LEMMA ByIdFinds ==
  ASSUME directory \in Seq(Entry), NEW id, ById(id) # 0
  PROVE  ById(id) \in DOMAIN directory /\ directory[ById(id)].id = id
<1>. DEFINE I == {i \in 1..Len(directory) : directory[i].id = id}
<1>1. ById(id) = IF I # {} THEN Min(I) ELSE 0
  BY DEF ById, SelectInSeq
<1>2. DOMAIN directory = 1..Len(directory) /\ Len(directory) \in Nat
  OBVIOUS
<1>3. I \in SUBSET Nat /\ I # {}
  BY <1>1, <1>2
<1>4. Min(I) \in I
  <2>. HIDE DEF I
  <2>. QED
    BY <1>3, MinIsIn
<1>. QED
  BY <1>1, <1>2, <1>3, <1>4

-----------------------------------------------------------------------------
(* Writing the directory.                                                  *)

\* An account is written under its address: it takes the place of the one
\* there is, or the next free one.
LEMMA UpsertKeeps ==
  ASSUME directory \in Seq(Entry), OneAccountPerAddress, NEW account \in Entry, upsertUser(account)
  PROVE  /\ directory' \in Seq(Entry) /\ OneAccountPerAddress'
         /\ \A i \in DOMAIN directory' :
              directory'[i] = account \/ (i \in DOMAIN directory /\ directory'[i] = directory[i])
         /\ \A i \in DOMAIN directory :
              directory'[i] = directory[i] \/ directory[i].email = account.email
<1>. DEFINE a == account.email
<1>1. CASE At(a) = 0
  <2>1. directory' = Append(directory, account)
    BY <1>1 DEF upsertUser
  <2>2. \A i \in DOMAIN directory : directory[i].email # a
    BY <1>1, AtFinds
  <2>3. /\ directory' \in Seq(Entry) /\ DOMAIN directory' = 1..Len(directory) + 1
        /\ DOMAIN directory = 1..Len(directory) /\ Len(directory) \in Nat
        /\ \A i \in 1..Len(directory) : directory'[i] = directory[i]
        /\ directory'[Len(directory) + 1] = account
    BY <2>1
  <2>4. \A i \in DOMAIN directory' : i \in DOMAIN directory \/ i = Len(directory) + 1
    BY <2>3
  <2>5. OneAccountPerAddress'
    BY <2>2, <2>3, <2>4 DEF OneAccountPerAddress
  <2>. QED
    BY <2>3, <2>4, <2>5
<1>2. CASE At(a) # 0
  <2>1. At(a) \in DOMAIN directory /\ directory[At(a)].email = a
    BY <1>2, AtFinds
  <2>a. directory' = [directory EXCEPT ![At(a)] = account]
    BY <1>2 DEF upsertUser
  <2>2. /\ directory' \in Seq(Entry) /\ DOMAIN directory' = DOMAIN directory
        /\ \A i \in DOMAIN directory : directory'[i] = IF i = At(a) THEN account ELSE directory[i]
    BY <2>1, <2>a
  <2>3. \A i \in DOMAIN directory : directory'[i].email = directory[i].email
    BY <2>1, <2>2
  <2>4. OneAccountPerAddress'
    BY <2>2, <2>3 DEF OneAccountPerAddress
  <2>. QED
    BY <2>1, <2>2, <2>4
<1>. QED
  BY <1>1, <1>2

\* Writing the name or the role of an account leaves it one, and the rest of it
\* as it was.
LEMMA EntryWritten ==
  ASSUME NEW E, NEW I, NEW R, NEW N, NEW S,
         NEW r \in [email : E, id : I, role : R, name : N, secret : S], NEW name \in N, NEW role \in R
  PROVE  /\ [r EXCEPT !.name = name] \in [email : E, id : I, role : R, name : N, secret : S]
         /\ [r EXCEPT !.name = name].name = name /\ [r EXCEPT !.name = name].role = r.role
         /\ [r EXCEPT !.name = name].email = r.email /\ [r EXCEPT !.name = name].id = r.id
         /\ [r EXCEPT !.name = name].secret = r.secret
         /\ [r EXCEPT !.role = role] \in [email : E, id : I, role : R, name : N, secret : S]
         /\ [r EXCEPT !.role = role].role = role /\ [r EXCEPT !.role = role].name = r.name
         /\ [r EXCEPT !.role = role].email = r.email /\ [r EXCEPT !.role = role].id = r.id
         /\ [r EXCEPT !.role = role].secret = r.secret
OBVIOUS

\* Two accounts that agree in everything are the same.
LEMMA SameEntry ==
  ASSUME NEW q \in Entry, NEW r \in Entry,
         q.email = r.email, q.id = r.id, q.role = r.role, q.name = r.name, q.secret = r.secret
  PROVE  q = r
BY DEF Entry

\* One account gets another that is like it in all but its name and role.
Like(q, r) == q \in Entry /\ q.email = r.email /\ q.id = r.id /\ q.secret = r.secret

\* Such an edit keeps the directory one, and its passwords.
LEMMA EditKeeps ==
  ASSUME directory \in Seq(Entry), OneAccountPerAddress, NEW i \in DOMAIN directory, NEW q,
         Like(q, directory[i]), directory' = [directory EXCEPT ![i] = q]
  PROVE  /\ directory' \in Seq(Entry) /\ OneAccountPerAddress'
         /\ DOMAIN directory' = DOMAIN directory
         /\ \A j \in DOMAIN directory : directory'[j] = IF j = i THEN q ELSE directory[j]
         /\ \A j \in DOMAIN directory : directory'[j].secret = directory[j].secret
<1>1. /\ directory' \in Seq(Entry) /\ DOMAIN directory' = DOMAIN directory
      /\ \A j \in DOMAIN directory : directory'[j] = IF j = i THEN q ELSE directory[j]
  BY DEF Like
<1>2. \A j \in DOMAIN directory : directory'[j].email = directory[j].email /\ directory'[j].secret = directory[j].secret
  BY <1>1 DEF Like
<1>. QED
  BY <1>1, <1>2 DEF OneAccountPerAddress

\* The directory keeps its passwords, and the seeding goes on as it was.
LEMMA SecretsStay ==
  ASSUME SecretsAreKnown, OneSeeder, DOMAIN directory' = DOMAIN directory,
         \A i \in DOMAIN directory : directory'[i].secret = directory[i].secret,
         UNCHANGED <<memo, seeders, credentials, seedings, interrupted>>
  PROVE  SecretsAreKnown' /\ OneSeeder'
<1>1. \A S : SecretsIn(S) => SecretsIn(S)'
  BY DEF SecretsIn
<1>2. OneSeeder'
  BY DEF OneSeeder
<1>3. SecretsAreKnown'
  BY <1>1 DEF SecretsAreKnown
<1>. QED
  BY <1>2, <1>3

-----------------------------------------------------------------------------
(* The seeding.                                                            *)

\* The demo accounts are a sequence.
LEMMA SeedUsersType ==
  /\ SeedUsers \in Seq([email : Addresses, role : Roles]) /\ Len(SeedUsers) \in Nat
  /\ DOMAIN SeedUsers = 1..Len(SeedUsers)
BY AccountsAssumption DEF AccountsAssumption

\* A directory that stays keeps what is known of its passwords.
LEMMA SecretsKept ==
  ASSUME directory' = directory, NEW S, SecretsIn(S)
  PROVE  SecretsIn(S)'
BY DEF SecretsIn

\* Whoever asks first starts a run.
LEMMA SeedingStarts ==
  ASSUME OneSeeder, SecretsAreKnown, ensureSeeded, UNCHANGED <<directory, credentials, interrupted>>
  PROVE  OneSeeder' /\ SecretsAreKnown'
<1>1. CASE UNCHANGED <<memo, seedings, seeders>>
  BY <1>1, SecretsKept DEF OneSeeder, SecretsAreKnown
<1>2. CASE /\ memo = "none" /\ memo' = "running" /\ seedings' = seedings + 1
           /\ seeders' = seeders \cup {[run |-> seedings + 1, next |-> 0]}
  <2>. DEFINE new == [run |-> seedings + 1, next |-> 0]
  <2>1. seeders = {} /\ seeders' = {new} /\ seedings' \in Nat
    BY <1>2 DEF OneSeeder
  <2>2. new \in [run : Nat, next : Nat] /\ new.next = 0
    BY DEF OneSeeder
  <2>. HIDE DEF new
  <2>3. OneSeeder'
    BY <1>2, <2>1, <2>2 DEF OneSeeder
  <2>4. ~interrupted => SecretsIn({0, credentials})
    BY <2>1 DEF SecretsAreKnown
  <2>5. SecretsAreKnown'
    BY <2>1, <2>2, <2>4, SecretsKept DEF SecretsAreKnown
  <2>. QED
    BY <2>3, <2>5
<1>. QED
  BY <1>1, <1>2 DEF ensureSeeded, MustSeed

\* A run that moves on is a run.
LEMMA NextSeeded ==
  ASSUME NEW s \in [run : Nat, next : Nat]
  PROVE  /\ [s EXCEPT !.next = 1] \in [run : Nat, next : Nat]
         /\ [s EXCEPT !.next = 1].next = 1 /\ [s EXCEPT !.next = 1].run = s.run
         /\ [s EXCEPT !.next = @ + 1] \in [run : Nat, next : Nat]
         /\ [s EXCEPT !.next = @ + 1].next = s.next + 1 /\ [s EXCEPT !.next = @ + 1].run = s.run
<1>. DEFINE N == Nat
            n == s.next + 1
            k == 1
<1>1. n \in N /\ k \in N /\ s \in [run : N, next : N]
  OBVIOUS
<1>2. [s EXCEPT !.next = @ + 1] = [s EXCEPT !.next = n]
  OBVIOUS
<1>. HIDE DEF N, n, k
<1>3. /\ [s EXCEPT !.next = n] \in [run : N, next : N]
      /\ [s EXCEPT !.next = n].next = n /\ [s EXCEPT !.next = n].run = s.run
      /\ [s EXCEPT !.next = k] \in [run : N, next : N]
      /\ [s EXCEPT !.next = k].next = k /\ [s EXCEPT !.next = k].run = s.run
  BY <1>1
<1>. QED
  BY <1>2, <1>3 DEF N, n, k

\* The only run there is moves on.
LEMMA OnlySeeder ==
  ASSUME OneSeeder, NEW s \in seeders, NEW to, Step(s, to)
  PROVE  /\ seeders = {s} /\ seeders' = to /\ s \in [run : Nat, next : Nat] /\ memo = "running"
BY DEF OneSeeder, Step

\* A run ends at once, or goes on to its first account;
LEMMA ShortCircuitKeeps ==
  ASSUME AccountsInv, NEW s \in seeders, shortCircuit(s)
  PROVE  AccountsInv'
<1>1. /\ s.next = 0 /\ UNCHANGED <<directory, accountLog, credentials, seedings, calls, interrupted>>
  BY DEF shortCircuit, store, environment
<1>2. CASE directory # <<>> /\ Step(s, {}) /\ memo' = "done"
  <2>1. seeders = {s} /\ seeders' = {}
    BY <1>2, OnlySeeder DEF AccountsInv
  <2>2. OneSeeder'
    BY <1>1, <2>1 DEF OneSeeder, AccountsInv
  <2>3. SecretsAreKnown'
    BY <1>1, <2>1, SecretsKept DEF SecretsAreKnown, AccountsInv
  <2>. QED
    BY <1>1, <2>2, <2>3 DEF AccountsInv, ProvisionsAreUnseen, OneAccountPerAddress
<1>3. CASE directory = <<>> /\ Step(s, {[s EXCEPT !.next = 1]}) /\ memo' = memo
  <2>a. PICK t : t = [s EXCEPT !.next = 1]
    OBVIOUS
  <2>1. /\ seeders = {s} /\ seeders' = {t} /\ memo = "running"
        /\ t \in [run : Nat, next : Nat] /\ t.next = 1
    BY <1>3, <2>a, OnlySeeder, NextSeeded DEF AccountsInv
  <2>2. OneSeeder'
    BY <1>1, <1>3, <2>1 DEF OneSeeder, AccountsInv
  <2>3. \A S : SecretsIn(S)'
    BY <1>1, <1>3 DEF SecretsIn
  <2>4. SecretsAreKnown'
    BY <2>1, <2>3 DEF SecretsAreKnown
  <2>. QED
    BY <1>1, <2>2, <2>4 DEF AccountsInv, ProvisionsAreUnseen, OneAccountPerAddress
<1>. QED
  BY <1>2, <1>3 DEF shortCircuit

\* What a sequence holds is of its set.
LEMMA ItemFits ==
  ASSUME NEW S, NEW q \in Seq(S), NEW i \in DOMAIN q
  PROVE  q[i] \in S
OBVIOUS

\* An account of the seed is an account.
LEMMA SeedAccountFits ==
  ASSUME NEW run \in Nat, NEW i \in DOMAIN SeedUsers
  PROVE  seedAccount(run, i) \in Entry /\ seedAccount(run, i).secret = run
         /\ seedAccount(run, i).email = SeedUsers[i].email
<1>1. SeedUsers[i] \in [email : Addresses, role : Roles]
  <2>1. SeedUsers \in Seq([email : Addresses, role : Roles])
    BY SeedUsersType
  <2>. QED
    BY <2>1, ItemFits
<1>2. <<"user", SeedUsers[i].email, run>> \in AnyId
  BY <1>1 DEF AnyId
<1>3. firstName \in Names \cup {firstName}
  OBVIOUS
<1>. QED
  BY <1>1, <1>2, <1>3 DEF seedAccount, Entry

\* it writes an account;
LEMMA SeedNextKeeps ==
  ASSUME AccountsInv, NEW s \in seeders, seedNext(s)
  PROVE  AccountsInv'
<1>1. /\ s.next \in DOMAIN SeedUsers /\ upsertUser(seedAccount(s.run, s.next))
      /\ Step(s, {[s EXCEPT !.next = @ + 1]})
      /\ UNCHANGED <<accountLog, memo, credentials, seedings, calls, interrupted>>
  BY DEF seedNext, environment
<1>a. PICK t : t = [s EXCEPT !.next = @ + 1]
  OBVIOUS
<1>2. /\ seeders = {s} /\ seeders' = {t} /\ s \in [run : Nat, next : Nat] /\ memo = "running"
      /\ t \in [run : Nat, next : Nat] /\ t.next = s.next + 1 /\ t.run = s.run
  BY <1>1, <1>a, OnlySeeder, NextSeeded DEF AccountsInv
<1>3. s.next >= 1 /\ t.next > 1 /\ t.next # 0 /\ t.next # 1
  BY <1>1, <1>2, SeedUsersType
<1>b. PICK account : account = seedAccount(s.run, s.next)
  OBVIOUS
<1>4. account \in Entry /\ account.secret = s.run
  BY <1>1, <1>2, <1>b, SeedAccountFits
<1>5. /\ directory' \in Seq(Entry) /\ OneAccountPerAddress'
      /\ \A i \in DOMAIN directory' :
           directory'[i] = account \/ (i \in DOMAIN directory /\ directory'[i] = directory[i])
  BY <1>1, <1>4, <1>b, UpsertKeeps DEF AccountsInv
<1>6. OneSeeder'
  BY <1>1, <1>2 DEF OneSeeder, AccountsInv
<1>7. ~interrupted => SecretsIn({0, s.run})'
  BY <1>2, <1>3, <1>4, <1>5 DEF AccountsInv, SecretsAreKnown, SecretsIn
<1>8. SecretsAreKnown'
  BY <1>1, <1>2, <1>3, <1>7 DEF SecretsAreKnown
<1>. QED
  BY <1>1, <1>5, <1>6, <1>8 DEF AccountsInv, ProvisionsAreUnseen

\* and it writes the file.
LEMMA WriteCredentialsKeeps ==
  ASSUME AccountsInv, NEW s \in seeders, writeCredentials(s)
  PROVE  AccountsInv'
<1>1. /\ s.next = Len(SeedUsers) + 1 /\ credentials' = s.run /\ Step(s, {}) /\ memo' = "done"
      /\ UNCHANGED <<directory, accountLog, seedings, calls, interrupted>>
  BY DEF writeCredentials, store, environment
<1>2. seeders = {s} /\ seeders' = {}
  BY <1>1, OnlySeeder DEF AccountsInv
<1>3. s.next >= 1
  BY <1>1, SeedUsersType
<1>4. ~interrupted => SecretsIn({0, s.run})
  BY <1>3 DEF AccountsInv, SecretsAreKnown
<1>5. SecretsAreKnown'
  BY <1>1, <1>2, <1>4, SecretsKept DEF SecretsAreKnown
<1>6. OneSeeder'
  BY <1>1, <1>2 DEF OneSeeder, AccountsInv
<1>. QED
  BY <1>1, <1>5, <1>6 DEF AccountsInv, ProvisionsAreUnseen, OneAccountPerAddress

\* A run ends before its time, with the process or without.
LEMMA StopKeeps ==
  ASSUME AccountsInv, stop, seeders' = {}, memo' \in {"none", "failed"}, calls' \subseteq calls,
         seeders # {} \/ memo' = "none",
         UNCHANGED <<directory, accountLog, credentials, seedings>>
  PROVE  AccountsInv'
<1>1. interrupted' = (interrupted \/ \E s \in seeders : s.next > 1)
  BY DEF stop
<1>2. ASSUME ~interrupted'
      PROVE  SecretsIn({0, credentials})
  <2>1. ~interrupted /\ \A s \in seeders : ~(s.next > 1)
    BY <1>1, <1>2
  <2>2. \A s \in seeders : s.next = 0 \/ s.next = 1
    BY <2>1 DEF AccountsInv, OneSeeder
  <2>3. CASE \A s \in seeders : s.next = 0
    BY <2>1, <2>3 DEF AccountsInv, SecretsAreKnown
  <2>4. CASE \E s \in seeders : s.next = 1
    <3>1. SecretsIn({0})
      BY <2>1, <2>4 DEF AccountsInv, SecretsAreKnown
    <3>. QED
      BY <3>1 DEF SecretsIn
  <2>. QED
    BY <2>2, <2>3, <2>4
<1>3. SecretsAreKnown'
  BY <1>2, SecretsKept DEF SecretsAreKnown
<1>4. OneSeeder'
  BY DEF OneSeeder, AccountsInv
<1>. QED
  BY <1>3, <1>4 DEF AccountsInv, ProvisionsAreUnseen, OneAccountPerAddress

-----------------------------------------------------------------------------
(* Everything else.                                                        *)

\* A person a proxy vouches for is written.
VouchedFor(a) == [email |-> a, id |-> <<"sso", ssoId[a], 0>>, role |-> "REQUESTER", name |-> firstName, secret |-> 0]

\* Writing somebody vouched for keeps the invariant: nobody was found.
LEMMA ProvisionedKeeps ==
  ASSUME AccountsInv, NEW call \in calls, provisioned(call)
  PROVE  AccountsInv' /\ upsertUser(VouchedFor(call.email)) /\ call.unseen
         /\ VouchedFor(call.email) \in Entry /\ VouchedFor(call.email).email = call.email
<1>1. /\ call.kind = "provision" /\ calls' \subseteq calls
      /\ upsertUser(VouchedFor(call.email))
      /\ UNCHANGED <<accountLog, memo, seeders, credentials, seedings, interrupted>>
  BY DEF provisioned, VouchedFor, Leave, seed, environment
<1>2. call.email \in Addresses /\ call.unseen
  BY <1>1 DEF AccountsInv, ProvisionsAreUnseen
<1>a. PICK account : account = VouchedFor(call.email)
  OBVIOUS
<1>3. account \in Entry /\ account.secret = 0 /\ account.email = call.email
  <2>1. <<"sso", ssoId[call.email], 0>> \in AnyId /\ firstName \in Names \cup {firstName}
    BY <1>2 DEF AnyId
  <2>. QED
    BY <1>2, <1>a, <2>1 DEF VouchedFor, Entry, Roles
<1>4. /\ directory' \in Seq(Entry) /\ OneAccountPerAddress'
      /\ \A i \in DOMAIN directory' :
           directory'[i] = account \/ (i \in DOMAIN directory /\ directory'[i] = directory[i])
  BY <1>1, <1>3, <1>a, UpsertKeeps DEF AccountsInv
<1>5. \A S : 0 \in S /\ SecretsIn(S) => SecretsIn(S)'
  BY <1>3, <1>4 DEF SecretsIn
<1>6. SecretsAreKnown'
  BY <1>1, <1>5 DEF SecretsAreKnown, AccountsInv
<1>7. OneSeeder'
  BY <1>1 DEF OneSeeder, AccountsInv
<1>8. ProvisionsAreUnseen'
  BY <1>1 DEF AccountsInv, ProvisionsAreUnseen
<1>. QED
  BY <1>1, <1>2, <1>3, <1>a, <1>4, <1>6, <1>7, <1>8 DEF AccountsInv

\* A name or a role is changed, with its entry in the log.
Logged(i, from, to) ==
  IF from = to THEN accountLog' = accountLog
  ELSE \E entry : /\ accountLog' = Append(accountLog, entry)
                  /\ entry.subject = directory[i].id /\ entry.from = from /\ entry.to = to

Edited(i, q) ==
  /\ i \in DOMAIN directory /\ Like(q, directory[i]) /\ directory' = [directory EXCEPT ![i] = q]
  /\ \/ q.role = directory[i].role /\ Logged(i, directory[i].name, q.name)
     \/ q.name = directory[i].name /\ Logged(i, directory[i].role, q.role)

\* An entry is written as logged says.
LEMMA LoggedIs ==
  ASSUME NEW i, NEW actor, NEW subject, NEW from, NEW to, logged(actor, subject, from, to),
         subject = directory[i].id
  PROVE  Logged(i, from, to)
<1>1. CASE from = to
  BY <1>1 DEF logged, Logged
<1>2. CASE from # to
  <2>. DEFINE entry == [actor |-> actor, subject |-> subject, from |-> from, to |-> to]
  <2>1. accountLog' = Append(accountLog, entry)
    BY <1>2 DEF logged
  <2>2. entry.subject = directory[i].id /\ entry.from = from /\ entry.to = to
    OBVIOUS
  <2>. HIDE DEF entry
  <2>. QED
    BY <1>2, <2>1, <2>2 DEF Logged
<1>. QED
  BY <1>1, <1>2

\* The i-th account as it is after a change of name,
LEMMA NameEdited ==
  ASSUME directory \in Seq(Entry), NEW i \in DOMAIN directory, NEW name \in Names \cup {firstName}
  PROVE  /\ Like([directory[i] EXCEPT !.name = name], directory[i])
         /\ [directory[i] EXCEPT !.name = name].name = name
         /\ [directory[i] EXCEPT !.name = name].role = directory[i].role
<1>1. directory[i] \in Entry /\ directory[i].role \in Roles
  <2>1. directory[i] \in Entry
    BY ItemFits
  <2>. QED
    BY <2>1 DEF Entry
<1>. QED
  BY <1>1, EntryWritten DEF Like, Entry

\* and after one of role.
LEMMA RoleEdited ==
  ASSUME directory \in Seq(Entry), NEW i \in DOMAIN directory, NEW role \in Roles
  PROVE  /\ Like([directory[i] EXCEPT !.role = role], directory[i])
         /\ [directory[i] EXCEPT !.role = role].role = role
         /\ [directory[i] EXCEPT !.role = role].name = directory[i].name
<1>1. directory[i] \in Entry /\ directory[i].name \in Names \cup {firstName}
  <2>1. directory[i] \in Entry
    BY ItemFits
  <2>. QED
    BY <2>1 DEF Entry
<1>. QED
  BY <1>1, EntryWritten DEF Like, Entry

\* A profile that is saved is an edit, with its entry,
LEMMA ProfileEdits ==
  ASSUME AccountsInv, NEW a \in Addresses, NEW name \in Names, updateProfile(a, name)
  PROVE  \E i, q : Edited(i, q)
<1>a. PICK i : i = ById(cookies[a].id)
  OBVIOUS
<1>1. /\ i # 0 /\ directory' = [directory EXCEPT ![i].name = name]
      /\ logged(cookies[a].id, directory[i].id, directory[i].name, name)
  BY <1>a DEF updateProfile
<1>2. i \in DOMAIN directory
  BY <1>1, <1>a, ByIdFinds DEF AccountsInv
<1>b. PICK q : q = [directory[i] EXCEPT !.name = name]
  OBVIOUS
<1>3. directory' = [directory EXCEPT ![i] = q]
  BY <1>1, <1>b
<1>c. name \in Names \cup {firstName} /\ directory \in Seq(Entry)
  BY DEF AccountsInv
<1>4. Like(q, directory[i]) /\ q.name = name /\ q.role = directory[i].role
  BY <1>2, <1>b, <1>c, NameEdited
<1>5. Logged(i, directory[i].name, q.name)
  BY <1>1, <1>4, LoggedIs
<1>. QED
  BY <1>2, <1>3, <1>4, <1>5 DEF Edited

\* and so is a role that is given.
LEMMA RoleEdits ==
  ASSUME AccountsInv, NEW a \in Addresses, NEW id, NEW role \in Positions, assignRole(a, id, role)
  PROVE  \E i, q : Edited(i, q)
<1>a. PICK i : i = ById(id)
  OBVIOUS
<1>1. /\ i # 0 /\ directory' = [directory EXCEPT ![i].role = role]
      /\ logged(cookies[a].id, id, directory[i].role, role)
  BY <1>a DEF assignRole
<1>2. i \in DOMAIN directory /\ id = directory[i].id
  BY <1>1, <1>a, ByIdFinds DEF AccountsInv
<1>b. PICK q : q = [directory[i] EXCEPT !.role = role]
  OBVIOUS
<1>3. directory' = [directory EXCEPT ![i] = q]
  BY <1>1, <1>b
<1>c. role \in Roles /\ directory \in Seq(Entry)
  BY AccountsAssumption DEF AccountsAssumption, AccountsInv
<1>4. Like(q, directory[i]) /\ q.role = role /\ q.name = directory[i].name
  BY <1>2, <1>b, <1>c, RoleEdited
<1>5. Logged(i, directory[i].role, q.role)
  BY <1>1, <1>2, <1>4, LoggedIs
<1>. QED
  BY <1>2, <1>3, <1>4, <1>5 DEF Edited

\* Appending gives a longer log that ends with the entry.
LEMMA AppendedAnywhere ==
  ASSUME NEW S, NEW log \in Seq(S), NEW entry
  PROVE  Append(log, entry) \in Seq(S \cup {entry}) /\ Len(Append(log, entry)) = Len(log) + 1
         /\ Last(Append(log, entry)) = entry
<1>1. log \in Seq(S \cup {entry})
  OBVIOUS
<1>. QED
  BY <1>1 DEF Last

\* An edit keeps the invariant.
LEMMA EditedKeeps ==
  ASSUME AccountsInv, NEW i, NEW q, Edited(i, q),
         UNCHANGED <<memo, seeders, credentials, seedings, calls, interrupted>>
  PROVE  AccountsInv'
<1>1. /\ directory' \in Seq(Entry) /\ OneAccountPerAddress' /\ DOMAIN directory' = DOMAIN directory
      /\ \A j \in DOMAIN directory : directory'[j].secret = directory[j].secret
  BY EditKeeps DEF Edited, AccountsInv
<1>2. SecretsAreKnown' /\ OneSeeder'
  BY <1>1, SecretsStay DEF AccountsInv
<1>3. \E S : accountLog' \in Seq(S)
  <2>1. PICK S : accountLog \in Seq(S)
    BY DEF AccountsInv
  <2>2. accountLog' = accountLog \/ \E entry : accountLog' = Append(accountLog, entry)
    BY DEF Edited, Logged
  <2>3. CASE accountLog' = accountLog
    BY <2>1, <2>3
  <2>4. CASE \E entry : accountLog' = Append(accountLog, entry)
    <3>1. PICK entry : accountLog' = Append(accountLog, entry)
      BY <2>4
    <3>2. accountLog' \in Seq(S \cup {entry})
      BY <2>1, <3>1, AppendedAnywhere
    <3>. QED
      BY <3>2
  <2>. QED
    BY <2>2, <2>3, <2>4
<1>4. ProvisionsAreUnseen'
  BY DEF AccountsInv, ProvisionsAreUnseen
<1>. QED
  BY <1>1, <1>2, <1>3, <1>4 DEF AccountsInv

-----------------------------------------------------------------------------
(* Every step.                                                             *)

\* A step that leaves the directory, the log and the seeding alone, and under
\* which nobody is vouched for who was found.
LEMMA AnswerKeeps ==
  ASSUME AccountsInv,
         UNCHANGED <<directory, accountLog, memo, seeders, credentials, seedings, interrupted>>,
         ProvisionsAreUnseen'
  PROVE  AccountsInv'
<1>1. OneSeeder' /\ SecretsAreKnown'
  BY SecretsKept DEF AccountsInv, OneSeeder, SecretsAreKnown
<1>. QED
  BY <1>1 DEF AccountsInv, OneAccountPerAddress

\* A sign-in with a password that goes on, or ends.
LEMMA SignInKeeps ==
  ASSUME AccountsInv, NEW call \in calls, verified(call) \/ loginFails(call) \/ loginChecked(call)
  PROVE  AccountsInv' /\ directory' = directory
<1>1. UNCHANGED <<directory, accountLog, memo, seeders, credentials, seedings, interrupted>>
  BY DEF verified, loginFails, loginChecked, store, seed, environment
<1>2. \/ Leave(call, {})
      \/ \E user : Leave(call, {[kind |-> "verify", slot |-> call.slot, secret |-> call.secret,
                                 email |-> call.email, user |-> user]})
  <2>1. CASE verified(call) \/ loginFails(call)
    BY <2>1 DEF verified, loginFails
  <2>2. CASE loginChecked(call)
    BY <2>2 DEF loginChecked
  <2>. QED
    BY <2>1, <2>2
<1>3. \A c \in calls' : c \in calls \/ c.kind = "verify"
  BY <1>2 DEF Leave
<1>4. ProvisionsAreUnseen'
  BY <1>3 DEF AccountsInv, ProvisionsAreUnseen
<1>. QED
  BY <1>1, <1>4, AnswerKeeps

\* Somebody a proxy vouches for is looked up.
LEMMA LookUpKeeps ==
  ASSUME AccountsInv, NEW a \in Addresses, provisionFromIdentity(a)
  PROVE  AccountsInv' /\ directory' = directory
<1>1. UNCHANGED <<directory, accountLog, memo, seeders, credentials, seedings, interrupted>>
  BY DEF provisionFromIdentity, store, seed, environment
<1>2. ProvisionsAreUnseen'
  <2>1. CASE known(a)
    BY <2>1 DEF provisionFromIdentity, AccountsInv, ProvisionsAreUnseen
  <2>2. CASE ~known(a)
    <3>1. a \notin Emails
      BY <2>2 DEF known
    <3>2. calls' = calls \cup {[kind |-> "provision", slot |-> Min(Free), email |-> a, unseen |-> a \notin Emails]}
      BY <2>2 DEF provisionFromIdentity
    <3>3. PICK new : new = [kind |-> "provision", slot |-> Min(Free), email |-> a, unseen |-> a \notin Emails]
      OBVIOUS
    <3>4. new.email = a /\ new.unseen = (a \notin Emails)
      BY <3>3
    <3>5. \A c \in calls' : c \in calls \/ c = new
      BY <3>2, <3>3
    <3>. QED
      BY <3>1, <3>4, <3>5 DEF AccountsInv, ProvisionsAreUnseen
  <2>. QED
    BY <2>1, <2>2
<1>. QED
  BY <1>1, <1>2, AnswerKeeps

\* A page asks, or a password is sent: both may start the seeding.
LEMMA AskingKeeps ==
  ASSUME AccountsInv, NEW a \in Addresses, visit \/ login(a)
  PROVE  AccountsInv' /\ directory' = directory
<1>1. ensureSeeded /\ UNCHANGED <<directory, accountLog, credentials, interrupted>>
  BY DEF visit, login, store, environment
<1>2. OneSeeder' /\ SecretsAreKnown'
  BY <1>1, SeedingStarts DEF AccountsInv
<1>3. \A c \in calls' : c \in calls \/ c.kind = "login"
  BY DEF visit, login
<1>4. ProvisionsAreUnseen'
  BY <1>3 DEF AccountsInv, ProvisionsAreUnseen
<1>. QED
  BY <1>1, <1>2, <1>4 DEF AccountsInv, OneAccountPerAddress

\* A failed write and a crash both end the run that was under way.
LEMMA StoppingKeeps ==
  ASSUME AccountsInv, Crash \/ \E s \in seeders : seedFails(s)
  PROVE  AccountsInv' /\ directory' = directory
<1>1. CASE Crash
  BY <1>1, StopKeeps DEF Crash, Restarted, store
<1>2. CASE \E s \in seeders : seedFails(s)
  <2>1. PICK s \in seeders : seedFails(s)
    BY <1>2
  <2>2. /\ stop /\ Step(s, {}) /\ memo' = "failed"
        /\ UNCHANGED <<directory, accountLog, credentials, seedings, calls>>
    BY <2>1 DEF seedFails, afterFailure, store
  <2>3. seeders' = {}
    BY <2>2, OnlySeeder DEF AccountsInv
  <2>. QED
    BY <2>2, <2>3, StopKeeps
<1>. QED
  BY <1>1, <1>2

\* What a step does to the directory: nothing, an account is written by
\* somebody who found it missing, or one is edited.
Written(a) ==
  /\ \A i \in DOMAIN directory : directory'[i] = directory[i] \/ directory[i].email = a
  /\ Overtaken(a)

\* The invariant is inductive, and the directory changes in these ways only.
LEMMA StepKeeps ==
  ASSUME AccountsInv, [Next]_avars
  PROVE  AccountsInv' /\ (directory' = directory \/ (\E a : Written(a)) \/ \E i, q : Edited(i, q))
<1>1. CASE visit
  <2>1. CASE Addresses = {}
    <3>1. ensureSeeded /\ UNCHANGED <<directory, accountLog, credentials, calls, interrupted>>
      BY <1>1 DEF visit, store, environment
    <3>2. OneSeeder' /\ SecretsAreKnown'
      BY <3>1, SeedingStarts DEF AccountsInv
    <3>. QED
      BY <3>1, <3>2 DEF AccountsInv, OneAccountPerAddress, ProvisionsAreUnseen
  <2>2. CASE Addresses # {}
    BY <1>1, <2>2, AskingKeeps
  <2>. QED
    BY <2>1, <2>2
<1>2. ASSUME NEW s \in seeders, shortCircuit(s) \/ writeCredentials(s)
      PROVE  AccountsInv' /\ directory' = directory
  BY <1>2, ShortCircuitKeeps, WriteCredentialsKeeps DEF shortCircuit, writeCredentials, store
<1>3. ASSUME NEW s \in seeders, seedNext(s)
      PROVE  AccountsInv' /\ \E a : Written(a)
  <2>1. AccountsInv' /\ s \in [run : Nat, next : Nat]
    BY <1>3, SeedNextKeeps DEF AccountsInv, OneSeeder
  <2>2. s.next \in DOMAIN SeedUsers /\ upsertUser(seedAccount(s.run, s.next))
    BY <1>3 DEF seedNext
  <2>3. PICK account : account = seedAccount(s.run, s.next)
    OBVIOUS
  <2>4. account \in Entry /\ account.email = SeedUsers[s.next].email
    BY <2>1, <2>2, <2>3, SeedAccountFits
  <2>5. \A i \in DOMAIN directory : directory'[i] = directory[i] \/ directory[i].email = account.email
    BY <2>2, <2>3, <2>4, UpsertKeeps DEF AccountsInv
  <2>6. Overtaken(account.email)
    BY <2>2, <2>4 DEF Overtaken
  <2>. QED
    BY <2>1, <2>5, <2>6 DEF Written
<1>4. ASSUME NEW call \in calls, provisioned(call)
      PROVE  AccountsInv' /\ \E a : Written(a)
  <2>1. AccountsInv' /\ call.unseen /\ call.kind = "provision"
    BY <1>4, ProvisionedKeeps DEF provisioned
  <2>2. PICK account : account = VouchedFor(call.email)
    OBVIOUS
  <2>3. upsertUser(account) /\ account \in Entry /\ account.email = call.email
    BY <1>4, <2>2, ProvisionedKeeps
  <2>4. \A i \in DOMAIN directory : directory'[i] = directory[i] \/ directory[i].email = account.email
    BY <2>3, UpsertKeeps DEF AccountsInv
  <2>5. Overtaken(account.email)
    BY <2>1, <2>3 DEF Overtaken
  <2>. QED
    BY <2>1, <2>4, <2>5 DEF Written
<1>5. ASSUME NEW slot \in Slots, Answering(slot)
      PROVE  AccountsInv' /\ (directory' = directory \/ \E a : Written(a))
  <2>1. PICK call \in calls : provisioned(call) \/ verified(call) \/ loginFails(call) \/ loginChecked(call)
    BY <1>5 DEF Answering
  <2>. QED
    BY <2>1, <1>4, SignInKeeps
<1>6. CASE Crash \/ \E s \in seeders : seedFails(s)
  BY <1>6, StoppingKeeps
<1>7. CASE Tick \/ UNCHANGED avars
  <2>1. UNCHANGED <<directory, accountLog, memo, seeders, credentials, seedings, interrupted, calls>>
    BY <1>7 DEF Tick, avars, store, seed
  <2>2. ProvisionsAreUnseen'
    BY <2>1 DEF AccountsInv, ProvisionsAreUnseen
  <2>. QED
    BY <2>1, <2>2, AnswerKeeps
<1>8. ASSUME NEW a \in Addresses, provisionFromIdentity(a) \/ login(a)
      PROVE  AccountsInv' /\ directory' = directory
  BY <1>8, LookUpKeeps, AskingKeeps
<1>9. ASSUME NEW a \in Addresses,
             \/ \E name \in Names : updateProfile(a, name)
             \/ \E id : \E role \in Positions : assignRole(a, id, role)
      PROVE  AccountsInv' /\ \E i, q : Edited(i, q)
  <2>1. \E i, q : Edited(i, q)
    BY <1>9, ProfileEdits, RoleEdits
  <2>2. UNCHANGED <<memo, seeders, credentials, seedings, calls, interrupted>>
    BY <1>9 DEF updateProfile, assignRole, seed, environment
  <2>. QED
    BY <2>1, <2>2, EditedKeeps
<1>10. CASE Seeding
  <2>1. PICK s \in seeders : shortCircuit(s) \/ seedNext(s) \/ writeCredentials(s)
    BY <1>10 DEF Seeding
  <2>. QED
    BY <2>1, <1>2, <1>3
<1>11. CASE \E a \in Addresses :
              \/ provisionFromIdentity(a) \/ login(a)
              \/ \E name \in Names : updateProfile(a, name)
              \/ \E id \in {directory[i].id : i \in DOMAIN directory}, role \in Positions : assignRole(a, id, role)
  <2>1. PICK a \in Addresses :
              \/ provisionFromIdentity(a) \/ login(a)
              \/ \E name \in Names : updateProfile(a, name)
              \/ \E id \in {directory[i].id : i \in DOMAIN directory}, role \in Positions : assignRole(a, id, role)
    BY <1>11
  <2>2. CASE provisionFromIdentity(a) \/ login(a)
    BY <2>2, <1>8
  <2>3. CASE \E name \in Names : updateProfile(a, name)
    BY <2>3, <1>9
  <2>4. CASE \E id \in {directory[i].id : i \in DOMAIN directory}, role \in Positions : assignRole(a, id, role)
    <3>1. PICK id \in {directory[i].id : i \in DOMAIN directory}, role \in Positions : assignRole(a, id, role)
      BY <2>4
    <3>. QED
      BY <3>1, <1>9
  <2>. QED
    BY <2>1, <2>2, <2>3, <2>4
<1>12. \/ visit \/ Seeding \/ Crash \/ Tick \/ UNCHANGED avars
       \/ \E slot \in Slots : Answering(slot)
       \/ \E s \in seeders : seedFails(s)
       \/ \E a \in Addresses :
            \/ provisionFromIdentity(a) \/ login(a)
            \/ \E name \in Names : updateProfile(a, name)
            \/ \E id \in {directory[i].id : i \in DOMAIN directory}, role \in Positions : assignRole(a, id, role)
  BY DEF Next
<1>. QED
  BY <1>12, <1>1, <1>5, <1>6, <1>7, <1>10, <1>11

\* It holds to begin with.
LEMMA AccountsInvInit ==
  ASSUME Init
  PROVE  AccountsInv
<1>1. directory \in Seq(Entry) /\ OneAccountPerAddress /\ \E S : accountLog \in Seq(S)
  <2>1. accountLog \in Seq({})
    BY DEF Init
  <2>. QED
    BY <2>1 DEF Init, OneAccountPerAddress
<1>2. ProvisionsAreUnseen /\ OneSeeder
  BY DEF Init, ProvisionsAreUnseen, OneSeeder
<1>3. SecretsAreKnown
  BY DEF Init, SecretsAreKnown, SecretsIn
<1>. QED
  BY <1>1, <1>2, <1>3 DEF AccountsInv

-----------------------------------------------------------------------------
(* The theorems.                                                           *)

\* The accounts, the seeding and the provisionings under way stay as the
\* invariant says, whoever asks first and wherever the process stops.
THEOREM AccountsInvAlways == Spec => []AccountsInv
<1>1. Init => AccountsInv
  BY AccountsInvInit
<1>2. AccountsInv /\ [Next]_avars => AccountsInv'
  BY StepKeeps
<1>. QED
  BY <1>1, <1>2, PTL DEF Spec

\* upsertUser of store.ts looks an account up by its address in the same
\* transaction that writes it, so there is never a second one.
THEOREM OnePerAddress == Spec => []OneAccountPerAddress
<1>1. AccountsInv => OneAccountPerAddress
  BY DEF AccountsInv
<1>. QED
  BY <1>1, AccountsInvAlways, PTL

\* When ensureSeeded of seed.ts is over, and nothing cut it short, the file
\* has the password of every account that has one.
THEOREM SheetIsRight == Spec => []CredentialsAreKnown
<1>1. AccountsInv => CredentialsAreKnown
  <2>. SUFFICES ASSUME AccountsInv, memo = "done", ~interrupted
                PROVE  \A i \in DOMAIN directory : directory[i].secret \in {0, credentials}
    BY DEF CredentialsAreKnown
  <2>1. seeders = {}
    BY DEF AccountsInv, OneSeeder
  <2>. QED
    BY <2>1 DEF AccountsInv, SecretsAreKnown, SecretsIn
<1>. QED
  BY <1>1, AccountsInvAlways, PTL

\* An edit is of the name or of the role, and the log's last entry says so.
LEMMA EditIsLogged ==
  ASSUME AccountsInv, NEW i, NEW q, Edited(i, q), q # directory[i]
  PROVE  /\ Len(accountLog') = Len(accountLog) + 1
         /\ Last(accountLog').subject = directory[i].id
         /\ <<Last(accountLog').from, Last(accountLog').to>>
              \in {<<directory[i].role, q.role>>, <<directory[i].name, q.name>>}
         /\ directory[i].role = q.role \/ directory[i].name = q.name
<1>1. directory[i] \in Entry /\ Like(q, directory[i])
  <2>1. i \in DOMAIN directory /\ directory \in Seq(Entry)
    BY DEF Edited, AccountsInv
  <2>. QED
    BY <2>1, ItemFits DEF Edited
<1>2. q.role # directory[i].role \/ q.name # directory[i].name
  BY <1>1, SameEntry DEF Like
<1>3. \E entry : /\ accountLog' = Append(accountLog, entry)
                 /\ entry.subject = directory[i].id
                 /\ \/ q.role = directory[i].role /\ entry.from = directory[i].name /\ entry.to = q.name
                    \/ q.name = directory[i].name /\ entry.from = directory[i].role /\ entry.to = q.role
  BY <1>2 DEF Edited, Logged
<1>4. PICK entry : /\ accountLog' = Append(accountLog, entry)
                   /\ entry.subject = directory[i].id
                   /\ \/ q.role = directory[i].role /\ entry.from = directory[i].name /\ entry.to = q.name
                      \/ q.name = directory[i].name /\ entry.from = directory[i].role /\ entry.to = q.role
  BY <1>3
<1>5. PICK S : accountLog \in Seq(S)
  BY DEF AccountsInv
<1>6. Len(accountLog') = Len(accountLog) + 1 /\ Last(accountLog') = entry
  BY <1>4, <1>5, AppendedAnywhere
<1>. QED
  BY <1>4, <1>6

\* An account changes only by an edit that the log records, or when it was
\* created twice at once: nothing a header or a seeding brings replaces the
\* name, the role or the password of an account that was there before.
THEOREM KeptUnlessOvertaken == Spec => AccountsAreKept
<1>. DEFINE Kept ==
       \A i \in DOMAIN directory :
         LET before == directory[i]
             after  == directory'[i]
         IN  before # after /\ ~Overtaken(before.email) =>
               /\ before.email = after.email /\ before.id = after.id /\ before.secret = after.secret
               /\ Len(accountLog') = Len(accountLog) + 1
               /\ Last(accountLog').subject = before.id
               /\ <<Last(accountLog').from, Last(accountLog').to>>
                  \in {<<before.role, after.role>>, <<before.name, after.name>>}
               /\ before.role = after.role \/ before.name = after.name
<1>1. AccountsInv /\ [Next]_avars => Kept
  <2>. SUFFICES ASSUME AccountsInv, [Next]_avars, NEW j \in DOMAIN directory,
                       directory[j] # directory'[j], ~Overtaken(directory[j].email)
                PROVE  /\ directory[j].email = directory'[j].email /\ directory[j].id = directory'[j].id
                       /\ directory[j].secret = directory'[j].secret
                       /\ Len(accountLog') = Len(accountLog) + 1
                       /\ Last(accountLog').subject = directory[j].id
                       /\ <<Last(accountLog').from, Last(accountLog').to>>
                          \in {<<directory[j].role, directory'[j].role>>, <<directory[j].name, directory'[j].name>>}
                       /\ directory[j].role = directory'[j].role \/ directory[j].name = directory'[j].name
    OBVIOUS
  <2>1. ~\E a : Written(a)
    BY DEF Written
  <2>2. PICK i, q : Edited(i, q)
    BY <2>1, StepKeeps
  <2>3. directory'[j] = IF j = i THEN q ELSE directory[j]
    BY <2>2, EditKeeps DEF Edited, AccountsInv
  <2>4. j = i /\ directory'[j] = q
    BY <2>3
  <2>5. q.email = directory[i].email /\ q.id = directory[i].id /\ q.secret = directory[i].secret
    BY <2>2 DEF Edited, Like
  <2>6. q # directory[i]
    BY <2>4
  <2>. QED
    BY <2>2, <2>4, <2>5, <2>6, EditIsLogged
<1>2. AccountsInv /\ [Next]_avars => [Kept]_avars
  BY <1>1
<1>3. Spec => [][Kept]_avars
  BY <1>2, AccountsInvAlways, PTL DEF Spec
<1>. QED
  BY <1>3 DEF AccountsAreKept

-----------------------------------------------------------------------------
(* The limiter.                                                            *)

\* The tries of the open window are the last of them, it opened with the first
\* of these, and a try as many tries before that one as a window takes came a
\* window before it.  So two windows full of tries take longer than a window.
TriesFit(T, c, time) ==
  LET n == Len(T)
      m == IF c.count < BudgetMax THEN c.count ELSE BudgetMax
      p == n + 1 - m
  IN  /\ T \in Seq(Nat) /\ c \in [count : Nat, resetAt : Nat]
      /\ \A i \in 1..n : T[i] <= time
      /\ \A i, j \in 1..n : i <= j => T[i] <= T[j]
      /\ n = 0 => c.resetAt = 0
      /\ n > 0 => /\ p \in 1..n /\ c.resetAt = T[p] + Window
                  /\ \A i \in 1..n : i + BudgetMax <= p => T[i] + Window <= T[p]
      /\ \A i, j \in 1..n : i + 2 * BudgetMax <= j + 1 => T[i] + Window <= T[j]

TriesInv ==
  /\ now \in Nat
  /\ \A a \in Addresses : TriesFit(tried[a], counters[a], now)
  /\ DOMAIN tried = Addresses /\ DOMAIN counters = Addresses

\* What the constants of the limiter are.
LEMMA Limits == BudgetMax \in Nat /\ BudgetMax > 0 /\ Window \in Nat
BY AccountsAssumption

\* An account that nobody has tried fits,
LEMMA NoTriesFit ==
  ASSUME NEW time \in Nat
  PROVE  TriesFit(<<>>, [count |-> 0, resetAt |-> 0], time)
BY DEF TriesFit

\* one that fits goes on fitting,
LEMMA TriesFitLater ==
  ASSUME NEW T, NEW c, NEW time \in Nat, TriesFit(T, c, time)
  PROVE  TriesFit(T, c, time + 1)
BY DEF TriesFit

\* also after a try that opens a window,
LEMMA TryOpens ==
  ASSUME NEW T, NEW c, NEW time \in Nat, TriesFit(T, c, time), time >= c.resetAt
  PROVE  TriesFit(Append(T, time), [count |-> 1, resetAt |-> time + Window], time)
<1>. DEFINE n == Len(T)
            U == Append(T, time)
            d == [count |-> 1, resetAt |-> time + Window]
            m == IF c.count < BudgetMax THEN c.count ELSE BudgetMax
            p == n + 1 - m
<1>1. /\ T \in Seq(Nat) /\ c \in [count : Nat, resetAt : Nat] /\ n \in Nat
      /\ \A i \in 1..n : T[i] <= time
      /\ \A i, j \in 1..n : i <= j => T[i] <= T[j]
      /\ n > 0 => /\ p \in 1..n /\ c.resetAt = T[p] + Window
      /\ \A i, j \in 1..n : i + 2 * BudgetMax <= j + 1 => T[i] + Window <= T[j]
  BY DEF TriesFit
<1>2. /\ U \in Seq(Nat) /\ Len(U) = n + 1 /\ U[n + 1] = time
      /\ \A i \in 1..n : U[i] = T[i] /\ U[i] \in Nat
  BY <1>1
<1>3. d \in [count : Nat, resetAt : Nat] /\ d.count = 1 /\ d.resetAt = time + Window
  BY Limits
<1>4. (IF d.count < BudgetMax THEN d.count ELSE BudgetMax) = 1
  BY <1>3, Limits
<1>5. m \in Nat /\ m <= BudgetMax
  BY <1>1, Limits
<1>6. \A i \in 1..n : i + BudgetMax <= n + 1 => T[i] + Window <= time
  <2>. SUFFICES ASSUME NEW i \in 1..n, i + BudgetMax <= n + 1 PROVE T[i] + Window <= time
    OBVIOUS
  <2>1. n > 0 /\ p \in 1..n /\ i <= p
    BY <1>1, <1>5, Limits
  <2>2. T[i] <= T[p] /\ T[p] + Window <= time /\ T[i] \in Nat /\ T[p] \in Nat
    BY <1>1, <2>1
  <2>. QED
    BY <2>2, Limits
<1>. HIDE DEF U, d, n, m, p
<1>7. \A i \in 1..(n + 1) : i \in 1..n \/ i = n + 1
  BY <1>1
<1>8. ASSUME NEW i \in 1..(n + 1) PROVE U[i] <= time /\ U[i] \in Nat
  <2>1. CASE i \in 1..n
    <3>1. T[i] <= time /\ U[i] = T[i] /\ U[i] \in Nat
      BY <1>1, <1>2, <2>1
    <3>. QED
      BY <3>1
  <2>2. CASE i = n + 1
    <3>1. U[i] = time /\ time \in Nat
      BY <1>2, <2>2
    <3>. QED
      BY <3>1
  <2>. QED
    BY <1>7, <2>1, <2>2
<1>9. ASSUME NEW i \in 1..(n + 1), NEW j \in 1..(n + 1), i <= j PROVE U[i] <= U[j]
  <2>1. CASE j \in 1..n
    <3>1. i \in 1..n
      BY <1>1, <1>9, <2>1
    <3>2. T[i] <= T[j] /\ U[i] = T[i] /\ U[j] = T[j]
      BY <1>1, <1>2, <1>9, <2>1, <3>1
    <3>. QED
      BY <3>2
  <2>2. CASE j = n + 1
    <3>1. U[j] = time /\ U[i] <= time
      BY <1>2, <1>8, <2>2
    <3>. QED
      BY <3>1
  <2>. QED
    BY <1>7, <2>1, <2>2
<1>10. ASSUME NEW i \in 1..(n + 1), i + BudgetMax <= n + 1 PROVE U[i] + Window <= time
  <2>1. i \in 1..n
    BY <1>1, <1>10, Limits
  <2>2. T[i] + Window <= time /\ U[i] = T[i]
    BY <1>2, <1>6, <1>10, <2>1
  <2>. QED
    BY <2>2
<1>11. \A i, j \in 1..(n + 1) : i + 2 * BudgetMax <= j + 1 => U[i] + Window <= U[j]
  <2>. SUFFICES ASSUME NEW i \in 1..(n + 1), NEW j \in 1..(n + 1), i + 2 * BudgetMax <= j + 1
                PROVE  U[i] + Window <= U[j]
    OBVIOUS
  <2>1. CASE j \in 1..n
    <3>1. i \in 1..n
      BY <1>1, <2>1, Limits
    <3>. QED
      BY <1>1, <1>2, <2>1, <3>1
  <2>2. CASE j = n + 1
    <3>1. i + BudgetMax <= n + 1
      BY <1>1, <2>2, Limits
    <3>. QED
      BY <1>2, <1>10, <2>2, <3>1
  <2>. QED
    BY <1>7, <2>1, <2>2
<1>12. n + 1 + 1 - 1 = n + 1 /\ n + 1 \in 1..(n + 1) /\ n + 1 > 0
  BY <1>1
<1>13. TriesFit(U, d, time)
  BY <1>2, <1>3, <1>4, <1>8, <1>9, <1>10, <1>11, <1>12 DEF TriesFit
<1>. QED
  BY <1>13 DEF U, d

\* one that counts in a window that is open,
LEMMA TryCounts ==
  ASSUME NEW T, NEW c, NEW time \in Nat, TriesFit(T, c, time), time < c.resetAt, c.count < BudgetMax
  PROVE  TriesFit(Append(T, time), [c EXCEPT !.count = c.count + 1], time)
<1>. DEFINE n == Len(T)
            U == Append(T, time)
            d == [c EXCEPT !.count = c.count + 1]
            p == n + 1 - c.count
<1>0. c \in [count : Nat, resetAt : Nat]
  BY DEF TriesFit
<1>1. /\ T \in Seq(Nat) /\ n \in Nat
      /\ \A i \in 1..n : T[i] <= time
      /\ \A i, j \in 1..n : i <= j => T[i] <= T[j]
      /\ n > 0 /\ p \in 1..n /\ c.resetAt = T[p] + Window
      /\ \A i \in 1..n : i + BudgetMax <= p => T[i] + Window <= T[p]
      /\ \A i, j \in 1..n : i + 2 * BudgetMax <= j + 1 => T[i] + Window <= T[j]
  BY DEF TriesFit
<1>2. /\ U \in Seq(Nat) /\ Len(U) = n + 1 /\ U[n + 1] = time
      /\ \A i \in 1..n : U[i] = T[i] /\ U[i] \in Nat
  BY <1>1
<1>3. d \in [count : Nat, resetAt : Nat] /\ d.count = c.count + 1 /\ d.resetAt = c.resetAt
  BY <1>0
<1>4. (IF d.count < BudgetMax THEN d.count ELSE BudgetMax) = c.count + 1
  BY <1>0, <1>3, Limits
<1>5. n + 1 + 1 - (c.count + 1) = p /\ p \in Nat /\ p = n + 1 - c.count
  BY <1>0, <1>1
<1>6. \A i \in 1..n : i + 2 * BudgetMax <= n + 2 => T[i] + Window <= time
  <2>. SUFFICES ASSUME NEW i \in 1..n, i + 2 * BudgetMax <= n + 2 PROVE T[i] + Window <= time
    OBVIOUS
  <2>1. i + BudgetMax <= p
    BY <1>0, <1>1, Limits
  <2>2. T[i] + Window <= T[p] /\ T[p] <= time /\ T[i] \in Nat /\ T[p] \in Nat
    BY <1>1, <2>1
  <2>. QED
    BY <2>2, Limits
<1>. HIDE DEF U, d, n, p
<1>7. \A i \in 1..(n + 1) : i \in 1..n \/ i = n + 1
  BY <1>1
<1>8. ASSUME NEW i \in 1..(n + 1) PROVE U[i] <= time /\ U[i] \in Nat
  <2>1. CASE i \in 1..n
    <3>1. T[i] <= time /\ U[i] = T[i] /\ U[i] \in Nat
      BY <1>1, <1>2, <2>1
    <3>. QED
      BY <3>1
  <2>2. CASE i = n + 1
    <3>1. U[i] = time /\ time \in Nat
      BY <1>2, <2>2
    <3>. QED
      BY <3>1
  <2>. QED
    BY <1>7, <2>1, <2>2
<1>9. ASSUME NEW i \in 1..(n + 1), NEW j \in 1..(n + 1), i <= j PROVE U[i] <= U[j]
  <2>1. CASE j \in 1..n
    <3>1. i \in 1..n
      BY <1>1, <1>9, <2>1
    <3>2. T[i] <= T[j] /\ U[i] = T[i] /\ U[j] = T[j]
      BY <1>1, <1>2, <1>9, <2>1, <3>1
    <3>. QED
      BY <3>2
  <2>2. CASE j = n + 1
    <3>1. U[j] = time /\ U[i] <= time
      BY <1>2, <1>8, <2>2
    <3>. QED
      BY <3>1
  <2>. QED
    BY <1>7, <2>1, <2>2
<1>10. U[p] = T[p] /\ p \in 1..(n + 1) /\ p \in 1..n
  BY <1>1, <1>2
<1>11. ASSUME NEW i \in 1..(n + 1), i + BudgetMax <= p PROVE U[i] + Window <= U[p]
  <2>1. i \in 1..n
    BY <1>1, <1>10, <1>11, Limits
  <2>2. T[i] + Window <= T[p] /\ U[i] = T[i]
    BY <1>1, <1>2, <1>11, <2>1
  <2>. QED
    BY <1>10, <2>2
<1>12. \A i, j \in 1..(n + 1) : i + 2 * BudgetMax <= j + 1 => U[i] + Window <= U[j]
  <2>. SUFFICES ASSUME NEW i \in 1..(n + 1), NEW j \in 1..(n + 1), i + 2 * BudgetMax <= j + 1
                PROVE  U[i] + Window <= U[j]
    OBVIOUS
  <2>0. i \in 1..n
    BY <1>1, Limits
  <2>1. CASE j \in 1..n
    BY <1>1, <1>2, <2>0, <2>1
  <2>2. CASE j = n + 1
    <3>1. i + 2 * BudgetMax <= n + 2
      BY <1>1, <2>2, Limits
    <3>. QED
      BY <1>2, <1>6, <2>0, <2>2, <3>1
  <2>. QED
    BY <1>7, <2>1, <2>2
<1>13. n + 1 > 0 /\ d.resetAt = U[p] + Window
  BY <1>1, <1>3, <1>10
<1>14. Len(U) + 1 - (IF d.count < BudgetMax THEN d.count ELSE BudgetMax) = p
  <2>1. Len(U) + 1 - (c.count + 1) = p
    BY <1>2, <1>5
  <2>. QED
    BY <1>4, <2>1
<1>15. /\ U \in Seq(Nat) /\ d \in [count : Nat, resetAt : Nat]
       /\ \A i \in 1..Len(U) : U[i] <= time
       /\ \A i, j \in 1..Len(U) : i <= j => U[i] <= U[j]
       /\ Len(U) # 0 /\ p \in 1..Len(U) /\ d.resetAt = U[p] + Window
       /\ \A i, j \in 1..Len(U) : i + 2 * BudgetMax <= j + 1 => U[i] + Window <= U[j]
  BY <1>1, <1>2, <1>3, <1>8, <1>9, <1>10, <1>12, <1>13
<1>16. \A i \in 1..Len(U) : i + BudgetMax <= p => U[i] + Window <= U[p]
  BY <1>2, <1>11
<1>17. TriesFit(U, d, time)
  BY <1>14, <1>15, <1>16 DEF TriesFit
<1>. QED
  BY <1>17 DEF U, d

\* and one that is refused.
LEMMA TryRefused ==
  ASSUME NEW T, NEW c, NEW time \in Nat, TriesFit(T, c, time), c.count >= BudgetMax
  PROVE  TriesFit(T, [c EXCEPT !.count = BudgetMax + 1], time)
<1>. DEFINE d == [c EXCEPT !.count = BudgetMax + 1]
<1>0. c \in [count : Nat, resetAt : Nat]
  BY DEF TriesFit
<1>1. d \in [count : Nat, resetAt : Nat] /\ d.count = BudgetMax + 1 /\ d.resetAt = c.resetAt
  BY <1>0, Limits
<1>2. /\ (IF d.count < BudgetMax THEN d.count ELSE BudgetMax) = BudgetMax
      /\ (IF c.count < BudgetMax THEN c.count ELSE BudgetMax) = BudgetMax
  BY <1>0, <1>1, Limits
<1>. HIDE DEF d
<1>3. TriesFit(T, d, time)
  BY <1>1, <1>2 DEF TriesFit
<1>. QED
  BY <1>3 DEF d

\* The limiter's cap on its own count.
LEMMA MinOfTwo ==
  ASSUME NEW n \in Nat
  PROVE  Min({n, BudgetMax}) = IF n < BudgetMax THEN n ELSE BudgetMax
<1>1. BudgetMax \in Nat
  BY Limits
<1>2. {n, BudgetMax} \in SUBSET Nat /\ {n, BudgetMax} # {}
  BY <1>1
<1>3. Min({n, BudgetMax}) \in {n, BudgetMax} /\ \A y \in {n, BudgetMax} : Min({n, BudgetMax}) =< y
  <2>1. \E x \in {n, BudgetMax} : \A y \in {n, BudgetMax} : x =< y
    BY <1>2, LeastExists
  <2>. QED
    BY <2>1 DEF Min
<1>. QED
  BY <1>1, <1>3

\* A try that the limiter has taken or refused leaves the account fitting.
LEMMA HitFits ==
  ASSUME NEW T, NEW c, now \in Nat, TriesFit(T, c, now)
  PROVE  /\ hit(c).count > BudgetMax => TriesFit(T, hit(c), now)
         /\ ~(hit(c).count > BudgetMax) => TriesFit(Append(T, now), hit(c), now)
<1>0. c \in [count : Nat, resetAt : Nat]
  BY DEF TriesFit
<1>1. CASE now >= c.resetAt
  <2>1. hit(c) = [count |-> 1, resetAt |-> now + Window] /\ hit(c).count = 1
    BY <1>1 DEF hit
  <2>. QED
    BY <1>1, <2>1, TryOpens, Limits
<1>2. CASE ~(now >= c.resetAt)
  <2>1. hit(c) = [c EXCEPT !.count = Min({c.count, BudgetMax}) + 1]
    BY <1>2 DEF hit
  <2>2. now < c.resetAt
    BY <1>0, <1>2
  <2>3. CASE c.count < BudgetMax
    <3>1. hit(c) = [c EXCEPT !.count = c.count + 1]
      BY <1>0, <2>1, <2>3, MinOfTwo
    <3>2. hit(c).count = c.count + 1
      BY <1>0, <3>1
    <3>3. ~(hit(c).count > BudgetMax)
      BY <1>0, <2>3, <3>2, Limits
    <3>. QED
      BY <2>2, <2>3, <3>1, <3>3, TryCounts
  <2>4. CASE ~(c.count < BudgetMax)
    <3>1. hit(c) = [c EXCEPT !.count = BudgetMax + 1]
      BY <1>0, <2>1, <2>4, MinOfTwo
    <3>2. hit(c).count > BudgetMax
      BY <1>0, <3>1, Limits
    <3>3. c.count >= BudgetMax
      BY <1>0, <2>4, Limits
    <3>. QED
      BY <3>1, <3>2, <3>3, TryRefused
  <2>. QED
    BY <2>3, <2>4
<1>. QED
  BY <1>1, <1>2

\* Only three things happen to the limiter, and to the clock one.
LEMMA LimitSteps ==
  ASSUME [Next]_avars
  PROVE  \/ UNCHANGED <<limit, now>>
         \/ now' = now + 1 /\ UNCHANGED limit
         \/ /\ counters' = [a \in Addresses |-> [count |-> 0, resetAt |-> 0]]
            /\ tried' = [a \in Addresses |-> <<>>] /\ now' = now
         \/ \E call \in calls : loginChecked(call)
         \/ \E b : /\ counters' = [counters EXCEPT ![b] = [count |-> 0, resetAt |-> 0]]
                   /\ tried' = [tried EXCEPT ![b] = <<>>] /\ now' = now
<1>1. CASE visit \/ Seeding \/ \E seeder \in seeders : seedFails(seeder)
  BY <1>1 DEF visit, Seeding, seedFails, shortCircuit, seedNext, writeCredentials, environment, limit, stop
<1>2. CASE Crash \/ Tick
  BY <1>2 DEF Crash, Tick
<1>3. CASE \E a \in Addresses : provisionFromIdentity(a) \/ login(a)
  BY <1>3 DEF provisionFromIdentity, login, environment
<1>4. CASE \E a \in Addresses : \E name \in Names : updateProfile(a, name)
  BY <1>4 DEF updateProfile, environment
<1>5. CASE \E a \in Addresses : \E id \in {directory[i].id : i \in DOMAIN directory}, role \in Positions : assignRole(a, id, role)
  BY <1>5 DEF assignRole, environment
<1>6. CASE \E slot \in Slots : Answering(slot)
  <2>1. PICK call \in calls : provisioned(call) \/ verified(call) \/ loginFails(call) \/ loginChecked(call)
    BY <1>6 DEF Answering
  <2>2. CASE verified(call)
    <3>1. CASE \E user \in call.user : user.secret # 0 /\ user.secret = call.secret
      BY <2>2, <3>1 DEF verified, environment
    <3>2. CASE ~\E user \in call.user : user.secret # 0 /\ user.secret = call.secret
      BY <2>2, <3>2 DEF verified, environment
    <3>. QED
      BY <3>1, <3>2
  <2>3. CASE provisioned(call) \/ loginFails(call)
    BY <2>3 DEF provisioned, loginFails, environment
  <2>. QED
    BY <2>1, <2>2, <2>3
<1>7. CASE UNCHANGED avars
  BY <1>7 DEF avars, limit
<1>. QED
  BY <1>1, <1>2, <1>3, <1>4, <1>5, <1>6, <1>7 DEF Next

\* Every account fits at every moment.
LEMMA TriesKept ==
  ASSUME TriesInv, [Next]_avars
  PROVE  TriesInv'
<1>0. /\ now \in Nat /\ \A a \in Addresses : TriesFit(tried[a], counters[a], now)
      /\ DOMAIN tried = Addresses /\ DOMAIN counters = Addresses
  BY DEF TriesInv
<1>1. CASE UNCHANGED <<limit, now>>
  <2>1. tried' = tried /\ counters' = counters /\ now' = now
    BY <1>1 DEF limit
  <2>. QED
    BY <1>0, <2>1 DEF TriesInv
<1>2. CASE now' = now + 1 /\ UNCHANGED limit
  <2>1. tried' = tried /\ counters' = counters /\ now' = now + 1
    BY <1>2 DEF limit
  <2>2. \A a \in Addresses : TriesFit(tried[a], counters[a], now + 1)
    BY <1>0, TriesFitLater
  <2>3. now + 1 \in Nat
    BY <1>0
  <2>. QED
    BY <1>0, <2>1, <2>2, <2>3 DEF TriesInv
<1>3. CASE /\ counters' = [a \in Addresses |-> [count |-> 0, resetAt |-> 0]]
           /\ tried' = [a \in Addresses |-> <<>>] /\ now' = now
  <2>1. \A a \in Addresses : tried'[a] = <<>> /\ counters'[a] = [count |-> 0, resetAt |-> 0]
    BY <1>3
  <2>2. TriesFit(<<>>, [count |-> 0, resetAt |-> 0], now)
    BY <1>0, NoTriesFit
  <2>3. DOMAIN tried' = Addresses /\ DOMAIN counters' = Addresses
    BY <1>3
  <2>4. \A a \in Addresses : TriesFit(tried'[a], counters'[a], now')
    BY <1>3, <2>1, <2>2
  <2>. QED
    BY <1>0, <1>3, <2>3, <2>4 DEF TriesInv
<1>4. ASSUME NEW call \in calls, loginChecked(call) PROVE TriesInv'
  <2>. DEFINE b == call.email
              e == hit(counters[b])
  <2>1. counters' = [counters EXCEPT ![b] = e] /\ now' = now
    BY <1>4 DEF loginChecked, environment
  <2>2. /\ e.count > BudgetMax => tried' = tried
        /\ ~(e.count > BudgetMax) => tried' = [tried EXCEPT ![b] = Append(@, now)]
    BY <1>4 DEF loginChecked
  <2>3. b \in Addresses => /\ e.count > BudgetMax => TriesFit(tried[b], e, now)
                           /\ ~(e.count > BudgetMax) => TriesFit(Append(tried[b], now), e, now)
    BY <1>0, HitFits
  <2>. HIDE DEF b, e
  <2>4. DOMAIN tried' = Addresses /\ DOMAIN counters' = Addresses
    BY <1>0, <2>1, <2>2
  <2>5. ASSUME NEW a \in Addresses PROVE TriesFit(tried'[a], counters'[a], now')
    <3>1. CASE a = b
      BY <1>0, <2>1, <2>2, <2>3, <3>1
    <3>2. CASE a # b
      <4>1. tried'[a] = tried[a] /\ counters'[a] = counters[a]
        BY <1>0, <2>1, <2>2, <3>2
      <4>. QED
        BY <1>0, <2>1, <4>1
    <3>. QED
      BY <3>1, <3>2
  <2>. QED
    BY <1>0, <2>1, <2>4, <2>5 DEF TriesInv
<1>5. ASSUME NEW b, counters' = [counters EXCEPT ![b] = [count |-> 0, resetAt |-> 0]],
             tried' = [tried EXCEPT ![b] = <<>>], now' = now
      PROVE  TriesInv'
  <2>1. DOMAIN tried' = Addresses /\ DOMAIN counters' = Addresses
    BY <1>0, <1>5
  <2>2. ASSUME NEW a \in Addresses PROVE TriesFit(tried'[a], counters'[a], now')
    <3>1. CASE a = b
      <4>1. tried'[a] = <<>> /\ counters'[a] = [count |-> 0, resetAt |-> 0]
        BY <1>0, <1>5, <3>1
      <4>2. TriesFit(<<>>, [count |-> 0, resetAt |-> 0], now)
        BY <1>0, NoTriesFit
      <4>. QED
        BY <1>5, <4>1, <4>2
    <3>2. CASE a # b
      <4>1. tried'[a] = tried[a] /\ counters'[a] = counters[a]
        BY <1>0, <1>5, <3>2
      <4>. QED
        BY <1>0, <1>5, <4>1
    <3>. QED
      BY <3>1, <3>2
  <2>. QED
    BY <1>0, <1>5, <2>1, <2>2 DEF TriesInv
<1>. QED
  BY <1>1, <1>2, <1>3, <1>4, <1>5, LimitSteps

\* In a stretch as long as a window lie fewer tries than two windows take.
LEMMA FewTries ==
  ASSUME NEW T, NEW c, NEW time \in Nat, TriesFit(T, c, time), NEW t \in Nat
  PROVE  Cardinality({k \in DOMAIN T : T[k] \in t..(t + Window - 1)}) < 2 * BudgetMax
<1>. DEFINE S == {k \in DOMAIN T : T[k] \in t..(t + Window - 1)}
<1>1. T \in Seq(Nat) /\ \A i, j \in 1..Len(T) : i + 2 * BudgetMax <= j + 1 => T[i] + Window <= T[j]
  BY DEF TriesFit
<1>2. S \in SUBSET Nat /\ S \subseteq 1..Len(T) /\ \A k \in S : T[k] >= t /\ T[k] < t + Window /\ T[k] \in Nat
  BY <1>1, Limits
<1>. HIDE DEF S
<1>3. CASE S = {}
  <2>1. Cardinality(S) = 0
    BY <1>3, FS_EmptySet
  <2>. QED
    BY <2>1, Limits DEF S
<1>4. CASE S # {}
  <2>1. PICK lo \in S : \A k \in S : lo <= k
    BY <1>2, <1>4, LeastExists
  <2>2. lo \in Nat
    BY <1>2, <2>1
  <2>3. ASSUME NEW k \in S PROVE k \in lo..(lo + 2 * BudgetMax - 2)
    <3>1. k \in Nat /\ lo <= k /\ lo \in 1..Len(T) /\ k \in 1..Len(T)
      BY <1>2, <2>1
    <3>2. ~(T[lo] + Window <= T[k])
      BY <1>2, <2>1, Limits
    <3>3. ~(lo + 2 * BudgetMax <= k + 1)
      BY <1>1, <3>1, <3>2
    <3>. QED
      BY <2>2, <3>1, <3>3, Limits
  <2>4. S \subseteq lo..(lo + 2 * BudgetMax - 2)
    BY <2>3
  <2>5. lo \in Int /\ lo + 2 * BudgetMax - 2 \in Int /\ lo <= lo + 2 * BudgetMax - 2
    BY <2>2, Limits
  <2>6. /\ IsFiniteSet(lo..(lo + 2 * BudgetMax - 2))
        /\ Cardinality(lo..(lo + 2 * BudgetMax - 2)) = 2 * BudgetMax - 1
    BY <2>2, <2>5, FS_Interval, Limits
  <2>7. Cardinality(S) <= 2 * BudgetMax - 1 /\ Cardinality(S) \in Nat
    BY <2>4, <2>6, FS_Subset, FS_CardinalityType
  <2>. QED
    BY <2>7, Limits DEF S
<1>. QED
  BY <1>3, <1>4

\* In no stretch of time as long as a window are two windows' passwords tried
\* on an account that nobody signed in to, wherever the windows' edges lie.
THEOREM TriesAlwaysBounded == Spec => []TriesAreBounded
<1>1. Init => TriesInv
  <2>. SUFFICES ASSUME Init PROVE TriesInv
    OBVIOUS
  <2>1. /\ counters = [a \in Addresses |-> [count |-> 0, resetAt |-> 0]]
        /\ tried = [a \in Addresses |-> <<>>] /\ now = 0
    BY DEF Init
  <2>2. TriesFit(<<>>, [count |-> 0, resetAt |-> 0], 0)
    BY NoTriesFit
  <2>. QED
    BY <2>1, <2>2 DEF TriesInv
<1>2. TriesInv /\ [Next]_avars => TriesInv'
  BY TriesKept
<1>3. TriesInv => TriesAreBounded
  <2>. SUFFICES ASSUME TriesInv, NEW a \in Addresses, NEW t \in 0..MaxTime
                PROVE  Cardinality({k \in DOMAIN tried[a] : tried[a][k] \in t..(t + Window - 1)}) < 2 * BudgetMax
    BY DEF TriesAreBounded
  <2>1. t \in Nat /\ now \in Nat /\ TriesFit(tried[a], counters[a], now)
    BY AccountsAssumption DEF TriesInv
  <2>. QED
    BY <2>1, FewTries
<1>. QED
  BY <1>1, <1>2, <1>3, PTL DEF Spec

=============================================================================
