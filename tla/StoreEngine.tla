---------------------------- MODULE StoreEngine -----------------------------
(***************************************************************************)
(* How src/lib/store.ts keeps the database: one JSON file, a copy of it in *)
(* memory, and a promise chain that runs the mutating operations one after *)
(* the other.  Reads are not in the chain.  Every await is a step of its   *)
(* own, and the process may die between any two of them.                   *)
(*                                                                         *)
(* What the operations do is the business of PrfStore.  Here an operation  *)
(* is a call, and a database is the set of calls that were applied to it.  *)
(***************************************************************************)
EXTENDS Integers, Sequences

CONSTANTS
  Calls,       \* calls of the mutating operations, each made once
  Readers,     \* reads that may be under way at the same time
  NoCopy,      \* the cache of a process that has not read the file yet
  MaxCrashes   \* bound: how often the process dies

ASSUME EngineAssumption == (\A data \in SUBSET Calls : NoCopy # data) /\ MaxCrashes \in Nat

VARIABLES
  disk,        \* the calls the file holds; {} also when there is no file
  cache,       \* the copy in memory
  queue,       \* the promise chain, the running transaction first
  run,         \* how far the running transaction is, and the data it holds
  reads,       \* for each reader, the file it opened when the cache was cold
  outcome,     \* what each caller was told
  crashes,     \* how often the process died
  overtaken    \* history: a read put a copy older than the file in the cache

evars == <<disk, cache, queue, run, reads, outcome, crashes, overtaken>>

Outcomes == {"not made", "waiting", "done", "refused", "cut off"}
Phases   == {"idle", "loading", "writing", "renamed"}

Idle == [phase |-> "idle", data |-> {}]

Init ==
  /\ disk = {} /\ cache = NoCopy
  /\ queue = <<>> /\ run = Idle
  /\ reads = [r \in Readers |-> NoCopy]
  /\ outcome = [c \in Calls |-> "not made"]
  /\ crashes = 0 /\ overtaken = FALSE

-----------------------------------------------------------------------------
(* Reads.  A warm read answers from memory at once and changes nothing; a  *)
(* cold one awaits the file and, whatever happened meanwhile, makes what   *)
(* it got the copy in memory.                                              *)

BeginRead(r) ==
  /\ cache = NoCopy
  /\ reads[r] = NoCopy
  /\ reads' = [reads EXCEPT ![r] = disk]
  /\ UNCHANGED <<disk, cache, queue, run, outcome, crashes, overtaken>>

EndRead(r) ==
  /\ reads[r] # NoCopy
  /\ reads' = [reads EXCEPT ![r] = NoCopy]
  /\ cache' = reads[r]
  /\ overtaken' = (overtaken \/ reads[r] # disk)
  /\ UNCHANGED <<disk, queue, run, outcome, crashes>>

\* The file could not be read or parsed.
FailRead(r) ==
  /\ reads[r] # NoCopy
  /\ reads' = [reads EXCEPT ![r] = NoCopy]
  /\ UNCHANGED <<disk, cache, queue, run, outcome, crashes, overtaken>>

-----------------------------------------------------------------------------
(* Transactions.                                                           *)

Call(c) ==
  /\ outcome[c] = "not made"
  /\ outcome' = [outcome EXCEPT ![c] = "waiting"]
  /\ queue' = Append(queue, c)
  /\ UNCHANGED <<disk, cache, run, reads, crashes, overtaken>>

\* Fault: the chain is left rejected, so that whatever waits in it is refused
\* without having run.
Refuse_ChainRejected ==
  /\ outcome' = [c \in Calls |-> IF outcome[c] = "waiting" THEN "refused" ELSE outcome[c]]
  /\ queue' = <<>>
  /\ run' = Idle
  /\ UNCHANGED <<disk, crashes>>

\* The transaction throws: its caller is told, and the chain, which catches
\* the rejection, goes on with the next one.
Refuse ==
  /\ outcome' = [outcome EXCEPT ![Head(queue)] = "refused"]
  /\ queue' = Tail(queue)
  /\ run' = Idle
  /\ UNCHANGED <<disk, crashes>>

\* The operation works on a deep copy of the database, and either throws or
\* leaves a draft to be written.
Work(database) ==
  \/ Refuse
  \/ /\ run' = [phase |-> "writing", data |-> database \cup {Head(queue)}]
     /\ UNCHANGED <<disk, queue, outcome, crashes>>

BeginWarm ==
  /\ queue # <<>> /\ run = Idle /\ cache # NoCopy
  /\ Work(cache)
  /\ UNCHANGED <<cache, reads, overtaken>>

BeginCold ==
  /\ queue # <<>> /\ run = Idle /\ cache = NoCopy
  /\ run' = [phase |-> "loading", data |-> disk]
  /\ UNCHANGED <<disk, cache, queue, reads, outcome, crashes, overtaken>>

Load ==
  /\ run.phase = "loading"
  /\ cache' = run.data
  /\ Work(run.data)
  /\ UNCHANGED <<reads, overtaken>>

FailLoad ==
  /\ run.phase = "loading"
  /\ Refuse
  /\ UNCHANGED <<cache, reads, overtaken>>

\* The temporary file takes the place of the store in one step.
Rename ==
  /\ run.phase = "writing"
  /\ disk' = run.data
  /\ run' = [run EXCEPT !.phase = "renamed"]
  /\ UNCHANGED <<cache, queue, reads, outcome, crashes, overtaken>>

\* Fault: the draft is in memory although it could not be written.
FailWrite_CachesFirst ==
  /\ run.phase = "writing"
  /\ cache' = run.data
  /\ Refuse
  /\ UNCHANGED <<reads, overtaken>>

\* The directory, the temporary file or the rename failed.
FailWrite ==
  /\ run.phase = "writing"
  /\ Refuse
  /\ UNCHANGED <<cache, reads, overtaken>>

\* Fault: the caller is answered and memory is left as it was.
Finish_NoCache ==
  /\ run.phase = "renamed"
  /\ outcome' = [outcome EXCEPT ![Head(queue)] = "done"]
  /\ queue' = Tail(queue)
  /\ run' = Idle
  /\ UNCHANGED <<disk, cache, reads, crashes, overtaken>>

\* The await of the rename returns: memory follows, the caller is answered.
Finish ==
  /\ run.phase = "renamed"
  /\ cache' = run.data
  /\ outcome' = [outcome EXCEPT ![Head(queue)] = "done"]
  /\ queue' = Tail(queue)
  /\ run' = Idle
  /\ UNCHANGED <<disk, reads, crashes, overtaken>>

-----------------------------------------------------------------------------
\* The process dies and another starts: the file is all that is left.
Crash ==
  /\ crashes < MaxCrashes
  /\ crashes' = crashes + 1
  /\ cache' = NoCopy /\ queue' = <<>> /\ run' = Idle
  /\ reads' = [r \in Readers |-> NoCopy]
  /\ outcome' = [c \in Calls |-> IF outcome[c] = "waiting" THEN "cut off" ELSE outcome[c]]
  /\ UNCHANGED <<disk, overtaken>>

TransactionStep ==
  BeginWarm \/ BeginCold \/ Load \/ FailLoad \/ Rename \/ FailWrite \/ Finish

Next ==
  \/ \E r \in Readers : BeginRead(r) \/ EndRead(r) \/ FailRead(r)
  \/ \E c \in Calls : Call(c)
  \/ TransactionStep
  \/ Crash

Spec == Init /\ [][Next]_evars

\* File operations return, with a result or an error, and the event loop
\* runs every continuation that is ready.
FairSpec == Spec /\ WF_evars(TransactionStep)

-----------------------------------------------------------------------------
\* Every variable holds what the declarations of store.ts say it holds, and
\* a transaction runs only while it is at the head of the chain.
EngineTypeOK ==
  /\ disk \in SUBSET Calls
  /\ cache = NoCopy \/ cache \in SUBSET Calls
  /\ queue \in Seq(Calls)
  /\ run \in [phase : Phases, data : SUBSET Calls]
  /\ DOMAIN reads = Readers
  /\ \A r \in Readers : reads[r] = NoCopy \/ reads[r] \in SUBSET Calls
  /\ outcome \in [Calls -> Outcomes]
  /\ crashes \in 0..MaxCrashes
  /\ overtaken \in BOOLEAN
  /\ run # Idle => queue # <<>>

\* As long as no read has put an older copy in memory, memory is the file (or
\* one rename behind it, until the transaction that renamed it finishes), and
\* whatever a caller was told is done is in both: "atomic rename so a crash
\* mid-write cannot leave a half-written store" and "serialises every
\* mutation through one queue" add up to durability.
DoneIsKeptUnlessOvertaken ==
  ~overtaken =>
    /\ cache = NoCopy \/ cache = disk \/ run.phase = "renamed"
    /\ \A c \in Calls : outcome[c] = "done" => c \in disk

\* A call that was refused, by a rule or by a failing file system, leaves no
\* trace: not in the file, not in memory, not in what is about to be written.
RefusedLeavesNoTrace ==
  \A c \in Calls :
    outcome[c] = "refused" =>
      /\ c \notin disk
      /\ cache # NoCopy => c \notin cache
      /\ c \notin run.data
      /\ \A r \in Readers : reads[r] # NoCopy => c \notin reads[r]

\* A refusal is the answer of the caller's own transaction, at its own turn.
RefusedAtItsTurn ==
  \A c \in Calls :
    (outcome[c] = "waiting" /\ outcome'[c] = "refused") => c = Head(queue)

\* store.ts, transaction: `queue` catches the rejection of the transaction it
\* stands for.  So a failure is its own caller's only: whoever waits behind it
\* is answered too, unless the process dies first, and is refused for no other
\* reason than that its own transaction, run at its turn, was.
EveryCallIsSettled ==
  /\ \A c \in Calls : (outcome[c] = "waiting") ~> (outcome[c] # "waiting")
  /\ [][RefusedAtItsTurn]_evars

\* store.ts, transaction: every mutation is serialised so that none is lost.
\* What a caller was told is done stays done.
DoneIsKept == \A c \in Calls : outcome[c] = "done" => c \in disk
=============================================================================
