------------------------ MODULE StoreEngineProofs ---------------------------
(***************************************************************************)
(* What the transaction engine promises, for every set of calls, every     *)
(* number of readers and any number of crashes.                            *)
(***************************************************************************)
EXTENDS StoreEngine, TLAPS

\* The calls in the chain were made once each and wait for their answer.
InLine(line, told) ==
  /\ line \in Seq(Calls)
  /\ \A i \in 1..Len(line) : told[line[i]] = "waiting"
  /\ \A i, j \in 1..Len(line) : line[i] = line[j] => i = j

\* The calls a file or a copy may hold: those that were carried out, those
\* whose process died, and the one that is renamed but not yet answered.
Applied ==
  {c \in Calls : \/ outcome[c] \in {"done", "cut off"}
                 \/ run.phase = "renamed" /\ c = Head(queue)}

\* What the running transaction holds, after each of its awaits.
RunFits ==
  /\ run.phase = "idle" => run = Idle
  /\ run.phase # "idle" => queue # <<>>
  /\ run.phase \in {"loading", "renamed"} => run.data = disk
  /\ run.phase = "writing" => run.data \subseteq Applied \cup {Head(queue)}
  /\ run.phase \in {"writing", "renamed"} => Head(queue) \in run.data

\* Nothing but applied calls is in the file, in memory or in a reader's hands.
OnlyApplied ==
  /\ disk \subseteq Applied
  /\ cache # NoCopy => cache \subseteq Applied
  /\ \A r \in Readers : reads[r] # NoCopy => reads[r] \subseteq Applied

\* Unless a read overtook a commit, a draft has grown from the file itself.
GrownFromTheFile ==
  (~overtaken /\ run.phase = "writing") => disk \subseteq run.data

EngineInv ==
  /\ EngineTypeOK
  /\ InLine(queue, outcome)
  /\ RunFits
  /\ OnlyApplied
  /\ GrownFromTheFile
  /\ DoneIsKeptUnlessOvertaken

-----------------------------------------------------------------------------
(* The chain.                                                              *)

\* The first in line waits, and answering it leaves the others in line.
LEMMA LineMovesOn ==
  ASSUME NEW line, NEW told \in [Calls -> Outcomes], NEW word,
         InLine(line, told), line # <<>>
  PROVE  /\ Head(line) \in Calls
         /\ told[Head(line)] = "waiting"
         /\ InLine(Tail(line), [told EXCEPT ![Head(line)] = word])
<1>. DEFINE rest == Tail(line)
            told2 == [told EXCEPT ![Head(line)] = word]
<1>1. line \in Seq(Calls)
  BY DEF InLine
<1>2. /\ Len(line) \in Nat /\ Len(line) >= 1
      /\ Head(line) = line[1] /\ Head(line) \in Calls
      /\ rest \in Seq(Calls) /\ Len(rest) = Len(line) - 1
      /\ \A i \in 1..Len(rest) : rest[i] = line[i + 1]
  BY <1>1
<1>3. told[Head(line)] = "waiting"
  <2>1. 1 \in 1..Len(line)
    BY <1>2
  <2>. QED
    BY <1>2, <2>1 DEF InLine
<1>4. \A i \in 1..Len(rest) : /\ i + 1 \in 1..Len(line) /\ i + 1 # 1
                              /\ rest[i] \in Calls
  BY <1>2
<1>5. \A i \in 1..Len(rest) : rest[i] # Head(line)
  <2>1. 1 \in 1..Len(line)
    BY <1>2
  <2>. HIDE DEF rest
  <2>. QED
    BY <1>2, <1>4, <2>1, Zenon DEF InLine
<1>6. \A i \in 1..Len(rest) : told2[rest[i]] = "waiting"
  <2>1. \A i \in 1..Len(rest) : told[rest[i]] = "waiting"
    <3>. HIDE DEF rest
    <3>1. \A i \in 1..Len(rest) : told[line[i + 1]] = "waiting"
      BY <1>4, Zenon DEF InLine
    <3>. QED
      BY <1>2, <3>1, Zenon
  <2>. HIDE DEF rest
  <2>. QED
    BY <1>4, <1>5, <2>1
<1>7. \A i, j \in 1..Len(rest) : rest[i] = rest[j] => i = j
  <2>1. \A i, j \in 1..Len(rest) : line[i + 1] = line[j + 1] => i + 1 = j + 1
    <3>. HIDE DEF rest
    <3>. QED
      BY <1>4 DEF InLine
  <2>. HIDE DEF rest
  <2>. QED
    BY <1>2, <2>1
<1>. HIDE DEF rest, told2
<1>8. InLine(rest, told2)
  BY <1>2, <1>6, <1>7 DEF InLine
<1>. QED
  BY <1>2, <1>3, <1>8 DEF rest, told2

\* Somebody joins a line at its end.
Joins(longer, line, c) ==
  /\ Len(line) \in Nat
  /\ longer \in Seq(Calls)
  /\ Len(longer) = Len(line) + 1
  /\ \A i \in 1..Len(line) : longer[i] = line[i] /\ line[i] \in Calls
  /\ longer[Len(line) + 1] = c
  /\ longer # <<>>
  /\ \A i \in 1..Len(longer) : i \in 1..Len(line) \/ i = Len(line) + 1
  /\ line # <<>> => Head(longer) = Head(line)

\* Which is what Append does.
LEMMA AppendJoins ==
  ASSUME NEW line \in Seq(Calls), NEW c \in Calls
  PROVE  Joins(Append(line, c), line, c)
<1>. DEFINE longer == Append(line, c)
<1>1. /\ Len(line) \in Nat
      /\ longer \in Seq(Calls) /\ Len(longer) = Len(line) + 1
      /\ \A i \in 1..Len(line) : longer[i] = line[i] /\ line[i] \in Calls
      /\ longer[Len(line) + 1] = c
      /\ longer # <<>>
  OBVIOUS
<1>2. line # <<>> => Head(longer) = Head(line)
  OBVIOUS
<1>3. \A i \in 1..(Len(line) + 1) : i \in 1..Len(line) \/ i = Len(line) + 1
  BY <1>1
<1>. HIDE DEF longer
<1>4. Joins(longer, line, c)
  BY <1>1, <1>2, <1>3 DEF Joins
<1>. QED
  BY <1>4 DEF longer

\* A call joins at the end, and the first in line stays the first.
LEMMA LineGrows ==
  ASSUME NEW line, NEW told \in [Calls -> Outcomes], NEW c \in Calls,
         InLine(line, told), told[c] = "not made"
  PROVE  /\ InLine(Append(line, c), [told EXCEPT ![c] = "waiting"])
         /\ Append(line, c) # <<>>
         /\ line # <<>> => Head(Append(line, c)) = Head(line)
<1>. DEFINE longer == Append(line, c)
            told2 == [told EXCEPT ![c] = "waiting"]
<1>1. line \in Seq(Calls)
  BY DEF InLine
<1>2. Joins(longer, line, c)
  BY <1>1, AppendJoins, Zenon
<1>. HIDE DEF longer
<1>3. /\ Len(line) \in Nat
      /\ longer \in Seq(Calls)
      /\ Len(longer) = Len(line) + 1
      /\ \A i \in 1..Len(line) : longer[i] = line[i] /\ line[i] \in Calls
      /\ longer[Len(line) + 1] = c
      /\ longer # <<>>
      /\ line # <<>> => Head(longer) = Head(line)
  BY <1>2 DEF Joins
<1>4. \A i \in 1..Len(longer) : i \in 1..Len(line) \/ i = Len(line) + 1
  BY <1>2 DEF Joins
<1>5. \A i \in 1..Len(line) : line[i] # c /\ told2[line[i]] = "waiting"
  <2>1. \A i \in 1..Len(line) : told[line[i]] = "waiting"
    BY DEF InLine
  <2>2. \A i \in 1..Len(line) : line[i] # c
    BY <2>1
  <2>. QED
    BY <1>3, <2>1, <2>2
<1>6. told2[c] = "waiting"
  OBVIOUS
<1>. HIDE DEF told2
<1>7. \A i \in 1..Len(longer) : told2[longer[i]] = "waiting"
  BY <1>3, <1>4, <1>5, <1>6, Zenon
<1>8. \A i, j \in 1..Len(longer) : longer[i] = longer[j] => i = j
  <2>1. \A i, j \in 1..Len(line) : line[i] = line[j] => i = j
    BY DEF InLine
  <2>2. \A i \in 1..Len(line) : longer[i] = line[i] /\ longer[i] # c
    BY <1>3, <1>5, Zenon
  <2>3. \A i \in 1..Len(longer) : longer[i] = c => i = Len(line) + 1
    BY <1>3, <1>4, <2>2, Zenon
  <2>4. ASSUME NEW i \in 1..Len(longer), NEW j \in 1..Len(longer), longer[i] = longer[j]
        PROVE  i = j
    <3>1. CASE i = Len(line) + 1
      BY <1>3, <2>3, <2>4, <3>1, Zenon
    <3>2. CASE i # Len(line) + 1
      <4>1. i \in 1..Len(line) /\ longer[j] # c
        BY <1>4, <2>2, <2>4, <3>2, Zenon
      <4>2. j \in 1..Len(line)
        BY <1>3, <1>4, <4>1, Zenon
      <4>. QED
        BY <2>1, <2>2, <2>4, <4>1, <4>2, Zenon
    <3>. QED
      BY <3>1, <3>2
  <2>. QED
    BY <2>4
<1>9. InLine(longer, told2)
  BY <1>3, <1>7, <1>8 DEF InLine
<1>. QED
  BY <1>3, <1>9 DEF longer, told2

-----------------------------------------------------------------------------
(* The steps.                                                              *)

\* The first state has nothing to lose.
LEMMA InitEngine == Init => EngineInv
<1>. SUFFICES ASSUME Init PROVE EngineInv
  OBVIOUS
<1>1. queue \in Seq(Calls) /\ (\A i \in 1..Len(queue) : FALSE)
  <2>1. queue = <<>>
    BY DEF Init
  <2>. QED
    BY <2>1
<1>2. EngineTypeOK /\ InLine(queue, outcome)
  <2>5. crashes = 0 /\ overtaken = FALSE /\ reads = [r \in Readers |-> NoCopy]
    BY DEF Init
  <2>6. crashes \in 0..MaxCrashes
    BY <2>5, EngineAssumption
  <2>1. /\ cache = NoCopy \/ cache \in SUBSET Calls
        /\ DOMAIN reads = Readers /\ (\A r \in Readers : reads[r] = NoCopy)
        /\ overtaken \in BOOLEAN
    BY <2>5 DEF Init
  <2>2. /\ outcome \in [Calls -> Outcomes] /\ disk \in SUBSET Calls
        /\ run = Idle /\ run \in [phase : Phases, data : SUBSET Calls]
    BY DEF Init, Outcomes, Phases, Idle
  <2>3. EngineTypeOK
    BY <1>1, <2>1, <2>2, <2>6 DEF EngineTypeOK
  <2>4. InLine(queue, outcome)
    BY <1>1, Zenon DEF InLine
  <2>. QED
    BY <2>3, <2>4
<1>3. RunFits /\ OnlyApplied /\ GrownFromTheFile
  BY DEF Init, RunFits, OnlyApplied, GrownFromTheFile, Idle, Applied
<1>4. DoneIsKeptUnlessOvertaken
  BY DEF Init, DoneIsKeptUnlessOvertaken
<1>. QED
  BY <1>2, <1>3, <1>4 DEF EngineInv

\* The transaction at the head of the chain is a call whose caller waits.
LEMMA HeadWaits ==
  ASSUME EngineInv, queue # <<>>
  PROVE  Head(queue) \in Calls /\ outcome[Head(queue)] = "waiting"
<1>1. InLine(queue, outcome) /\ outcome \in [Calls -> Outcomes]
  BY DEF EngineInv, EngineTypeOK
<1>. QED
  BY <1>1, LineMovesOn, Zenon

\* Refusing answers the first in line, undoes nothing and holds nothing.
LEMMA RefuseKeeps ==
  ASSUME EngineInv, queue # <<>>, run.phase # "renamed", Refuse
  PROVE  /\ queue' \in Seq(Calls) /\ outcome' \in [Calls -> Outcomes]
         /\ InLine(queue', outcome')
         /\ run' = Idle
         /\ Applied \subseteq Applied'
         /\ \A c \in Calls : outcome'[c] = "done" => outcome[c] = "done"
<1>. DEFINE first == Head(queue)
<1>1. InLine(queue, outcome) /\ outcome \in [Calls -> Outcomes]
  BY DEF EngineInv, EngineTypeOK
<1>2. first \in Calls /\ outcome[first] = "waiting"
  BY HeadWaits
<1>3. outcome' = [outcome EXCEPT ![first] = "refused"] /\ run' = Idle /\ queue' = Tail(queue)
  BY DEF Refuse
<1>4. InLine(queue', outcome')
  BY <1>1, <1>3, LineMovesOn, Zenon
<1>5. queue' \in Seq(Calls)
  BY <1>4 DEF InLine
<1>. HIDE DEF first
<1>6. /\ outcome' \in [Calls -> Outcomes]
      /\ \A c \in Calls : outcome[c] \in {"done", "cut off"} => outcome'[c] = outcome[c]
      /\ \A c \in Calls : outcome'[c] = "done" => outcome[c] = "done"
  BY <1>1, <1>2, <1>3 DEF Outcomes
<1>7. Applied \subseteq Applied'
  BY <1>6 DEF Applied
<1>. QED
  BY <1>3, <1>4, <1>5, <1>6, <1>7

\* A refusal keeps the invariant, wherever the transaction stood before the
\* rename.
LEMMA RefuseStep ==
  ASSUME EngineInv, queue # <<>>, run.phase # "renamed", Refuse,
         cache' = cache \/ (run.phase = "loading" /\ cache' = run.data),
         UNCHANGED <<reads, overtaken>>
  PROVE  EngineInv'
<1>1. /\ queue' \in Seq(Calls) /\ outcome' \in [Calls -> Outcomes]
      /\ InLine(queue', outcome')
      /\ run' = Idle
      /\ Applied \subseteq Applied'
      /\ \A c \in Calls : outcome'[c] = "done" => outcome[c] = "done"
  BY RefuseKeeps
<1>2. /\ disk' = disk /\ crashes' = crashes /\ reads' = reads /\ overtaken' = overtaken
      /\ cache' = cache \/ cache' = disk
  BY DEF Refuse, EngineInv, RunFits
<1>3. EngineTypeOK'
  BY <1>1, <1>2 DEF EngineInv, EngineTypeOK, Idle, Phases
<1>4. RunFits'
  BY <1>1 DEF RunFits, Idle
<1>5. OnlyApplied'
  BY <1>1, <1>2 DEF EngineInv, OnlyApplied
<1>6. GrownFromTheFile'
  BY <1>1 DEF GrownFromTheFile, Idle
<1>7. DoneIsKeptUnlessOvertaken'
  BY <1>1, <1>2 DEF EngineInv, DoneIsKeptUnlessOvertaken
<1>. QED
  BY <1>1, <1>3, <1>4, <1>5, <1>6, <1>7 DEF EngineInv

\* Nor does an operation that leaves a draft: the draft holds what it was
\* copied from and the call itself.
LEMMA DraftStep ==
  ASSUME EngineInv, queue # <<>>, NEW database \in SUBSET Calls,
         database \subseteq Applied,
         ~overtaken => database = disk,
         run.phase \in {"idle", "loading"},
         run' = [phase |-> "writing", data |-> database \cup {Head(queue)}],
         cache' = cache \/ cache' = disk,
         UNCHANGED <<disk, queue, reads, outcome, crashes, overtaken>>
  PROVE  EngineInv'
<1>. DEFINE first == Head(queue)
<1>1. first \in Calls
  BY HeadWaits
<1>2. Applied' = Applied
  BY DEF Applied
<1>3. first' = first
  OBVIOUS
<1>4. run' = [phase |-> "writing", data |-> database \cup {first}]
  OBVIOUS
<1>5. InLine(queue, outcome)'
  BY DEF EngineInv
<1>6. RunFits'
  BY <1>2 DEF RunFits
<1>. HIDE DEF first
<1>7. EngineTypeOK'
  BY <1>1, <1>4 DEF EngineInv, EngineTypeOK, Phases, Idle
<1>8. OnlyApplied'
  BY <1>2 DEF EngineInv, OnlyApplied
<1>9. GrownFromTheFile' /\ DoneIsKeptUnlessOvertaken'
  BY <1>4 DEF EngineInv, GrownFromTheFile, DoneIsKeptUnlessOvertaken
<1>. QED
  BY <1>5, <1>6, <1>7, <1>8, <1>9 DEF EngineInv

\* A call joins the chain, or a read or a load begins, or a read fails.
LEMMA QuietStep ==
  ASSUME EngineInv,
         \/ \E r \in Readers : BeginRead(r) \/ FailRead(r)
         \/ \E c \in Calls : Call(c)
         \/ BeginCold
  PROVE  EngineInv'
<1>1. ASSUME NEW r \in Readers, BeginRead(r) \/ FailRead(r)
      PROVE  EngineInv'
  <2>1. /\ Applied' = Applied
        /\ disk' = disk /\ run' = run /\ cache' = cache /\ overtaken' = overtaken
        /\ queue' = queue /\ outcome' = outcome /\ crashes' = crashes
    BY <1>1 DEF BeginRead, FailRead, Applied
  <2>2. reads' = [reads EXCEPT ![r] = disk] \/ reads' = [reads EXCEPT ![r] = NoCopy]
    BY <1>1 DEF BeginRead, FailRead
  <2>3. EngineTypeOK'
    BY <2>1, <2>2 DEF EngineInv, EngineTypeOK
  <2>4. RunFits' /\ InLine(queue, outcome)'
    BY <2>1 DEF EngineInv, RunFits, InLine
  <2>5. OnlyApplied'
    BY <2>1, <2>2 DEF EngineInv, EngineTypeOK, OnlyApplied
  <2>6. GrownFromTheFile' /\ DoneIsKeptUnlessOvertaken'
    BY <2>1 DEF EngineInv, GrownFromTheFile, DoneIsKeptUnlessOvertaken
  <2>. QED
    BY <2>3, <2>4, <2>5, <2>6 DEF EngineInv
<1>2. ASSUME NEW c \in Calls, Call(c)
      PROVE  EngineInv'
  <2>1. /\ InLine(queue, outcome) /\ outcome \in [Calls -> Outcomes]
        /\ outcome[c] = "not made"
        /\ outcome' = [outcome EXCEPT ![c] = "waiting"] /\ queue' = Append(queue, c)
    BY <1>2 DEF Call, EngineInv, EngineTypeOK
  <2>2. /\ InLine(queue', outcome')
        /\ queue' # <<>>
        /\ queue # <<>> => Head(queue') = Head(queue)
    BY <2>1, LineGrows, Zenon
  <2>3. disk' = disk /\ run' = run /\ cache' = cache /\ reads' = reads
        /\ overtaken' = overtaken /\ crashes' = crashes
    BY <1>2 DEF Call
  <2>4. queue' \in Seq(Calls)
    BY <2>2 DEF InLine
  <2>5. /\ outcome' \in [Calls -> Outcomes]
        /\ \A d \in Calls : outcome'[d] \in {"done", "cut off"} <=> outcome[d] \in {"done", "cut off"}
        /\ \A d \in Calls : outcome'[d] = "done" <=> outcome[d] = "done"
    BY <2>1 DEF Outcomes
  <2>6. EngineTypeOK'
    BY <2>2, <2>3, <2>4, <2>5 DEF EngineInv, EngineTypeOK
  <2>7. Applied' = Applied
    <3>1. run.phase = "renamed" => Head(queue') = Head(queue)
      BY <2>2 DEF EngineInv, RunFits
    <3>. QED
      BY <2>3, <2>5, <3>1 DEF Applied
  <2>8. RunFits'
    <3>1. run.phase \in {"writing", "renamed"} => Head(queue') = Head(queue)
      BY <2>2 DEF EngineInv, RunFits
    <3>. QED
      BY <2>2, <2>3, <2>7, <3>1 DEF EngineInv, RunFits
  <2>9. OnlyApplied' /\ GrownFromTheFile' /\ DoneIsKeptUnlessOvertaken'
    BY <2>3, <2>5, <2>7
       DEF EngineInv, OnlyApplied, GrownFromTheFile, DoneIsKeptUnlessOvertaken
  <2>. QED
    BY <2>2, <2>6, <2>8, <2>9 DEF EngineInv
<1>3. ASSUME BeginCold
      PROVE  EngineInv'
  <2>1. /\ queue # <<>> /\ run = Idle /\ run' = [phase |-> "loading", data |-> disk]
        /\ disk' = disk /\ queue' = queue /\ cache' = cache /\ reads' = reads
        /\ outcome' = outcome /\ crashes' = crashes /\ overtaken' = overtaken
    BY <1>3 DEF BeginCold
  <2>2. Applied' = Applied
    BY <2>1 DEF Applied, Idle
  <2>3. EngineTypeOK'
    BY <2>1 DEF EngineInv, EngineTypeOK, Phases
  <2>4. RunFits' /\ InLine(queue, outcome)'
    BY <2>1, <2>2 DEF EngineInv, RunFits, InLine
  <2>5. OnlyApplied' /\ GrownFromTheFile'
    BY <2>1, <2>2 DEF EngineInv, OnlyApplied, GrownFromTheFile
  <2>6. DoneIsKeptUnlessOvertaken'
    BY <2>1 DEF EngineInv, DoneIsKeptUnlessOvertaken, Idle
  <2>. QED
    BY <2>3, <2>4, <2>5, <2>6 DEF EngineInv
<1>. QED
  BY <1>1, <1>2, <1>3

\* A read ends: memory is what it opened, older than the file or not.
LEMMA EndReadStep ==
  ASSUME EngineInv, NEW r \in Readers, EndRead(r)
  PROVE  EngineInv'
<1>1. /\ Applied' = Applied
      /\ disk' = disk /\ run' = run /\ queue' = queue /\ outcome' = outcome /\ crashes' = crashes
      /\ reads[r] # NoCopy /\ cache' = reads[r]
      /\ reads' = [reads EXCEPT ![r] = NoCopy]
      /\ overtaken' = (overtaken \/ reads[r] # disk)
  BY DEF EndRead, Applied
<1>2. EngineTypeOK'
  BY <1>1 DEF EngineInv, EngineTypeOK
<1>3. RunFits' /\ InLine(queue, outcome)'
  BY <1>1 DEF EngineInv, RunFits, InLine
<1>4. OnlyApplied'
  BY <1>1 DEF EngineInv, EngineTypeOK, OnlyApplied
<1>5. GrownFromTheFile' /\ DoneIsKeptUnlessOvertaken'
  BY <1>1 DEF EngineInv, GrownFromTheFile, DoneIsKeptUnlessOvertaken
<1>. QED
  BY <1>2, <1>3, <1>4, <1>5 DEF EngineInv

\* The rename puts one call more in the file, and its caller still waits.
LEMMA RenameStep ==
  ASSUME EngineInv, Rename
  PROVE  EngineInv'
<1>. DEFINE first == Head(queue)
<1>1. /\ run.phase = "writing" /\ run \in [phase : Phases, data : SUBSET Calls]
      /\ run' = [run EXCEPT !.phase = "renamed"] /\ disk' = run.data
      /\ cache' = cache /\ queue' = queue /\ reads' = reads
      /\ outcome' = outcome /\ crashes' = crashes /\ overtaken' = overtaken
  BY DEF Rename, EngineInv, EngineTypeOK
<1>2. run'.phase = "renamed" /\ run'.data = run.data /\ run' \in [phase : Phases, data : SUBSET Calls]
  BY <1>1 DEF Phases
<1>3. queue # <<>> /\ first \in Calls /\ run.data \subseteq Applied \cup {first}
  BY <1>1, HeadWaits DEF EngineInv, RunFits
<1>4. Applied' = Applied \cup {first}
  <2>1. Applied = {c \in Calls : outcome[c] \in {"done", "cut off"}}
    BY <1>1 DEF Applied
  <2>2. Applied' = {c \in Calls : outcome[c] \in {"done", "cut off"} \/ c = first}
    BY <1>1, <1>2 DEF Applied
  <2>. HIDE DEF first
  <2>. QED
    BY <1>3, <2>1, <2>2
<1>5. EngineTypeOK'
  BY <1>1, <1>2 DEF EngineInv, EngineTypeOK, Idle
<1>6. RunFits' /\ InLine(queue, outcome)'
  BY <1>1, <1>2, <1>3 DEF EngineInv, RunFits, InLine
<1>. HIDE DEF first
<1>7. OnlyApplied'
  BY <1>1, <1>3, <1>4 DEF EngineInv, OnlyApplied
<1>8. GrownFromTheFile' /\ DoneIsKeptUnlessOvertaken'
  BY <1>1, <1>2 DEF EngineInv, GrownFromTheFile, DoneIsKeptUnlessOvertaken
<1>. QED
  BY <1>5, <1>6, <1>7, <1>8 DEF EngineInv

\* Finishing answers the call that is in the file, and memory follows.
LEMMA FinishStep ==
  ASSUME EngineInv, Finish
  PROVE  EngineInv'
<1>. DEFINE first == Head(queue)
<1>1. /\ run.phase = "renamed" /\ run.data = disk /\ queue # <<>> /\ first \in disk
      /\ disk' = disk /\ reads' = reads /\ crashes' = crashes /\ overtaken' = overtaken
      /\ cache' = disk /\ run' = Idle /\ queue' = Tail(queue)
      /\ outcome' = [outcome EXCEPT ![first] = "done"]
  BY DEF Finish, EngineInv, RunFits
<1>2. /\ InLine(queue, outcome) /\ outcome \in [Calls -> Outcomes]
      /\ disk \in SUBSET Calls /\ disk \subseteq Applied
      /\ first \in Calls /\ outcome[first] = "waiting"
  BY <1>1, HeadWaits DEF EngineInv, EngineTypeOK, OnlyApplied
<1>3. InLine(queue', outcome')
  BY <1>1, <1>2, LineMovesOn, Zenon
<1>4. queue' \in Seq(Calls)
  BY <1>3 DEF InLine
<1>5. Applied = {c \in Calls : outcome[c] \in {"done", "cut off"} \/ c = first}
  BY <1>1 DEF Applied
<1>6. Applied' = {c \in Calls : outcome'[c] \in {"done", "cut off"}}
  BY <1>1 DEF Applied, Idle
<1>. HIDE DEF first
<1>7. outcome' \in [Calls -> Outcomes] /\ Applied' = Applied
  BY <1>1, <1>2, <1>5, <1>6 DEF Outcomes
<1>8. EngineTypeOK'
  BY <1>1, <1>2, <1>4, <1>7 DEF EngineInv, EngineTypeOK, Idle, Phases
<1>9. RunFits' /\ OnlyApplied' /\ GrownFromTheFile'
  BY <1>1, <1>2, <1>7 DEF EngineInv, RunFits, OnlyApplied, GrownFromTheFile, Idle
<1>10. DoneIsKeptUnlessOvertaken'
  BY <1>1 DEF EngineInv, DoneIsKeptUnlessOvertaken
<1>. QED
  BY <1>3, <1>8, <1>9, <1>10 DEF EngineInv

\* The process dies: whoever waited is cut off, and the file is unharmed.
LEMMA CrashStep ==
  ASSUME EngineInv, Crash
  PROVE  EngineInv'
<1>1. /\ disk' = disk /\ overtaken' = overtaken /\ cache' = NoCopy
      /\ queue' = <<>> /\ run' = Idle
      /\ reads' = [r \in Readers |-> NoCopy]
      /\ outcome' = [c \in Calls |-> IF outcome[c] = "waiting" THEN "cut off" ELSE outcome[c]]
  BY DEF Crash
<1>2. crashes' \in 0..MaxCrashes
  <2>1. crashes < MaxCrashes /\ crashes' = crashes + 1 /\ crashes \in 0..MaxCrashes
    BY DEF Crash, EngineInv, EngineTypeOK
  <2>. QED
    BY <2>1, EngineAssumption
<1>3. queue' \in Seq(Calls) /\ (\A i \in 1..Len(queue') : FALSE)
  <2>. DEFINE line == queue'
  <2>1. line = <<>>
    BY <1>1
  <2>. HIDE DEF line
  <2>2. line \in Seq(Calls) /\ (\A i \in 1..Len(line) : FALSE)
    BY <2>1
  <2>. QED
    BY <2>2 DEF line
<1>4. /\ outcome' \in [Calls -> Outcomes]
      /\ \A c \in Calls : outcome'[c] = "done" <=> outcome[c] = "done"
  BY <1>1 DEF EngineInv, EngineTypeOK, Outcomes
<1>5. Applied \subseteq Applied'
  <2>1. \A c \in Applied : outcome[c] \in {"done", "cut off", "waiting"}
    BY HeadWaits DEF Applied, EngineInv, RunFits
  <2>. QED
    BY <1>1, <2>1 DEF Applied
<1>6. EngineTypeOK'
  BY <1>1, <1>2, <1>3, <1>4 DEF EngineInv, EngineTypeOK, Idle, Phases
<1>7. InLine(queue, outcome)'
  BY <1>3, Zenon DEF InLine
<1>8. RunFits' /\ GrownFromTheFile'
  BY <1>1 DEF RunFits, GrownFromTheFile, Idle
<1>9. OnlyApplied'
  BY <1>1, <1>5 DEF EngineInv, OnlyApplied
<1>10. DoneIsKeptUnlessOvertaken'
  BY <1>1, <1>4 DEF EngineInv, DoneIsKeptUnlessOvertaken
<1>. QED
  BY <1>6, <1>7, <1>8, <1>9, <1>10 DEF EngineInv

\* Every step of the engine keeps the invariant.
LEMMA NextEngine == EngineInv /\ [Next]_evars => EngineInv'
<1>. SUFFICES ASSUME EngineInv, [Next]_evars PROVE EngineInv'
  OBVIOUS
<1>1. CASE \E r \in Readers : BeginRead(r) \/ EndRead(r) \/ FailRead(r)
  BY <1>1, QuietStep, EndReadStep
<1>2. CASE \E c \in Calls : Call(c)
  BY <1>2, QuietStep
<1>3. CASE BeginWarm
  <2>1. /\ queue # <<>> /\ run = Idle /\ cache # NoCopy /\ Work(cache)
        /\ cache' = cache /\ reads' = reads /\ overtaken' = overtaken
    BY <1>3 DEF BeginWarm
  <2>2. run.phase = "idle"
    BY <2>1 DEF Idle
  <2>3. CASE Refuse
    BY <2>1, <2>2, <2>3, RefuseStep
  <2>4. CASE /\ run' = [phase |-> "writing", data |-> cache \cup {Head(queue)}]
             /\ UNCHANGED <<disk, queue, outcome, crashes>>
    <3>1. /\ cache \in SUBSET Calls /\ cache \subseteq Applied
          /\ ~overtaken => cache = disk
      BY <2>1, <2>2 DEF EngineInv, EngineTypeOK, OnlyApplied, DoneIsKeptUnlessOvertaken
    <3>. QED
      BY <2>1, <2>2, <2>4, <3>1, DraftStep
  <2>. QED
    BY <2>1, <2>3, <2>4 DEF Work
<1>4. CASE BeginCold
  BY <1>4, QuietStep
<1>5. CASE Load
  <2>1. /\ run.phase = "loading" /\ Work(run.data) /\ cache' = run.data
        /\ reads' = reads /\ overtaken' = overtaken
    BY <1>5 DEF Load
  <2>2. queue # <<>> /\ run.data = disk
    BY <2>1 DEF EngineInv, RunFits
  <2>3. CASE Refuse
    BY <2>1, <2>2, <2>3, RefuseStep
  <2>4. CASE /\ run' = [phase |-> "writing", data |-> run.data \cup {Head(queue)}]
             /\ UNCHANGED <<disk, queue, outcome, crashes>>
    <3>1. disk \in SUBSET Calls /\ disk \subseteq Applied
      BY DEF EngineInv, EngineTypeOK, OnlyApplied
    <3>. QED
      BY <2>1, <2>2, <2>4, <3>1, DraftStep
  <2>. QED
    BY <2>1, <2>3, <2>4 DEF Work
<1>6. CASE FailLoad \/ FailWrite
  <2>1. /\ Refuse /\ run.phase \in {"loading", "writing"}
        /\ cache' = cache /\ reads' = reads /\ overtaken' = overtaken
    BY <1>6 DEF FailLoad, FailWrite
  <2>2. queue # <<>>
    BY <2>1 DEF EngineInv, RunFits
  <2>. QED
    BY <2>1, <2>2, RefuseStep
<1>7. CASE Rename
  BY <1>7, RenameStep
<1>8. CASE Finish
  BY <1>8, FinishStep
<1>9. CASE Crash
  BY <1>9, CrashStep
<1>10. CASE UNCHANGED evars
  <2>1. Applied' = Applied
    BY <1>10 DEF evars, Applied
  <2>2. InLine(queue, outcome)' /\ EngineTypeOK' /\ RunFits' /\ OnlyApplied'
    BY <1>10, <2>1 DEF evars, EngineInv, InLine, EngineTypeOK, RunFits, OnlyApplied
  <2>3. GrownFromTheFile' /\ DoneIsKeptUnlessOvertaken'
    BY <1>10 DEF evars, EngineInv, GrownFromTheFile, DoneIsKeptUnlessOvertaken
  <2>. QED
    BY <2>2, <2>3 DEF EngineInv
<1>. QED
  BY <1>1, <1>2, <1>3, <1>4, <1>5, <1>6, <1>7, <1>8, <1>9, <1>10 DEF Next, TransactionStep

-----------------------------------------------------------------------------
(* The theorems.                                                           *)

\* The strengthened invariant holds in every state of every behaviour.
LEMMA EngineInvariant == Spec => []EngineInv
BY InitEngine, NextEngine, PTL DEF Spec

\* Every variable of the engine has its type, and a transaction runs only at
\* the head of the chain.
THEOREM EngineTypes == Spec => []EngineTypeOK
<1>1. EngineInv => EngineTypeOK
  BY DEF EngineInv
<1>. QED
  BY <1>1, EngineInvariant, PTL

\* A call that store.ts refused, by a rule or because the file system failed,
\* is not in the file, not in memory, not in the running transaction and not in
\* what any reader opened, whatever was interleaved and however often the
\* process died.
THEOREM RefusalsLeaveNoTrace == Spec => []RefusedLeavesNoTrace
<1>1. EngineInv => RefusedLeavesNoTrace
  <2>. SUFFICES ASSUME EngineInv, NEW c \in Calls, outcome[c] = "refused"
                PROVE  /\ c \notin disk
                       /\ cache # NoCopy => c \notin cache
                       /\ c \notin run.data
                       /\ \A r \in Readers : reads[r] # NoCopy => c \notin reads[r]
    BY DEF RefusedLeavesNoTrace
  <2>1. queue # <<>> => c # Head(queue)
    BY HeadWaits
  <2>2. c \notin Applied
    BY <2>1 DEF Applied, EngineInv, RunFits
  <2>3. c \notin disk /\ (cache # NoCopy => c \notin cache)
        /\ \A r \in Readers : reads[r] # NoCopy => c \notin reads[r]
    BY <2>2 DEF EngineInv, OnlyApplied
  <2>4. c \notin run.data
    <3>1. run.phase \in Phases
      BY DEF EngineInv, EngineTypeOK
    <3>2. CASE run.phase = "idle"
      BY <3>2 DEF EngineInv, RunFits, Idle
    <3>3. CASE run.phase \in {"loading", "renamed"}
      BY <2>3, <3>3 DEF EngineInv, RunFits
    <3>4. CASE run.phase = "writing"
      BY <2>1, <2>2, <3>4 DEF EngineInv, RunFits
    <3>. QED
      BY <3>1, <3>2, <3>3, <3>4 DEF Phases
  <2>. QED
    BY <2>3, <2>4
<1>. QED
  BY <1>1, EngineInvariant, PTL

\* As long as no cold read put an older copy in memory, what a caller was told
\* is done is in the file, for any number of crashes.
THEOREM DoneIsDurable == Spec => []DoneIsKeptUnlessOvertaken
<1>1. EngineInv => DoneIsKeptUnlessOvertaken
  BY DEF EngineInv
<1>. QED
  BY <1>1, EngineInvariant, PTL

\* store.ts, transaction: a call is refused at its own turn only, whatever
\* became of the calls before it; the process's death cuts the others off.
THEOREM RefusedInTurn == Spec => [][RefusedAtItsTurn]_evars
<1>1. EngineInv /\ [Next]_evars => [RefusedAtItsTurn]_evars
  <2>. SUFFICES ASSUME EngineInv, Next, NEW c \in Calls,
                       outcome[c] = "waiting", outcome'[c] = "refused"
                PROVE  c = Head(queue)
    BY Zenon DEF RefusedAtItsTurn
  <2>1. outcome \in [Calls -> Outcomes]
    BY DEF EngineInv, EngineTypeOK
  <2>2. ASSUME Refuse PROVE c = Head(queue)
    BY <2>1, <2>2 DEF Refuse
  <2>3. CASE \E r \in Readers : BeginRead(r) \/ EndRead(r) \/ FailRead(r)
    BY <2>3 DEF BeginRead, EndRead, FailRead
  <2>4. CASE \E d \in Calls : Call(d)
    BY <2>1, <2>4 DEF Call
  <2>5. CASE TransactionStep
    <3>1. ASSUME NEW database, Work(database) PROVE c = Head(queue)
      BY <2>2, <3>1 DEF Work
    <3>2. CASE BeginWarm \/ Load
      BY <3>1, <3>2 DEF BeginWarm, Load
    <3>3. CASE FailLoad \/ FailWrite
      BY <2>2, <3>3 DEF FailLoad, FailWrite
    <3>4. CASE BeginCold \/ Rename
      BY <3>4 DEF BeginCold, Rename
    <3>5. CASE Finish
      BY <2>1, <3>5 DEF Finish
    <3>. QED
      BY <2>5, <3>2, <3>3, <3>4, <3>5 DEF TransactionStep
  <2>6. CASE Crash
    BY <2>6 DEF Crash
  <2>. QED
    BY <2>3, <2>4, <2>5, <2>6 DEF Next
<1>. QED
  BY <1>1, EngineInvariant, PTL DEF Spec
=============================================================================
