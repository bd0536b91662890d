------------------------- MODULE AtomicWrite_proofs -------------------------
(***************************************************************************)
(* Proofs about the replacement of a private file, for all contents and    *)
(* any number of writes and of generations left behind.                    *)
(***************************************************************************)
EXTENDS AtomicWrite, TLAPS

id == writer.id
step == writer.step

\* No file bears a transaction id that was not used yet.
Fresh == \A i \in Ids : i >= nextId =>
            tmp[i] = Missing /\ ready[i] = Missing /\ prev[i] = Missing

\* How far the write in progress has come shows in its files.
Progress ==
    writer # NoWrite =>
       /\ phase = "up" /\ id = nextId - 1 /\ writer.content = written
       /\ ready[id] \in {Missing, written}
       /\ step = "rename" => tmp[id] = written
       /\ step \in {"create", "fill", "rename"} => ready[id] = Missing
       /\ step \in {"create", "fill", "rename", "move"} => prev[id] = Missing
       /\ step \in {"move", "publish", "unlinkReady"} => ready[id] = written
       /\ step \in {"unlinkReady", "unlinkPrevious", "return"} => target = written
       /\ step \in {"move", "publish", "unlinkReady", "unlinkPrevious", "return"} =>
             tmp[id] = Missing
       /\ step \in {"unlinkPrevious", "return"} => ready[id] = Missing
       /\ step = "return" => prev[id] = Missing

Nothing == target = Missing /\ \A i \in Ids : ready[i] = Missing /\ prev[i] = Missing
Kept == Nothing => Missing \in stable

\* Until a clean-up leaves a generation behind, only the last transaction has
\* files, and they hold what could be read when it began, or what it brings.
LastOnly == \A i \in Ids : i # nextId - 1 =>
               tmp[i] = Missing /\ ready[i] = Missing /\ prev[i] = Missing
NoGenerations == \A i \in Ids : ready[i] = Missing /\ prev[i] = Missing
NoFiles == \A i \in Ids : tmp[i] = Missing /\ ready[i] = Missing /\ prev[i] = Missing
Cleaned == phase = "up" /\ writer = NoWrite => NoFiles
Reconciled == phase = "reconciling" => target # Missing \/ NoGenerations
OneOld == \E old \in File : stable = {old}
OldAndNew ==
    writer # NoWrite =>
       /\ prev[id] \in stable \cup {Missing}
       /\ target \in stable \cup {written, Missing}
       /\ step \in {"create", "fill", "rename", "move"} => target \in stable
       /\ step = "clean" => target # Missing \/ NoGenerations
       /\ target = Missing /\ NoGenerations => Missing \in stable
Alone == leftovers = 0 => LastOnly /\ Cleaned /\ Reconciled /\ OneOld /\ OldAndNew

Inv == TypeOK /\ WholeGenerations /\ Fresh /\ Progress /\ Kept /\ Alone

\* What Present and Recoverable say, without their sets of ids.
LEMMA NothingIsMissing == TypeOK => (Missing \in Recoverable <=> Nothing)
<1> SUFFICES ASSUME TypeOK PROVE Missing \in Recoverable <=> Nothing
  OBVIOUS
<1> USE DEF TypeOK, Recoverable, Present, Nothing
<1>1. CASE target # Missing
  BY <1>1
<1>2. CASE target = Missing /\ Present(ready) # {}
  BY <1>2
<1>3. CASE target = Missing /\ Present(ready) = {} /\ Present(prev) # {}
  BY <1>3
<1>4. CASE target = Missing /\ Present(ready) = {} /\ Present(prev) = {}
  BY <1>4
<1> QED BY <1>1, <1>2, <1>3, <1>4

LEMMA RecoverableType == TypeOK => Recoverable \subseteq File \cup {Partial}
BY DEF TypeOK, Recoverable, Present, File

LEMMA SourcesAreWhole ==
    ASSUME TypeOK, WholeGenerations
    PROVE  StartupSources \subseteq Contents
BY DEF TypeOK, WholeGenerations, StartupSources, Present, File

LEMMA RepairSourcesAreWhole ==
    ASSUME TypeOK, WholeGenerations, writer # NoWrite
    PROVE  RepairSources(writer.id) \subseteq Contents
BY DEF TypeOK, WholeGenerations, RepairSources, File, Write

\* What a clean-up does to types, generations and the count.
LEMMA CleanUpEffect ==
    ASSUME TypeOK, NEW S \in SUBSET Ids, CleanUp(S)
    PROVE  /\ tmp' \in [Ids -> File \cup {Partial}]
           /\ ready' \in [Ids -> File \cup {Partial}]
           /\ prev' \in [Ids -> File]
           /\ leftovers' \in 0..MaxLeftovers /\ leftovers' >= leftovers
           /\ \A i \in Ids : /\ tmp'[i] \in {tmp[i], Missing}
                             /\ ready'[i] \in {ready[i], Missing}
                             /\ prev'[i] \in {prev[i], Missing}
           /\ target = Missing => ready' = ready /\ prev' = prev
           /\ leftovers' = leftovers =>
                 /\ \A i \in S : tmp'[i] = Missing
                 /\ target # Missing => \A i \in S : ready'[i] = Missing /\ prev'[i] = Missing
<1> DEFINE all == IF ClearsGenerations THEN S ELSE {}
<1>1. PICK T \in SUBSET S, R \in SUBSET all, P \in SUBSET all :
        /\ tmp' = Removed(tmp, T) /\ ready' = Removed(ready, R) /\ prev' = Removed(prev, P)
        /\ leftovers' = IF <<T, R, P>> = <<S, all, all>> THEN leftovers ELSE leftovers + 1
        /\ leftovers' <= MaxLeftovers
  BY DEF CleanUp
<1>2. /\ tmp' = [i \in Ids |-> IF i \in T THEN Missing ELSE tmp[i]]
      /\ ready' = [i \in Ids |-> IF i \in R THEN Missing ELSE ready[i]]
      /\ prev' = [i \in Ids |-> IF i \in P THEN Missing ELSE prev[i]]
  BY <1>1 DEF Removed
<1>3. /\ tmp' \in [Ids -> File \cup {Partial}]
      /\ ready' \in [Ids -> File \cup {Partial}]
      /\ prev' \in [Ids -> File]
      /\ \A i \in Ids : /\ tmp'[i] \in {tmp[i], Missing}
                        /\ ready'[i] \in {ready[i], Missing}
                        /\ prev'[i] \in {prev[i], Missing}
  BY <1>2 DEF TypeOK, File
<1>4. leftovers' \in 0..MaxLeftovers /\ leftovers' >= leftovers
  <2>1. leftovers \in Nat /\ MaxLeftovers \in Nat
    BY BoundsAssumption DEF TypeOK
  <2>2. leftovers' \in {leftovers, leftovers + 1} /\ leftovers' <= MaxLeftovers
    BY <1>1
  <2> QED BY <2>1, <2>2
<1>5. target = Missing => ready' = ready /\ prev' = prev
  <2> SUFFICES ASSUME target = Missing PROVE ready' = ready /\ prev' = prev
    OBVIOUS
  <2>1. R = {} /\ P = {}
    BY <1>1 DEF ClearsGenerations
  <2> QED BY <1>2, <2>1 DEF TypeOK
<1>6. ASSUME leftovers' = leftovers
      PROVE  /\ \A i \in S : tmp'[i] = Missing
             /\ target # Missing => \A i \in S : ready'[i] = Missing /\ prev'[i] = Missing
  <2>1. leftovers # leftovers + 1
    BY DEF TypeOK
  <2>2. T = S /\ R = all /\ P = all
    BY <1>1, <1>6, <2>1
  <2>3. \A i \in S : tmp'[i] = Missing
    BY <1>2, <2>2
  <2>4. ASSUME target # Missing, NEW i \in S PROVE ready'[i] = Missing /\ prev'[i] = Missing
    <3>1. all = S
      BY <2>4 DEF ClearsGenerations
    <3> QED BY <1>2, <2>2, <3>1
  <2> QED BY <2>3, <2>4
<1> QED BY <1>3, <1>4, <1>5, <1>6
LEMMA GoWrites ==
    ASSUME TypeOK, writer # NoWrite, NEW s \in Steps, Go(s)
    PROVE  writer' \in Write /\ writer' # NoWrite
<1>1. writer \in Write
  BY DEF TypeOK
<1>2. writer' \in Write
  BY <1>1 DEF Go, Write
<1> QED BY <1>2, NoWriteAssumption
-----------------------------------------------------------------------------
(* Initial state and steps.                                                *)

LEMMA InvInit == Init => Inv
<1> SUFFICES ASSUME Init PROVE Inv
  OBVIOUS
<1> USE BoundsAssumption, NullsAssumption DEF Init
<1>1. TypeOK
  <2>1. MaxWrites \in Nat /\ MaxLeftovers \in Nat
    OBVIOUS
  <2>2. 1 \in 1..(MaxWrites + 1) /\ 0 \in 0..MaxLeftovers
    BY <2>1
  <2> QED BY <2>2 DEF TypeOK, File
<1>2. WholeGenerations /\ Fresh /\ Progress /\ Kept /\ Alone
  BY DEF WholeGenerations, Fresh, Progress, Kept, Nothing, Alone, LastOnly, Cleaned, NoFiles, Reconciled, OneOld, OldAndNew, NoGenerations, File, Ids
<1> QED BY <1>1, <1>2 DEF Inv

LEMMA BeginKeeps ==
    ASSUME Inv, NEW content \in Contents, Begin(content)
    PROVE  Inv'
<1> USE NullsAssumption DEF Inv, Begin, At, Go, id, step
<1>1. TypeOK'
  BY BoundsAssumption, RecoverableType DEF TypeOK, WholeGenerations, Progress, Write, Steps, File, Ids, generations, past
<1>2. WholeGenerations'
  BY DEF TypeOK, WholeGenerations, Progress, Write, File, Ids, generations, past
<1>3. Fresh'
  BY DEF TypeOK, Fresh, Progress, Write, Ids, generations, past
<1>4. Progress'
  BY DEF TypeOK, Fresh, Progress, Write, Steps, File, Ids, generations, past
<1>5. Kept'
  BY NothingIsMissing DEF TypeOK, Progress, Kept, Nothing, Write, File, Ids, generations, past
<1>6. ASSUME leftovers' = 0
      PROVE  LastOnly' /\ Cleaned' /\ Reconciled' /\ OneOld' /\ OldAndNew'
  <2>1. LastOnly /\ Cleaned /\ Reconciled /\ OneOld /\ OldAndNew
    BY <1>6 DEF Alone, generations, past
  <2>2. NoFiles /\ NoFiles'
    BY <2>1 DEF Cleaned, NoFiles, generations
  <2>3. LastOnly'
    BY <2>2 DEF LastOnly, NoFiles
  <2>4. Cleaned' /\ Reconciled'
    BY <1>1, NoWriteAssumption DEF Cleaned, Reconciled, TypeOK, generations, Write, Ids, Steps
  <2>5. OneOld' /\ (target \in stable)'
    <3>1. Present(ready) = {} /\ Present(prev) = {}
      BY <2>2 DEF NoFiles, Present
    <3>2. stable' = {target}
      BY <3>1 DEF Recoverable
    <3>3. target \in File /\ target' = target
      BY DEF TypeOK
    <3> QED BY <2>2, <3>2, <3>3 DEF OneOld, NoGenerations, NoFiles
  <2>6. OldAndNew'
    <3>1. writer'.step = "create" /\ prev'[writer'.id] = Missing
      BY <2>2 DEF TypeOK, NoFiles, Ids, generations
    <3> QED BY <2>5, <3>1 DEF OldAndNew
  <2> QED BY <2>3, <2>4, <2>5, <2>6
<1> QED BY <1>1, <1>2, <1>3, <1>4, <1>5, <1>6 DEF Alone

LEMMA CreateTemporaryKeeps ==
    ASSUME Inv, CreateTemporary
    PROVE  Inv'
<1> USE NullsAssumption DEF Inv, CreateTemporary, At, Go, id, step
<1>1. TypeOK'
  BY BoundsAssumption, RecoverableType DEF TypeOK, WholeGenerations, Progress, Write, Steps, File, Ids, generations, past
<1>2. WholeGenerations'
  BY DEF TypeOK, WholeGenerations, Progress, File, generations
<1>3. Fresh'
  BY DEF TypeOK, Fresh, Progress, Write, Ids, generations, past
<1>4. Progress'
  BY DEF TypeOK, Fresh, Progress, Write, Steps, File, Ids, generations, past
<1>5. Kept'
  BY NothingIsMissing DEF TypeOK, Progress, Kept, Nothing, Write, File, Ids, generations, past
<1>6. ASSUME leftovers' = 0
      PROVE  LastOnly' /\ Cleaned' /\ Reconciled' /\ OneOld' /\ OldAndNew'
  <2>1. LastOnly /\ Cleaned /\ Reconciled /\ OneOld /\ OldAndNew
    BY <1>6 DEF Alone, generations, past
  <2>2. LastOnly'
    BY <2>1 DEF TypeOK, Progress, LastOnly, generations, past
  <2>3. Cleaned'
    BY GoWrites DEF Cleaned, Steps
  <2>4. Reconciled' /\ OneOld'
    BY <2>1 DEF TypeOK, Progress, Reconciled, OneOld, NoGenerations, Ids, generations, past
  <2>5. OldAndNew'
    BY <2>1 DEF TypeOK, Fresh, Progress, LastOnly, OldAndNew, NoGenerations, Write, Steps, File, Ids, generations, past
  <2> QED BY <2>2, <2>3, <2>4, <2>5
<1> QED BY <1>1, <1>2, <1>3, <1>4, <1>5, <1>6 DEF Alone

LEMMA FillTemporaryKeeps ==
    ASSUME Inv, FillTemporary
    PROVE  Inv'
<1> USE NullsAssumption DEF Inv, FillTemporary, At, Go, id, step
<1>1. TypeOK'
  BY BoundsAssumption, RecoverableType DEF TypeOK, WholeGenerations, Progress, Write, Steps, File, Ids, generations, past
<1>2. WholeGenerations'
  BY DEF TypeOK, WholeGenerations, Progress, File, generations
<1>3. Fresh'
  BY DEF TypeOK, Fresh, Progress, Write, Ids, generations, past
<1>4. Progress'
  BY DEF TypeOK, Fresh, Progress, Write, Steps, File, Ids, generations, past
<1>5. Kept'
  BY NothingIsMissing DEF TypeOK, Progress, Kept, Nothing, Write, File, Ids, generations, past
<1>6. ASSUME leftovers' = 0
      PROVE  LastOnly' /\ Cleaned' /\ Reconciled' /\ OneOld' /\ OldAndNew'
  <2>1. LastOnly /\ Cleaned /\ Reconciled /\ OneOld /\ OldAndNew
    BY <1>6 DEF Alone, generations, past
  <2>2. LastOnly'
    BY <2>1 DEF TypeOK, Progress, LastOnly, generations, past
  <2>3. Cleaned'
    BY GoWrites DEF Cleaned, Steps
  <2>4. Reconciled' /\ OneOld'
    BY <2>1 DEF TypeOK, Progress, Reconciled, OneOld, NoGenerations, Ids, generations, past
  <2>5. OldAndNew'
    BY <2>1 DEF TypeOK, Fresh, Progress, LastOnly, OldAndNew, NoGenerations, Write, Steps, File, Ids, generations, past
  <2> QED BY <2>2, <2>3, <2>4, <2>5
<1> QED BY <1>1, <1>2, <1>3, <1>4, <1>5, <1>6 DEF Alone

LEMMA RenameToReadyKeeps ==
    ASSUME Inv, RenameToReady
    PROVE  Inv'
<1> USE NullsAssumption DEF Inv, RenameToReady, RenameStep, At, Go, id, step
<1>1. TypeOK'
  BY BoundsAssumption, RecoverableType DEF TypeOK, WholeGenerations, Progress, Write, Steps, File, Ids, generations, past
<1>2. WholeGenerations'
  BY DEF TypeOK, WholeGenerations, Progress, File, generations
<1>3. Fresh'
  BY DEF TypeOK, Fresh, Progress, Write, Ids, generations, past
<1>4. Progress'
  BY DEF TypeOK, Fresh, Progress, Write, Steps, File, Ids, generations, past
<1>5. Kept'
  BY NothingIsMissing DEF TypeOK, Progress, Kept, Nothing, Write, File, Ids, generations, past
<1>6. ASSUME leftovers' = 0
      PROVE  LastOnly' /\ Cleaned' /\ Reconciled' /\ OneOld' /\ OldAndNew'
  <2>1. LastOnly /\ Cleaned /\ Reconciled /\ OneOld /\ OldAndNew
    BY <1>6 DEF Alone, generations, past
  <2>2. LastOnly'
    BY <2>1 DEF TypeOK, Progress, LastOnly, generations, past
  <2>3. Cleaned'
    BY GoWrites DEF Cleaned, Steps
  <2>4. Reconciled' /\ OneOld'
    BY <2>1 DEF TypeOK, Progress, Reconciled, OneOld, NoGenerations, Ids, generations, past
  <2>5. OldAndNew'
    BY <2>1 DEF TypeOK, Fresh, Progress, LastOnly, OldAndNew, NoGenerations, Write, Steps, File, Ids, generations, past
  <2> QED BY <2>2, <2>3, <2>4, <2>5
<1> QED BY <1>1, <1>2, <1>3, <1>4, <1>5, <1>6 DEF Alone

LEMMA MoveTargetAsideKeeps ==
    ASSUME Inv, MoveTargetAside
    PROVE  Inv'
<1> USE NullsAssumption DEF Inv, MoveTargetAside, At, Go, id, step
<1>1. TypeOK'
  BY BoundsAssumption, RecoverableType DEF TypeOK, WholeGenerations, Progress, Write, Steps, File, Ids, generations, past
<1>2. WholeGenerations'
  BY DEF TypeOK, WholeGenerations, Progress, File, generations
<1>3. Fresh'
  BY DEF TypeOK, Fresh, Progress, Write, Ids, generations, past
<1>4. Progress'
  BY DEF TypeOK, Fresh, Progress, Write, Steps, File, Ids, generations, past
<1>5. Kept'
  BY NothingIsMissing DEF TypeOK, Progress, Kept, Nothing, Write, File, Ids, generations, past
<1>6. ASSUME leftovers' = 0
      PROVE  LastOnly' /\ Cleaned' /\ Reconciled' /\ OneOld' /\ OldAndNew'
  <2>1. LastOnly /\ Cleaned /\ Reconciled /\ OneOld /\ OldAndNew
    BY <1>6 DEF Alone, generations, past
  <2>2. LastOnly'
    BY <2>1 DEF TypeOK, Progress, LastOnly, generations, past
  <2>3. Cleaned'
    BY GoWrites DEF Cleaned, Steps
  <2>4. Reconciled' /\ OneOld'
    BY <2>1 DEF TypeOK, Progress, Reconciled, OneOld, NoGenerations, Ids, generations, past
  <2>5. OldAndNew'
    BY <2>1 DEF TypeOK, Fresh, Progress, LastOnly, OldAndNew, NoGenerations, Write, Steps, File, Ids, generations, past
  <2> QED BY <2>2, <2>3, <2>4, <2>5
<1> QED BY <1>1, <1>2, <1>3, <1>4, <1>5, <1>6 DEF Alone

LEMMA PublishTargetKeeps ==
    ASSUME Inv, PublishTarget
    PROVE  Inv'
<1> USE NullsAssumption DEF Inv, PublishTarget, At, Go, id, step
<1>1. TypeOK'
  BY BoundsAssumption, RecoverableType DEF TypeOK, WholeGenerations, Progress, Write, Steps, File, Ids, generations, past
<1>2. WholeGenerations'
  BY DEF TypeOK, WholeGenerations, Progress, File, generations
<1>3. Fresh'
  BY DEF TypeOK, Fresh, Progress, Write, Ids, generations, past
<1>4. Progress'
  BY DEF TypeOK, Fresh, Progress, Write, Steps, File, Ids, generations, past
<1>5. Kept'
  BY NothingIsMissing DEF TypeOK, Progress, Kept, Nothing, Write, File, Ids, generations, past
<1>6. ASSUME leftovers' = 0
      PROVE  LastOnly' /\ Cleaned' /\ Reconciled' /\ OneOld' /\ OldAndNew'
  <2>1. LastOnly /\ Cleaned /\ Reconciled /\ OneOld /\ OldAndNew
    BY <1>6 DEF Alone, generations, past
  <2>2. LastOnly'
    BY <2>1 DEF TypeOK, Progress, LastOnly, generations, past
  <2>3. Cleaned'
    BY GoWrites DEF Cleaned, Steps
  <2>4. Reconciled' /\ OneOld'
    BY <2>1 DEF TypeOK, Progress, Reconciled, OneOld, NoGenerations, Ids, generations, past
  <2>5. OldAndNew'
    BY <2>1 DEF TypeOK, Fresh, Progress, LastOnly, OldAndNew, NoGenerations, Write, Steps, File, Ids, generations, past
  <2> QED BY <2>2, <2>3, <2>4, <2>5
<1> QED BY <1>1, <1>2, <1>3, <1>4, <1>5, <1>6 DEF Alone

LEMMA RemoveReadyKeeps ==
    ASSUME Inv, RemoveReady
    PROVE  Inv'
<1> USE NullsAssumption DEF Inv, RemoveReady, At, Go, id, step
<1>1. TypeOK'
  BY BoundsAssumption, RecoverableType DEF TypeOK, WholeGenerations, Progress, Write, Steps, File, Ids, generations, past
<1>2. WholeGenerations'
  BY DEF TypeOK, WholeGenerations, Progress, File, generations
<1>3. Fresh'
  BY DEF TypeOK, Fresh, Progress, Write, Ids, generations, past
<1>4. Progress'
  BY DEF TypeOK, Fresh, Progress, Write, Steps, File, Ids, generations, past
<1>5. Kept'
  BY NothingIsMissing DEF TypeOK, Progress, Kept, Nothing, Write, File, Ids, generations, past
<1>6. ASSUME leftovers' = 0
      PROVE  LastOnly' /\ Cleaned' /\ Reconciled' /\ OneOld' /\ OldAndNew'
  <2>1. LastOnly /\ Cleaned /\ Reconciled /\ OneOld /\ OldAndNew
    BY <1>6 DEF Alone, generations, past
  <2>2. LastOnly'
    BY <2>1 DEF TypeOK, Progress, LastOnly, generations, past
  <2>3. Cleaned'
    BY GoWrites DEF Cleaned, Steps
  <2>4. Reconciled' /\ OneOld'
    BY <2>1 DEF TypeOK, Progress, Reconciled, OneOld, NoGenerations, Ids, generations, past
  <2>5. OldAndNew'
    BY <2>1 DEF TypeOK, Fresh, Progress, LastOnly, OldAndNew, NoGenerations, Write, Steps, File, Ids, generations, past
  <2> QED BY <2>2, <2>3, <2>4, <2>5
<1> QED BY <1>1, <1>2, <1>3, <1>4, <1>5, <1>6 DEF Alone

LEMMA RemovePreviousKeeps ==
    ASSUME Inv, RemovePrevious
    PROVE  Inv'
<1> USE NullsAssumption DEF Inv, RemovePrevious, At, Go, id, step
<1>1. TypeOK'
  BY BoundsAssumption, RecoverableType DEF TypeOK, WholeGenerations, Progress, Write, Steps, File, Ids, generations, past
<1>2. WholeGenerations'
  BY DEF TypeOK, WholeGenerations, Progress, File, generations
<1>3. Fresh'
  BY DEF TypeOK, Fresh, Progress, Write, Ids, generations, past
<1>4. Progress'
  BY DEF TypeOK, Fresh, Progress, Write, Steps, File, Ids, generations, past
<1>5. Kept'
  BY NothingIsMissing DEF TypeOK, Progress, Kept, Nothing, Write, File, Ids, generations, past
<1>6. ASSUME leftovers' = 0
      PROVE  LastOnly' /\ Cleaned' /\ Reconciled' /\ OneOld' /\ OldAndNew'
  <2>1. LastOnly /\ Cleaned /\ Reconciled /\ OneOld /\ OldAndNew
    BY <1>6 DEF Alone, generations, past
  <2>2. LastOnly'
    BY <2>1 DEF TypeOK, Progress, LastOnly, generations, past
  <2>3. Cleaned'
    BY GoWrites DEF Cleaned, Steps
  <2>4. Reconciled' /\ OneOld'
    BY <2>1 DEF TypeOK, Progress, Reconciled, OneOld, NoGenerations, Ids, generations, past
  <2>5. OldAndNew'
    BY <2>1 DEF TypeOK, Fresh, Progress, LastOnly, OldAndNew, NoGenerations, Write, Steps, File, Ids, generations, past
  <2> QED BY <2>2, <2>3, <2>4, <2>5
<1> QED BY <1>1, <1>2, <1>3, <1>4, <1>5, <1>6 DEF Alone

LEMMA ReturnKeeps ==
    ASSUME Inv, Return
    PROVE  Inv'
<1> USE NullsAssumption DEF Inv, Return, At, Go, id, step
<1>1. TypeOK'
  BY BoundsAssumption, RecoverableType DEF TypeOK, WholeGenerations, Progress, Write, Steps, File, Ids, generations, past
<1>2. WholeGenerations'
  BY DEF TypeOK, WholeGenerations, Progress, Write, File, Ids, generations, past
<1>3. Fresh'
  BY DEF TypeOK, Fresh, Progress, Write, Ids, generations, past
<1>4. Progress'
  BY DEF TypeOK, Fresh, Progress, Write, Steps, File, Ids, generations, past
<1>5. Kept'
  BY NothingIsMissing DEF TypeOK, Progress, Kept, Nothing, Write, File, Ids, generations, past
<1>6. ASSUME leftovers' = 0
      PROVE  LastOnly' /\ Cleaned' /\ Reconciled' /\ OneOld' /\ OldAndNew'
  <2>1. LastOnly /\ Cleaned /\ Reconciled /\ OneOld /\ OldAndNew
    BY <1>6 DEF Alone, generations, past
  <2>2. LastOnly'
    BY <2>1 DEF TypeOK, Progress, LastOnly, generations, past
  <2>3. Cleaned'
    BY <1>1, <2>1, NoWriteAssumption DEF TypeOK, Progress, LastOnly, Cleaned, NoFiles, Write, Ids, generations, past
  <2>4. Reconciled' /\ OneOld'
    BY <2>1 DEF TypeOK, Progress, Reconciled, OneOld, NoGenerations, Ids, generations, past
  <2>5. OldAndNew'
    BY <2>1 DEF TypeOK, Fresh, Progress, LastOnly, OldAndNew, NoGenerations, Write, Steps, File, Ids, generations, past
  <2> QED BY <2>2, <2>3, <2>4, <2>5
<1> QED BY <1>1, <1>2, <1>3, <1>4, <1>5, <1>6 DEF Alone

LEMMA StepFailsKeeps ==
    ASSUME Inv, StepFails
    PROVE  Inv'
<1> USE NullsAssumption DEF Inv, StepFails, At, Go, id, step
<1>1. TypeOK'
  BY BoundsAssumption, RecoverableType DEF TypeOK, WholeGenerations, Progress, Write, Steps, File, Ids, generations, past
<1>2. WholeGenerations'
  BY DEF TypeOK, WholeGenerations, Progress, File, generations
<1>3. Fresh'
  BY DEF TypeOK, Fresh, Progress, Write, Ids, generations, past
<1>4. Progress'
  BY DEF TypeOK, Fresh, Progress, Write, Steps, File, Ids, generations, past
<1>5. Kept'
  BY NothingIsMissing DEF TypeOK, Progress, Kept, Nothing, Write, File, Ids, generations, past
<1>6. ASSUME leftovers' = 0
      PROVE  LastOnly' /\ Cleaned' /\ Reconciled' /\ OneOld' /\ OldAndNew'
  <2>1. LastOnly /\ Cleaned /\ Reconciled /\ OneOld /\ OldAndNew
    BY <1>6 DEF Alone, generations, past
  <2>2. LastOnly'
    BY <2>1 DEF TypeOK, Progress, LastOnly, generations, past
  <2>3. Cleaned'
    BY GoWrites DEF Cleaned, Steps
  <2>4. Reconciled' /\ OneOld'
    BY <2>1 DEF TypeOK, Progress, Reconciled, OneOld, NoGenerations, Ids, generations, past
  <2>5. OldAndNew'
    BY <2>1 DEF TypeOK, Fresh, Progress, LastOnly, OldAndNew, NoGenerations, Write, Steps, File, Ids, generations, past
  <2> QED BY <2>2, <2>3, <2>4, <2>5
<1> QED BY <1>1, <1>2, <1>3, <1>4, <1>5, <1>6 DEF Alone

LEMMA StopKeeps ==
    ASSUME Inv, Stop
    PROVE  Inv'
<1> USE NullsAssumption DEF Inv, Stop, At, Go, id, step
<1>1. TypeOK'
  BY BoundsAssumption, RecoverableType DEF TypeOK, WholeGenerations, Progress, Write, Steps, File, Ids, generations, past
<1>2. WholeGenerations'
  BY DEF TypeOK, WholeGenerations, Progress, Write, File, Ids, generations, past
<1>3. Fresh'
  BY DEF TypeOK, Fresh, Progress, Write, Ids, generations, past
<1>4. Progress'
  BY DEF TypeOK, Fresh, Progress, Write, Steps, File, Ids, generations, past
<1>5. Kept'
  BY NothingIsMissing DEF TypeOK, Progress, Kept, Nothing, Write, File, Ids, generations, past
<1>6. ASSUME leftovers' = 0
      PROVE  LastOnly' /\ Cleaned' /\ Reconciled' /\ OneOld' /\ OldAndNew'
  <2>1. LastOnly /\ Cleaned /\ Reconciled /\ OneOld /\ OldAndNew
    BY <1>6 DEF Alone, generations, past
  <2>2. LastOnly'
    BY <2>1 DEF TypeOK, Progress, LastOnly, generations, past
  <2>3. Cleaned'
    BY <1>1, <2>1, NoWriteAssumption DEF TypeOK, Progress, LastOnly, Cleaned, NoFiles, Write, Ids, generations, past
  <2>4. Reconciled' /\ OneOld'
    BY <2>1 DEF TypeOK, Progress, Reconciled, OneOld, NoGenerations, Ids, generations, past
  <2>5. OldAndNew'
    BY <2>1 DEF TypeOK, Fresh, Progress, LastOnly, OldAndNew, NoGenerations, Write, Steps, File, Ids, generations, past
  <2> QED BY <2>2, <2>3, <2>4, <2>5
<1> QED BY <1>1, <1>2, <1>3, <1>4, <1>5, <1>6 DEF Alone

\* Repairing and starting up publish the ready or previous generation.
LEMMA RepairKeeps ==
    ASSUME Inv, Repair
    PROVE  Inv'
<1> USE NullsAssumption DEF Inv, At
<1>1. /\ writer # NoWrite /\ step = "repair" /\ Go("clean")
      /\ UNCHANGED <<generations, phase, nextId, past>>
  BY DEF Repair, step
<1>2. writer' \in Write /\ writer' # NoWrite /\ writer'.id = id /\ writer'.step = "clean"
      /\ writer'.content = writer.content
  BY <1>1, GoWrites DEF Steps, Go, TypeOK, Write, id
<1>3. /\ target' = target \/ (target = Missing /\ target' \in RepairSources(id))
      /\ leftovers' = leftovers \/ (leftovers < MaxLeftovers /\ leftovers' = leftovers + 1)
      /\ leftovers' = leftovers => target' # Missing \/ RepairSources(id) = {}
  <2>1. CASE target = Missing /\ RepairSources(id) # {}
    <3>1. Missing \notin RepairSources(id)
      BY DEF RepairSources
    <3>2. leftovers + 1 # leftovers
      BY DEF TypeOK
    <3> QED BY <2>1, <3>1, <3>2 DEF Repair, id
  <2>2. CASE ~(target = Missing /\ RepairSources(id) # {})
    BY <2>2 DEF Repair, id
  <2> QED BY <2>1, <2>2
<1>4. RepairSources(id) \subseteq Contents
  BY <1>1, RepairSourcesAreWhole DEF id
<1>5. leftovers' \in 0..MaxLeftovers
  <2>1. leftovers \in Nat /\ MaxLeftovers \in Nat /\ leftovers <= MaxLeftovers
    BY BoundsAssumption DEF TypeOK
  <2> QED BY <1>3, <2>1
<1>6. TypeOK'
  BY <1>1, <1>2, <1>3, <1>4, <1>5 DEF TypeOK, File, generations, past
<1>7. WholeGenerations' /\ Fresh'
  BY <1>1, <1>3, <1>4 DEF WholeGenerations, Fresh, TypeOK, generations
<1>8. Progress'
  BY <1>1, <1>2 DEF Progress, id, step, generations, past
<1>9. Kept'
  BY <1>1, <1>3, <1>4 DEF Kept, Nothing, generations, past
<1>10. ASSUME leftovers' = 0
       PROVE  LastOnly' /\ Cleaned' /\ Reconciled' /\ OneOld' /\ OldAndNew'
  <2>1. leftovers = 0
    BY <1>10, <1>3 DEF TypeOK
  <2>2. LastOnly /\ OneOld /\ OldAndNew
    BY <2>1 DEF Alone
  <2>3. LastOnly' /\ Cleaned' /\ OneOld'
    BY <1>1, <1>2, <2>2 DEF LastOnly, Cleaned, OneOld, generations, past
  <2>4. Reconciled'
    BY <1>1 DEF Reconciled, Progress
  <2>5. RepairSources(id) \subseteq stable \cup {written}
    BY <1>1, <2>2 DEF RepairSources, Progress, OldAndNew
  <2>6. RepairSources(id) = {} => NoGenerations
    BY <1>1, <2>2 DEF RepairSources, NoGenerations, LastOnly, Progress
  <2>7. OldAndNew'
    <3>1. target' # Missing \/ NoGenerations
      BY <1>3, <1>10, <2>1, <2>6
    <3>2. NoGenerations' <=> NoGenerations
      BY <1>1 DEF NoGenerations, generations
    <3>3. target' \in stable \cup {written, Missing}
      BY <1>1, <1>3, <2>2, <2>5 DEF OldAndNew
    <3>4. prev'[writer'.id] \in stable \cup {Missing}
      BY <1>1, <1>2, <2>2 DEF OldAndNew, generations
    <3>5. target' = Missing /\ NoGenerations => Missing \in stable
      BY <1>1, <1>3, <1>4, <2>2 DEF OldAndNew
    <3> QED BY <1>1, <1>2, <3>1, <3>2, <3>3, <3>4, <3>5 DEF OldAndNew, id, step, past
  <2> QED BY <2>3, <2>4, <2>7
<1> QED BY <1>6, <1>7, <1>8, <1>9, <1>10 DEF Alone

LEMMA RepairCleanUpKeeps ==
    ASSUME Inv, RepairCleanUp
    PROVE  Inv'
<1> USE NullsAssumption DEF Inv, At
<1>1. /\ writer # NoWrite /\ step = "clean" /\ writer' = NoWrite
      /\ CleanUp({id}) /\ UNCHANGED <<target, phase, nextId, past>>
  BY DEF RepairCleanUp, step, id
<1>2. {id} \in SUBSET Ids
  BY <1>1 DEF TypeOK, Write, id
<1>3. TypeOK'
  BY <1>1, <1>2, CleanUpEffect DEF TypeOK, past
<1>4. WholeGenerations' /\ Fresh' /\ Progress'
  BY <1>1, <1>2, CleanUpEffect DEF WholeGenerations, Fresh, Progress, TypeOK
<1>5. Kept'
  BY <1>1, <1>2, CleanUpEffect DEF Kept, Nothing, past
<1>6. ASSUME leftovers' = 0
      PROVE  LastOnly' /\ Cleaned' /\ Reconciled' /\ OneOld' /\ OldAndNew'
  <2>1. leftovers = 0 /\ leftovers' = leftovers
    BY <1>1, <1>2, <1>6, CleanUpEffect DEF TypeOK
  <2>2. LastOnly /\ OneOld /\ OldAndNew
    BY <2>1 DEF Alone
  <2>3. LastOnly'
    BY <1>1, <1>2, <2>2, CleanUpEffect DEF LastOnly
  <2>4. Cleaned'
    <3>1. target # Missing \/ NoGenerations
      BY <1>1, <2>2 DEF OldAndNew
    <3>2. tmp'[id] = Missing /\ ready'[id] = Missing /\ prev'[id] = Missing
      BY <1>1, <1>2, <2>1, <3>1, CleanUpEffect DEF NoGenerations
    <3>3. \A i \in Ids : i # id => tmp'[i] = Missing /\ ready'[i] = Missing /\ prev'[i] = Missing
      BY <1>1, <2>3 DEF LastOnly, Progress
    <3> QED BY <3>2, <3>3 DEF Cleaned, NoFiles
  <2>5. Reconciled' /\ OneOld' /\ OldAndNew'
    BY <1>1, <2>2 DEF Reconciled, OneOld, OldAndNew, Progress, past
  <2> QED BY <2>3, <2>4, <2>5
<1> QED BY <1>3, <1>4, <1>5, <1>6 DEF Alone

LEMMA ReconcilePublishKeeps ==
    ASSUME Inv, ReconcilePublish
    PROVE  Inv'
<1> USE NullsAssumption DEF Inv
<1>1. /\ phase = "down" /\ phase' = "reconciling"
      /\ UNCHANGED <<generations, writer, nextId, past>>
  BY DEF ReconcilePublish
<1>2. writer = NoWrite
  BY <1>1 DEF Progress
<1>3. /\ target' = target \/ (target = Missing /\ target' \in StartupSources)
      /\ leftovers' = leftovers \/ (leftovers < MaxLeftovers /\ leftovers' = leftovers + 1)
      /\ leftovers' = leftovers => target' # Missing \/ StartupSources = {}
  <2>1. CASE target = Missing /\ StartupSources # {}
    <3>1. Missing \notin StartupSources
      BY SourcesAreWhole
    <3>2. leftovers + 1 # leftovers
      BY DEF TypeOK
    <3> QED BY <2>1, <3>1, <3>2 DEF ReconcilePublish
  <2>2. CASE ~(target = Missing /\ StartupSources # {})
    BY <2>2 DEF ReconcilePublish
  <2> QED BY <2>1, <2>2
<1>4. StartupSources \subseteq Contents
  BY SourcesAreWhole
<1>5. leftovers' \in 0..MaxLeftovers
  <2>1. leftovers \in Nat /\ MaxLeftovers \in Nat /\ leftovers <= MaxLeftovers
    BY BoundsAssumption DEF TypeOK
  <2> QED BY <1>3, <2>1
<1>6. TypeOK'
  BY <1>1, <1>3, <1>4, <1>5 DEF TypeOK, File, generations, past
<1>7. WholeGenerations' /\ Fresh' /\ Progress' /\ Kept'
  BY <1>1, <1>2, <1>3, <1>4 DEF WholeGenerations, Fresh, Progress, Kept, Nothing, TypeOK, generations, past
<1>8. ASSUME leftovers' = 0
      PROVE  LastOnly' /\ Cleaned' /\ Reconciled' /\ OneOld' /\ OldAndNew'
  <2>1. leftovers = 0
    BY <1>8, <1>3 DEF TypeOK
  <2>2. LastOnly' /\ Cleaned' /\ OneOld' /\ OldAndNew'
    BY <1>1, <1>2, <2>1 DEF Alone, LastOnly, Cleaned, OneOld, OldAndNew, generations, past
  <2>3. StartupSources = {} => NoGenerations'
    BY <1>1 DEF StartupSources, Present, NoGenerations, generations
  <2> QED BY <1>3, <1>8, <2>1, <2>2, <2>3 DEF Reconciled
<1> QED BY <1>6, <1>7, <1>8 DEF Alone

LEMMA ReconcileCleanUpKeeps ==
    ASSUME Inv, ReconcileCleanUp
    PROVE  Inv'
<1> USE NullsAssumption DEF Inv
<1>1. /\ phase = "reconciling" /\ phase' = "up"
      /\ CleanUp(Ids) /\ UNCHANGED <<target, writer, nextId, past>>
  BY DEF ReconcileCleanUp
<1>2. writer = NoWrite
  BY <1>1 DEF Progress
<1>3. Ids \in SUBSET Ids
  OBVIOUS
<1>4. TypeOK'
  BY <1>1, <1>3, CleanUpEffect DEF TypeOK, past
<1>5. WholeGenerations' /\ Fresh' /\ Progress' /\ Kept'
  BY <1>1, <1>2, <1>3, CleanUpEffect DEF WholeGenerations, Fresh, Progress, Kept, Nothing, TypeOK, past
<1>6. ASSUME leftovers' = 0
      PROVE  LastOnly' /\ Cleaned' /\ Reconciled' /\ OneOld' /\ OldAndNew'
  <2>1. leftovers = 0 /\ leftovers' = leftovers
    BY <1>1, <1>3, <1>6, CleanUpEffect DEF TypeOK
  <2>2. target # Missing \/ NoGenerations
    BY <1>1, <2>1 DEF Alone, Reconciled
  <2>3. NoFiles'
    BY <1>1, <1>3, <2>1, <2>2, CleanUpEffect DEF NoFiles, NoGenerations
  <2>4. OneOld' /\ OldAndNew' /\ Reconciled'
    BY <1>1, <1>2, <2>1 DEF Alone, OneOld, OldAndNew, Reconciled, past
  <2> QED BY <2>3, <2>4 DEF LastOnly, Cleaned, NoFiles
<1> QED BY <1>4, <1>5, <1>6 DEF Alone

LEMMA InvStep == Inv /\ [Next]_vars => Inv'
<1> SUFFICES ASSUME Inv, [Next]_vars PROVE Inv'
  OBVIOUS
<1>1. CASE UNCHANGED vars
  BY <1>1 DEF vars, generations, past, Inv, TypeOK, WholeGenerations, Fresh, Progress, Kept, Nothing,
     Alone, LastOnly, Cleaned, NoFiles, Reconciled, NoGenerations, OneOld, OldAndNew, id, step
<1>2. CASE Next
  BY <1>2, BeginKeeps, CreateTemporaryKeeps, FillTemporaryKeeps, RenameToReadyKeeps,
     MoveTargetAsideKeeps, PublishTargetKeeps, RemoveReadyKeeps, RemovePreviousKeeps, ReturnKeeps,
     StepFailsKeeps, RepairKeeps, RepairCleanUpKeeps, StopKeeps, ReconcilePublishKeeps,
     ReconcileCleanUpKeeps DEF Next
<1> QED BY <1>1, <1>2

LEMMA Invariance == Spec => []Inv
BY InvInit, InvStep, PTL DEF Spec

\* Every reachable state is well typed.
THEOREM Typing == Spec => []TypeOK
<1>1. Inv => TypeOK
  BY DEF Inv
<1> QED BY <1>1, Invariance, PTL

\* No part of a content is ever read or published at startup
\* (atomicWritePrivate).
THEOREM WholeReads == Spec => []WholeGenerations
<1>1. Inv => WholeGenerations
  BY DEF Inv
<1> QED BY <1>1, Invariance, PTL

\* "Last target or valid recovery always remains", for any number of writes,
\* failures, stops and generations left behind.
THEOREM Durability == Spec => []NothingLost
<1>1. Inv => NothingLost
  BY NothingIsMissing DEF Inv, Kept, NothingLost
<1> QED BY <1>1, Invariance, PTL

\* A write or startup whose clean-ups succeeded leaves no file behind.
THEOREM Tidiness == Spec => []NothingLeaks
<1>1. Inv => NothingLeaks
  BY DEF Inv, Alone, Cleaned, NoFiles, NothingLeaks, Present
<1> QED BY <1>1, Invariance, PTL
-----------------------------------------------------------------------------
(* The store implements the register.                                      *)

LEMMA SameFiles ==
    ASSUME UNCHANGED <<target, ready, prev>>
    PROVE  Recoverable' = Recoverable
BY DEF Recoverable, Present

LEMMA SameTarget ==
    ASSUME target # Missing, UNCHANGED target
    PROVE  Recoverable' = Recoverable
BY DEF Recoverable

LEMMA NewTarget == target' # Missing => Recoverable' = {target'}
BY DEF Recoverable

\* With nothing left behind there is one value to read, and one old value.
Settled == Inv /\ leftovers = 0 => Recoverable = {Visible} /\ stable = {Old} /\ New = written

LEMMA OneValue ==
    ASSUME Inv, leftovers = 0
    PROVE  Recoverable = {Visible} /\ stable = {Old} /\ New = written
<1>1. \E v : Recoverable = {v}
  <2>1. CASE target # Missing
    BY <2>1 DEF Recoverable
  <2>2. CASE target = Missing /\ Present(ready) # {}
    <3>1. \A i \in Present(ready) : i = nextId - 1
      BY DEF Inv, Alone, LastOnly, Present
    <3>2. Present(ready) = {nextId - 1}
      BY <2>2, <3>1
    <3> QED BY <2>2, <3>2 DEF Recoverable
  <2>3. CASE target = Missing /\ Present(ready) = {} /\ Present(prev) # {}
    <3>1. \A i \in Present(prev) : i = nextId - 1
      BY DEF Inv, Alone, LastOnly, Present
    <3>2. Present(prev) = {nextId - 1}
      BY <2>3, <3>1
    <3> QED BY <2>3, <3>2 DEF Recoverable
  <2>4. CASE target = Missing /\ Present(ready) = {} /\ Present(prev) = {}
    BY <2>4 DEF Recoverable
  <2> QED BY <2>1, <2>2, <2>3, <2>4
<1>2. \E v : stable = {v}
  BY DEF Inv, Alone, OneOld
<1> QED BY <1>1, <1>2 DEF Visible, Old, New

LEMMA AlwaysOneValue == []Settled
<1>1. Settled
  BY OneValue DEF Settled
<1> QED BY <1>1, PTL

\* The new generation alone is what a startup would publish.
LEMMA ReadyIsRead ==
    ASSUME TypeOK, NEW i \in Ids, target = Missing, ready[i] # Missing,
           \A j \in Ids : j # i => ready[j] = Missing
    PROVE  Recoverable = {ready[i]}
<1>1. Present(ready) = {i}
  BY DEF Present
<1> QED BY <1>1 DEF Recoverable

LEMMA CleanUpKeepsValue ==
    ASSUME TypeOK, NEW S \in SUBSET Ids, CleanUp(S), UNCHANGED target
    PROVE  Recoverable' = Recoverable
<1>1. CASE target # Missing
  BY <1>1, SameTarget
<1>2. CASE target = Missing
  BY <1>2, CleanUpEffect, SameFiles
<1> QED BY <1>1, <1>2

\* What a step does to the values a startup could find.
LEMMA ValueStep ==
    ASSUME Inv, Inv', Next, leftovers = 0, leftovers' = 0
    PROVE  \/ Recoverable' = Recoverable
           \/ writer # NoWrite /\ writer' # NoWrite /\ Recoverable' \subseteq stable \cup {written}
<1> USE NullsAssumption DEF At
<1>1. CASE \E content \in Contents : Begin(content)
  BY <1>1, SameFiles DEF Begin, generations
<1>2. CASE CreateTemporary \/ FillTemporary \/ Return \/ StepFails \/ Stop
  BY <1>2, SameFiles DEF CreateTemporary, FillTemporary, Return, StepFails, Stop, generations
<1>3. CASE RenameToReady
  <2>1. writer # NoWrite /\ step = "rename" /\ Go("move") /\ target' = target
        /\ ready' = [ready EXCEPT ![id] = tmp[id]] /\ nextId' = nextId /\ written' = written
    BY <1>3 DEF RenameToReady, RenameStep, step, id, past
  <2>2. writer' # NoWrite /\ id \in Ids
    BY <2>1, GoWrites DEF Inv, TypeOK, Go, Write, Steps, id
  <2>3. ready'[id] = written /\ written \in Contents
    BY <2>1, <2>2 DEF Inv, Progress, TypeOK, Write, id
  <2>4. CASE target = Missing
    <3>1. \A j \in Ids : j # id => ready'[j] = Missing
      BY <2>1, <2>2 DEF Inv, Alone, LastOnly, Progress, TypeOK
    <3>2. Present(ready)' = {id}
      BY <2>2, <2>3, <3>1 DEF Present
    <3>3. Recoverable' = {ready'[id]}
      BY <2>1, <2>4, <3>2 DEF Recoverable
    <3> QED BY <2>1, <2>2, <2>3, <3>3
  <2> QED BY <2>1, <2>4, SameTarget
<1>4. CASE MoveTargetAside
  <2>1. writer # NoWrite /\ step = "move" /\ Go("publish") /\ target' = Missing
        /\ ready' = ready /\ nextId' = nextId /\ written' = written
    BY <1>4 DEF MoveTargetAside, step, past
  <2>2. writer' # NoWrite /\ id \in Ids
    BY <2>1, GoWrites DEF Inv, TypeOK, Write, Steps, id
  <2>3. ready'[id] = written /\ written \in Contents
    BY <2>1 DEF Inv, Progress, TypeOK, Write, id
  <2>4. \A j \in Ids : j # id => ready'[j] = Missing
    BY <2>1 DEF Inv, Alone, LastOnly, Progress
  <2>5. Present(ready)' = {id}
    BY <2>2, <2>3, <2>4 DEF Present
  <2>6. Recoverable' = {ready'[id]}
    BY <2>1, <2>5 DEF Recoverable
  <2> QED BY <2>1, <2>2, <2>3, <2>6
<1>5. CASE PublishTarget
  <2>1. writer # NoWrite /\ step = "publish" /\ Go("unlinkReady") /\ target' = ready[id]
    BY <1>5 DEF PublishTarget, step, id
  <2>2. writer' # NoWrite
    BY <2>1, GoWrites DEF Inv, Steps
  <2>3. target' = written /\ written \in Contents
    BY <2>1 DEF Inv, Progress, TypeOK, Write
  <2> QED BY <2>1, <2>2, <2>3, NewTarget
<1>6. CASE RemoveReady \/ RemovePrevious
  <2>1. target = written /\ written \in Contents /\ target' = target
    BY <1>6 DEF RemoveReady, RemovePrevious, Inv, Progress, TypeOK, Write, step, id
  <2> QED BY <2>1, SameTarget
<1>7. CASE Repair
  <2>1. writer # NoWrite /\ Go("clean") /\ UNCHANGED generations
    BY <1>7 DEF Repair
  <2>2. writer' # NoWrite
    BY <2>1, GoWrites DEF Inv, Steps
  <2>3. target' = target \/ target' \in RepairSources(id)
    BY <1>7 DEF Repair, id
  <2>4. RepairSources(id) \subseteq stable \cup {written} /\ Missing \notin RepairSources(id)
    BY <2>1 DEF RepairSources, Inv, Progress, Alone, OldAndNew
  <2> QED BY <2>1, <2>2, <2>3, <2>4, SameFiles, NewTarget DEF generations
<1>8. CASE RepairCleanUp
  BY <1>8, CleanUpKeepsValue DEF RepairCleanUp, Inv, TypeOK, Write
<1>9. CASE ReconcilePublish
  <2>1. UNCHANGED generations
    BY <1>9 DEF ReconcilePublish
  <2>2. target' = target \/ (target = Missing /\ target' \in StartupSources)
    <3>1. CASE target = Missing /\ StartupSources # {}
      BY <1>9, <3>1 DEF ReconcilePublish
    <3>2. CASE ~(target = Missing /\ StartupSources # {})
      BY <1>9, <3>2 DEF ReconcilePublish
    <3> QED BY <3>1, <3>2
  <2>3. CASE target' = target
    BY <2>1, <2>3, SameFiles DEF generations
  <2>4. CASE target = Missing /\ target' \in StartupSources
    <3>1. target' \in Recoverable
      BY <2>4 DEF StartupSources, Recoverable, Present
    <3>2. target' # Missing
      BY <2>4, SourcesAreWhole DEF Inv
    <3> QED BY <3>1, <3>2, NewTarget, OneValue
  <2> QED BY <2>2, <2>3, <2>4
<1>10. CASE ReconcileCleanUp
  BY <1>10, CleanUpKeepsValue DEF ReconcileCleanUp, Inv
<1> QED BY <1>1, <1>2, <1>3, <1>4, <1>5, <1>6, <1>7, <1>8, <1>9, <1>10 DEF Next

LEMMA LeftoversStay ==
    ASSUME Inv, Next, leftovers # 0
    PROVE  leftovers' # 0
<1>1. leftovers \in Nat
  BY BoundsAssumption DEF Inv, TypeOK
<1>2. CASE RepairCleanUp
  BY <1>1, <1>2, CleanUpEffect DEF RepairCleanUp, At, Inv, TypeOK, Write
<1>3. CASE ReconcileCleanUp
  BY <1>1, <1>3, CleanUpEffect DEF ReconcileCleanUp, Inv
<1>4. CASE Repair \/ ReconcilePublish
  <2>1. leftovers' = leftovers \/ leftovers' = leftovers + 1
    <3>1. CASE Repair
      BY <3>1 DEF Repair
    <3>2. CASE ReconcilePublish
      BY <3>2 DEF ReconcilePublish
    <3> QED BY <1>4, <3>1, <3>2
  <2> QED BY <1>1, <2>1
<1>5. CASE ~(RepairCleanUp \/ ReconcileCleanUp \/ Repair \/ ReconcilePublish)
  BY <1>5 DEF Next, Begin, CreateTemporary, FillTemporary, RenameToReady, MoveTargetAside,
     PublishTarget, RemoveReady, RemovePrevious, Return, StepFails, Stop
<1> QED BY <1>2, <1>3, <1>4, <1>5

\* The actions that end a write, and the one that begins it.
LEMMA WriterStep ==
    ASSUME Inv, Next
    PROVE  \/ \E content \in Contents : Begin(content)
           \/ Return
           \/ RepairCleanUp \/ Stop
           \/ (writer = NoWrite <=> writer' = NoWrite) /\ stable' = stable /\ written' = written
<1>1. CASE CreateTemporary \/ FillTemporary \/ RenameToReady \/ MoveTargetAside
           \/ PublishTarget \/ RemoveReady \/ RemovePrevious \/ StepFails \/ Repair
  <2>1. writer # NoWrite /\ (\E s \in Steps : Go(s)) /\ UNCHANGED past
    BY <1>1 DEF CreateTemporary, FillTemporary, RenameToReady, MoveTargetAside, PublishTarget,
       RemoveReady, RemovePrevious, StepFails, Repair, At, Steps
  <2> QED BY <2>1, GoWrites DEF Inv, past
<1>2. CASE ReconcilePublish \/ ReconcileCleanUp
  BY <1>2 DEF ReconcilePublish, ReconcileCleanUp, past
<1> QED BY <1>1, <1>2 DEF Next

LEMMA RegisterInit == Init => Register!Init
<1> SUFFICES ASSUME Init PROVE Register!Init
  OBVIOUS
<1>1. Recoverable = {Missing} /\ stable = {Missing}
  BY DEF Init, Recoverable, Present
<1> QED BY <1>1 DEF Register!Init, Init, Visible, Old, New

\* Each step of the store is a step of the register or leaves it as it is.
LEMMA RegisterStep ==
    ASSUME Inv, Inv', [Next]_vars
    PROVE  [Register!Next]_(Register!vars)
<1> DEFINE writing == writer # NoWrite /\ leftovers = 0
<1>1. CASE UNCHANGED vars
  BY <1>1 DEF vars, generations, past, Visible, Old, New, Recoverable, Present, Register!vars
<1>2. CASE Next /\ leftovers # 0
  BY <1>2, LeftoversStay DEF Visible, Old, New, Register!vars
<1>3. CASE Next /\ leftovers = 0 /\ leftovers' # 0
  BY <1>3 DEF Visible, Old, New, Register!Next, Register!Degrade
<1>4. CASE Next /\ leftovers = 0 /\ leftovers' = 0
  <2>1. Recoverable = {Visible} /\ stable = {Old} /\ New = written
    BY <1>4, OneValue
  <2>2. Recoverable' = {Visible'} /\ stable' = {Old'} /\ New' = written'
    <3>1. Settled'
      BY AlwaysOneValue, PTL
    <3> QED BY <1>4, <3>1 DEF Settled
  <2>3. \/ Visible' = Visible
        \/ writer # NoWrite /\ writer' # NoWrite /\ Visible' \in {Old, New}
    <3>1. CASE Recoverable' = Recoverable
      BY <2>1, <2>2, <3>1
    <3>2. CASE writer # NoWrite /\ writer' # NoWrite /\ Recoverable' \subseteq stable \cup {written}
      BY <2>1, <2>2, <3>2
    <3> QED BY <1>4, <3>1, <3>2, ValueStep
  <2>4. ASSUME NEW content \in Contents, Begin(content)
        PROVE  Register!Begin(content)
    <3>1. writer = NoWrite /\ writer' # NoWrite /\ stable' = Recoverable /\ written' = content
      BY <2>4, NoWriteAssumption DEF Begin, Write, Steps, Inv, TypeOK, Ids
    <3> QED BY <1>4, <2>1, <2>2, <2>3, <3>1 DEF Register!Begin
  <2>5. CASE Return
    <3>1. writer # NoWrite /\ writer' = NoWrite /\ stable' = stable /\ written' = written
      BY <2>5 DEF Return, At, past
    <3>2. target = written /\ written # Missing
      BY <2>5, NullsAssumption DEF Return, At, Inv, Progress, TypeOK, Write, step
    <3>3. Visible = New
      BY <2>1, <3>2 DEF Recoverable
    <3> QED BY <1>4, <2>1, <2>2, <2>3, <3>1, <3>3 DEF Register!Next, Register!Succeed
  <2>6. CASE RepairCleanUp \/ Stop
    <3>1. writer' = NoWrite /\ stable' = stable /\ written' = written
      BY <2>6 DEF RepairCleanUp, Stop, past
    <3>2. CASE writer # NoWrite
      BY <1>4, <2>1, <2>2, <2>3, <3>1, <3>2 DEF Register!Next, Register!Fail
    <3>3. CASE writer = NoWrite
      BY <1>4, <2>1, <2>2, <2>3, <3>1, <3>3 DEF Register!vars
    <3> QED BY <3>2, <3>3
  <2>7. CASE (writer = NoWrite <=> writer' = NoWrite) /\ stable' = stable /\ written' = written
    <3>1. CASE Visible' = Visible
      BY <1>4, <2>1, <2>2, <2>7, <3>1 DEF Register!vars
    <3>2. CASE writer # NoWrite /\ Visible' \in {Old, New}
      BY <1>4, <2>1, <2>2, <2>7, <3>2 DEF Register!Next, Register!Change
    <3> QED BY <2>3, <3>1, <3>2
  <2> QED BY <1>4, <2>4, <2>5, <2>6, <2>7, WriterStep DEF Register!Next
<1> QED BY <1>1, <1>2, <1>3, <1>4

\* Until a clean-up leaves a generation behind, the files of a target are one
\* register: old or new, as a whole, whenever the process stops.
THEOREM Refinement == Spec => IsRegister
<1>1. Inv /\ Inv' /\ [Next]_vars => [Register!Next]_(Register!vars)
  BY RegisterStep
<1> QED BY <1>1, RegisterInit, Invariance, PTL DEF Spec, IsRegister, Register!Spec
=============================================================================
