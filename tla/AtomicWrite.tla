----------------------------- MODULE AtomicWrite -----------------------------
(***************************************************************************)
(* Replacement of one private recovery file through generations            *)
(* (packages/document-runtime/src/storage.ts, atomicWritePrivate,          *)
(* repairKnownTransaction and reconcileInterruptedWrites).                 *)
(*                                                                         *)
(* A write publishes the new content beside the target (ready), moves the  *)
(* target aside (prev), links the new content as the target and removes    *)
(* both.  Each file operation is a step; before each of them the process   *)
(* may stop, and each may fail, upon which the write repairs what it left. *)
(* A directory sync follows each operation the next one relies on, so a    *)
(* stop loses at most the last operation: a sync that fails or never comes *)
(* is the failure or the stop before the next step.                        *)
(*                                                                         *)
(* Writes to one target are serialised by withTargetWriteLock.             *)
(***************************************************************************)
EXTENDS Integers, FiniteSets

CONSTANTS
    Contents,      \* contents of the file
    MaxWrites,     \* bound: writes, each with a transaction id of its own
    MaxLeftovers,  \* bound: clean-ups that leave a generation behind, because
                   \* it was locked or the startup reached its limit of actions
    Missing,       \* there is no such file
    Partial,       \* a temporary file not completely written
    NoWrite,
    Unknown        \* what the register holds once it is no longer one

ASSUME BoundsAssumption == {MaxWrites, MaxLeftovers} \subseteq Nat
ASSUME NullsAssumption == {Missing, Partial} \cap Contents = {} /\ Missing # Partial

VARIABLES
    target,     \* the file itself
    tmp,        \* per transaction id, the temporary file,
    ready,      \* the new generation
    prev,       \* and the generation moved aside
    writer,     \* the write in progress
    phase,      \* the process: it reconciles at startup, then serves writes
    nextId,     \* transaction ids are fresh: a counter of those used
    leftovers,  \* clean-ups that left a generation behind
    stable,     \* what could be read when the last write began
    written     \* the content of the last write begun

generations == <<tmp, ready, prev>>
past == <<stable, written>>
vars == <<target, generations, writer, phase, nextId, leftovers, past>>

Ids == 1..MaxWrites
File == Contents \cup {Missing}
Steps == {"create", "fill", "rename", "move", "publish", "unlinkReady",
          "unlinkPrevious", "return", "repair", "clean"}
Write == [id: Ids, content: Contents, step: Steps]

ASSUME NoWriteAssumption == NoWrite \notin Write

TypeOK ==
    /\ target \in File
    /\ tmp \in [Ids -> File \cup {Partial}]
    /\ ready \in [Ids -> File \cup {Partial}] /\ prev \in [Ids -> File]
    /\ writer \in Write \cup {NoWrite}
    /\ phase \in {"down", "reconciling", "up"}
    /\ nextId \in 1..(MaxWrites + 1)
    /\ leftovers \in 0..MaxLeftovers
    /\ stable \subseteq File \cup {Partial} /\ written \in File

Init ==
    /\ target = Missing
    /\ tmp = [i \in Ids |-> Missing]
    /\ ready = [i \in Ids |-> Missing]
    /\ prev = [i \in Ids |-> Missing]
    /\ writer = NoWrite /\ phase = "down"
    /\ nextId = 1 /\ leftovers = 0
    /\ stable = {Missing} /\ written = Missing

Present(g) == {i \in Ids : g[i] # Missing}

\* What a startup could publish.
Recoverable ==
    IF target # Missing THEN {target}
    ELSE IF Present(ready) # {} THEN {ready[i] : i \in Present(ready)}
    ELSE IF Present(prev) # {} THEN {prev[i] : i \in Present(prev)}
    ELSE {Missing}

At(step) == writer # NoWrite /\ writer.step = step
Go(step) == writer' = [writer EXCEPT !.step = step]
-----------------------------------------------------------------------------
(* atomicWritePrivate, in the order of its file operations.                *)

Begin(content) ==
    /\ phase = "up" /\ writer = NoWrite /\ nextId <= MaxWrites
    /\ writer' = [id |-> nextId, content |-> content, step |-> "create"]
    /\ nextId' = nextId + 1
    /\ stable' = Recoverable /\ written' = content
    /\ UNCHANGED <<target, generations, phase, leftovers>>

CreateTemporary ==
    /\ At("create") /\ Go("fill")
    /\ tmp' = [tmp EXCEPT ![writer.id] = Partial]
    /\ UNCHANGED <<target, ready, prev, phase, nextId, leftovers, past>>

FillTemporary ==
    /\ At("fill") /\ Go("rename")
    /\ tmp' = [tmp EXCEPT ![writer.id] = writer.content]
    /\ UNCHANGED <<target, ready, prev, phase, nextId, leftovers, past>>

\* Variant: the temporary file is renamed while it is being written.
RenameStepEarly == "fill"
RenameStep == "rename"
RenameToReady ==
    /\ At(RenameStep) /\ Go("move")
    /\ ready' = [ready EXCEPT ![writer.id] = tmp[writer.id]]
    /\ tmp' = [tmp EXCEPT ![writer.id] = Missing]
    /\ UNCHANGED <<target, prev, phase, nextId, leftovers, past>>

MoveTargetAside ==
    /\ At("move") /\ Go("publish")
    /\ prev' = [prev EXCEPT ![writer.id] = target]
    /\ target' = Missing
    /\ UNCHANGED <<tmp, ready, phase, nextId, leftovers, past>>

PublishTarget ==
    /\ At("publish") /\ Go("unlinkReady")
    /\ target' = ready[writer.id]
    /\ UNCHANGED <<generations, phase, nextId, leftovers, past>>

RemoveReady ==
    /\ At("unlinkReady") /\ Go("unlinkPrevious")
    /\ ready' = [ready EXCEPT ![writer.id] = Missing]
    /\ UNCHANGED <<target, tmp, prev, phase, nextId, leftovers, past>>

RemovePrevious ==
    /\ At("unlinkPrevious") /\ Go("return")
    /\ prev' = [prev EXCEPT ![writer.id] = Missing]
    /\ UNCHANGED <<target, tmp, ready, phase, nextId, leftovers, past>>

Return ==
    /\ At("return") /\ writer' = NoWrite
    /\ UNCHANGED <<target, generations, phase, nextId, leftovers, past>>

\* Variant: the error is passed on at once.
StepFailsUnrepaired ==
    /\ writer # NoWrite /\ writer.step \notin {"repair", "clean"}
    /\ writer' = NoWrite
    /\ UNCHANGED <<target, generations, phase, nextId, leftovers, past>>
StepFails ==
    /\ writer # NoWrite /\ writer.step \notin {"repair", "clean"}
    /\ Go("repair")
    /\ UNCHANGED <<target, generations, phase, nextId, leftovers, past>>
-----------------------------------------------------------------------------
(* repairKnownTransaction: the write that failed repairs what it left.     *)

\* A missing target is published again from this write's ready or, when there
\* is none or publishing it fails, prev.
RepairSources(id) == {ready[id], prev[id]} \ {Missing}

Repair ==
    /\ At("repair") /\ Go("clean")
    /\ IF target = Missing /\ RepairSources(writer.id) # {}
       THEN \/ target' \in RepairSources(writer.id) /\ UNCHANGED leftovers
            \/ /\ leftovers < MaxLeftovers
               /\ leftovers' = leftovers + 1
               /\ UNCHANGED target
       ELSE UNCHANGED <<target, leftovers>>
    /\ UNCHANGED <<generations, phase, nextId, past>>

Removed(g, S) == [i \in Ids |-> IF i \in S THEN Missing ELSE g[i]]

\* Which generations go: all of them once the target is a file, the temporary
\* ones alone while it is missing.  Variant: all of them, whatever it is.
ClearsGenerationsAlways == TRUE
ClearsGenerations == target # Missing

\* The files in S that are not locked go.  A failure to remove one is ignored.
CleanUp(S) ==
    LET all == IF ClearsGenerations THEN S ELSE {} IN
    \E T \in SUBSET S, R \in SUBSET all, P \in SUBSET all :
       /\ tmp' = Removed(tmp, T)
       /\ ready' = Removed(ready, R)
       /\ prev' = Removed(prev, P)
       /\ leftovers' = IF <<T, R, P>> = <<S, all, all>> THEN leftovers ELSE leftovers + 1
       /\ leftovers' <= MaxLeftovers

RepairCleanUp ==
    /\ At("clean") /\ writer' = NoWrite
    /\ CleanUp({writer.id})
    /\ UNCHANGED <<target, phase, nextId, past>>
-----------------------------------------------------------------------------
(* A stop, and reconcileInterruptedWrites at the next startup.             *)

Stop ==
    /\ phase # "down" /\ phase' = "down"
    /\ writer' = NoWrite
    /\ UNCHANGED <<target, generations, nextId, leftovers, past>>

\* The first ready generation in directory order, else the first prev.
\* Variant: the other way round.
StartupSourcesPrevFirst ==
    IF Present(prev) # {} THEN {prev[i] : i \in Present(prev)}
    ELSE {ready[i] : i \in Present(ready)}
StartupSources ==
    IF Present(ready) # {} THEN {ready[i] : i \in Present(ready)}
    ELSE {prev[i] : i \in Present(prev)}

ReconcilePublish ==
    /\ phase = "down" /\ phase' = "reconciling"
    /\ IF target = Missing /\ StartupSources # {}
       THEN \/ target' \in StartupSources /\ UNCHANGED leftovers
            \/ /\ leftovers < MaxLeftovers
               /\ leftovers' = leftovers + 1
               /\ UNCHANGED target
       ELSE UNCHANGED <<target, leftovers>>
    /\ UNCHANGED <<generations, writer, nextId, past>>

ReconcileCleanUp ==
    /\ phase = "reconciling" /\ phase' = "up"
    /\ CleanUp(Ids)
    /\ UNCHANGED <<target, writer, nextId, past>>
-----------------------------------------------------------------------------
Next ==
    \/ \E content \in Contents : Begin(content)
    \/ CreateTemporary \/ FillTemporary \/ RenameToReady \/ MoveTargetAside
    \/ PublishTarget \/ RemoveReady \/ RemovePrevious \/ Return
    \/ StepFails \/ Repair \/ RepairCleanUp
    \/ Stop \/ ReconcilePublish \/ ReconcileCleanUp

Spec == Init /\ [][Next]_vars
-----------------------------------------------------------------------------
(* What the store promises.                                                *)

\* A reader or a startup never finds part of a content: what is at the target
\* or may be published there is whole, at every point of a write, of its repair
\* and of a startup (atomicWritePrivate).
WholeGenerations == Partial \notin {target} \cup {ready[i] : i \in Ids} \cup {prev[i] : i \in Ids}

\* "Last target or valid recovery always remains" (specs/002-v1-release/
\* test-matrix.md SAV-003): once there was something to read there always is,
\* whatever fails and however often the process stops, locked generations and
\* cut-short startups included.
NothingLost == Missing \in Recoverable => Missing \in stable

\* A write that returned, or was repaired, and a startup leave no file behind
\* ("No leaked temp/journal corruption", REC-004), unless one was locked.
NothingLeaks ==
    phase = "up" /\ writer = NoWrite /\ leftovers = 0 =>
       Present(tmp) \cup Present(ready) \cup Present(prev) = {}

\* The store is an atomic register until a clean-up leaves a generation behind:
\* its value is what the next startup would publish.
Visible == IF leftovers = 0 THEN CHOOSE v \in Recoverable : TRUE ELSE Unknown
Old == IF leftovers = 0 THEN CHOOSE v \in stable : TRUE ELSE Unknown
New == IF leftovers = 0 THEN written ELSE Unknown
Register == INSTANCE AtomicRegister WITH
    value <- Visible, old <- Old, new <- New,
    writing <- writer # NoWrite /\ leftovers = 0
IsRegister == Register!Spec

\* "recovers a complete old or new generation after a crash at ${step}" (test of
\* packages/document-runtime/test/storage-durability.test.ts).  When one clean-up
\* left a generation behind, a later crash finds two and may publish the older
\* one, so this is refuted.
OldOrNew == Recoverable \subseteq stable \cup {written}
=============================================================================
