------------------------------- MODULE BlobGc -------------------------------
(***************************************************************************)
(* The private store of imported assets and its mark-and-sweep collector   *)
(* (packages/document-runtime/src/session-manager.ts and storage.ts).      *)
(*                                                                         *)
(* A document is the set of the asset hashes it refers to.  The bytes of   *)
(* an asset of a document that is opened, and of an imported one, are a     *)
(* blob; saving embeds them in the recovery base.  A pass marks what        *)
(* memory refers to in one go, then awaits the recovery files of each       *)
(* candidate and each removal, while sessions open, import, edit, undo,     *)
(* save, close and are recovered.                                           *)
(*                                                                         *)
(* Blobs are content addressed and never rewritten: storing what is stored  *)
(* leaves the file, and its age, alone.                                     *)
(***************************************************************************)
EXTENDS Integers, Sequences, SequencesExt, FiniteSets

CONSTANTS
    Hashes,        \* contents of assets; their names are in the order of the numbers
    Sessions,      \* session ids; the recovery files are named after them
    MaxHistory,    \* the bound on undo entries (maxHistoryEntries)
    MaxEntries,    \* blobs that one pass looks at
    MaxDeletes,    \* blobs that one pass removes
    MaxOpen,       \* bound: sessions open, or being opened, at a time
    MaxProposals,  \* bound: hashes that pending proposals name, over all sessions
    NoSession, NoFiles, NoImport, NoDocument, NoPass

ASSUME HashesAssumption == Hashes \subseteq Nat
ASSUME LimitsAssumption ==
    MaxHistory \in Nat \ {0} /\ MaxEntries \in Nat /\ MaxDeletes \in Nat

VARIABLES
    blobs,     \* the store: absent, or older or younger than the minimum age
    memory,    \* per session, the document and its history
    files,     \* per session, its recovery base and journal
    opening,   \* per session, the document that is being opened
    imports,   \* per session, the asset on its way into its document
    proposals, \* per session, the hashes its pending proposals name
    rotating,  \* sessions that replaced their base, not yet their journal
    pass,      \* the collection in progress
    lost       \* blobs that a pass removed after they had come into use

vars == <<blobs, memory, files, opening, imports, proposals, rotating, pass, lost>>
coming == <<opening, imports, proposals>>

Document == SUBSET Hashes
Session == [doc: Document, undo: Seq(Document), redo: Seq(Document)]
Opened == [doc: Document]

\* An import is staged before it awaits its turn and stores its bytes; a command
\* that registers a stored blob has read it.
Import == [hash: Hashes, stored: BOOLEAN, staged: BOOLEAN]

\* consistent: the journal is of this base; logged: the hashes its records name;
\* doc: the document it replays to; whole: base and journal are both there.
Files == [base: Document, logged: Document, doc: Document, consistent: BOOLEAN, whole: BOOLEAN]

\* toRead are candidates whose base is still to be read, halfRead those whose
\* journal is; toSweep the blobs that it may still remove.  revived are those
\* that came into use unmarked, garbage those that should be gone at the end.
Pass == [step: {"list", "read", "sweep"}, marked: Document, toRead: SUBSET Sessions,
         halfRead: SUBSET Sessions, toSweep: Document, deleted: Nat,
         revived: Document, garbage: Document]

ASSUME NullRecordsAssumption ==
    /\ NoSession \notin Session /\ NoFiles \notin Files /\ NoDocument \notin Opened
    /\ NoImport \notin Import /\ NoPass \notin Pass

TypeOK ==
    /\ blobs \in [Hashes -> {"absent", "fresh", "old"}]
    /\ memory \in [Sessions -> Session \cup {NoSession}]
    /\ files \in [Sessions -> Files \cup {NoFiles}]
    /\ opening \in [Sessions -> Opened \cup {NoDocument}]
    /\ imports \in [Sessions -> Import \cup {NoImport}]
    /\ proposals \in [Sessions -> Document]
    /\ rotating \subseteq Sessions
    /\ pass \in Pass \cup {NoPass}
    /\ lost \in Document

Init ==
    /\ blobs = [h \in Hashes |-> "absent"]
    /\ memory = [s \in Sessions |-> NoSession]
    /\ files = [s \in Sessions |-> NoFiles]
    /\ opening = [s \in Sessions |-> NoDocument]
    /\ imports = [s \in Sessions |-> NoImport]
    /\ proposals = [s \in Sessions |-> {}]
    /\ rotating = {} /\ pass = NoPass /\ lost = {}

Stored == {h \in Hashes : blobs[h] # "absent"}
Live == {s \in Sessions : memory[s] # NoSession}
Importing(staged) == {s \in Sessions : imports[s] # NoImport /\ imports[s].staged = staged}
Staged == {imports[s].hash : s \in Importing(TRUE)}

\* What is about to be used and not marked: no session has it yet.
Opening == {s \in Sessions : opening[s] # NoDocument}
Unstaged == {imports[s].hash : s \in Importing(FALSE)} \cup UNION {opening[s].doc : s \in Opening}

HistoryOf(s) == ToSet(memory[s].undo) \cup ToSet(memory[s].redo)
InMemory ==
    Staged \cup UNION {memory[s].doc \cup proposals[s] \cup UNION HistoryOf(s) : s \in Live}
Candidates == {s \in Sessions : files[s] # NoFiles}
Whole(s) == files[s] # NoFiles /\ files[s].whole
Logged == UNION {files[s].logged : s \in {t \in Sessions : Whole(t)}}
Embedded == UNION {files[s].base : s \in {t \in Sessions : Whole(t)}}

\* The operations of a session run one after the other.
Idle(s) ==
    /\ memory[s] # NoSession /\ s \notin rotating
    /\ imports[s] # NoImport => ~imports[s].stored

\* What comes into use during a pass is not garbage any more, and the pass does
\* not learn of it.
Revived(used) ==
    pass' = IF pass = NoPass THEN pass
            ELSE [pass EXCEPT !.garbage = @ \ used,
                              !.revived = @ \cup ((used \cap pass.toSweep) \ pass.marked)]

\* putBlob leaves a stored blob as it is.
Put(stored) ==
    /\ blobs' = [h \in Hashes |-> IF h \in stored \ Stored THEN "fresh" ELSE blobs[h]]
    /\ lost' = lost \ stored
-----------------------------------------------------------------------------
(* Sessions.                                                               *)

MayOpen == Cardinality(Live \cup Opening) < MaxOpen

\* openMainOnly and createMainOnly store the bytes of every asset, here in one
\* step, before the session and its recovery files exist.
StoreAssets(s, doc) ==
    /\ memory[s] = NoSession /\ files[s] = NoFiles /\ MayOpen
    /\ imports[s] = NoImport /\ opening[s] = NoDocument
    /\ opening' = [opening EXCEPT ![s] = [doc |-> doc]]
    /\ Put(doc) /\ Revived(doc)
    /\ UNCHANGED <<memory, files, imports, proposals, rotating>>

Open(s) ==
    /\ opening[s] # NoDocument
    /\ LET doc == opening[s].doc IN
          /\ memory' = [memory EXCEPT ![s] = [doc |-> doc, undo |-> <<>>, redo |-> <<>>]]
          /\ files' = [files EXCEPT ![s] = [base |-> doc, logged |-> {}, doc |-> doc,
                                            consistent |-> TRUE, whole |-> TRUE]]
    /\ opening' = [opening EXCEPT ![s] = NoDocument]
    /\ UNCHANGED <<blobs, imports, proposals, rotating, pass, lost>>

OpenFails(s) ==
    /\ opening[s] # NoDocument
    /\ opening' = [opening EXCEPT ![s] = NoDocument]
    /\ UNCHANGED <<blobs, memory, files, imports, proposals, rotating, pass, lost>>

\* #recordHistory keeps the latest MaxHistory entries.
LastOf(stack) == SubSeq(stack, IF Len(stack) > MaxHistory THEN 2 ELSE 1, Len(stack))

\* An edit joins the last entry of its history group or pushes one of its own.
Histories(s) ==
    {LastOf(Append(memory[s].undo, memory[s].doc))} \cup
    (IF memory[s].undo # <<>> THEN {memory[s].undo} ELSE {})

\* The journal record of a document that names the hashes in named.
Log(s, doc, named) ==
    files' = [files EXCEPT ![s].doc = doc, ![s].logged = @ \cup named]

Edit(s, doc, named) ==
    /\ Log(s, doc, named)
    /\ \E undo \in Histories(s) :
          memory' = [memory EXCEPT ![s] = [doc |-> doc, undo |-> undo, redo |-> <<>>]]

\* storeAssetAndExecute and importAssetAndExecute stage the hash before the
\* import awaits its turn.
StageImport(s, h) ==
    /\ memory[s] # NoSession /\ imports[s] = NoImport
    /\ imports' = [imports EXCEPT ![s] = [hash |-> h, stored |-> FALSE, staged |-> TRUE]]
    /\ Revived({h})
    /\ UNCHANGED <<blobs, memory, files, opening, proposals, rotating, lost>>

PutBlob(s) ==
    /\ imports[s] # NoImport /\ Idle(s) /\ imports[s].hash \notin memory[s].doc
    /\ imports' = [imports EXCEPT ![s].stored = TRUE]
    /\ Put({imports[s].hash})
    /\ UNCHANGED <<memory, files, opening, proposals, rotating, pass>>

\* A command with asset.register takes the bytes of a stored blob
\* (#assetAdditions), which nothing stages.
ReadStored(s, h) ==
    /\ Idle(s) /\ imports[s] = NoImport /\ h \in Stored \ memory[s].doc
    /\ imports' = [imports EXCEPT ![s] = [hash |-> h, stored |-> TRUE, staged |-> FALSE]]
    /\ Revived({h})
    /\ UNCHANGED <<blobs, memory, files, opening, proposals, rotating, lost>>

\* The command may be that of a proposal, which goes with it.
CommitImport(s) ==
    /\ imports[s] # NoImport /\ imports[s].stored
    /\ Edit(s, memory[s].doc \cup {imports[s].hash}, {imports[s].hash})
    /\ imports' = [imports EXCEPT ![s] = NoImport]
    /\ \E done \in {{}, IF imports[s].staged THEN {} ELSE {imports[s].hash}} :
          proposals' = [proposals EXCEPT ![s] = @ \ done]
    /\ UNCHANGED <<blobs, opening, rotating, pass, lost>>

\* The session is closed, the revision another, the hash the document's already
\* or the journal fails: the blob, if it is stored, stays.
EndImport(s) ==
    /\ imports[s] # NoImport
    /\ imports' = [imports EXCEPT ![s] = NoImport]
    /\ UNCHANGED <<blobs, memory, files, opening, proposals, rotating, pass, lost>>

\* propose does not look at the store.
Propose(s, h) ==
    /\ memory[s] # NoSession /\ h \notin memory[s].doc \cup proposals[s]
    /\ Cardinality({p \in Sessions \X Hashes : p[2] \in proposals[p[1]]}) < MaxProposals
    /\ proposals' = [proposals EXCEPT ![s] = @ \cup {h}]
    /\ Revived({h})
    /\ UNCHANGED <<blobs, memory, files, opening, imports, rotating, lost>>

\* #purgeExpiredProposals.
ProposalExpires(s, h) ==
    /\ h \in proposals[s]
    /\ proposals' = [proposals EXCEPT ![s] = @ \ {h}]
    /\ UNCHANGED <<blobs, memory, files, opening, imports, rotating, pass, lost>>

RemoveAsset(s, h) ==
    /\ Idle(s) /\ h \in memory[s].doc
    /\ Edit(s, memory[s].doc \ {h}, {})
    /\ UNCHANGED <<blobs, coming, rotating, pass, lost>>

\* A document can be restored when each asset is one of the current document or
\* a blob.
Restorable(s, doc) == doc \subseteq memory[s].doc \cup Stored

Undo(s) ==
    /\ Idle(s) /\ memory[s].undo # <<>>
    /\ LET doc == Last(memory[s].undo) IN
          /\ Restorable(s, doc)
          /\ Log(s, doc, doc)
          /\ memory' = [memory EXCEPT ![s] = [doc |-> doc, undo |-> Front(@.undo),
                                              redo |-> Append(@.redo, @.doc)]]
    /\ UNCHANGED <<blobs, coming, rotating, pass, lost>>

Redo(s) ==
    /\ Idle(s) /\ memory[s].redo # <<>>
    /\ LET doc == Last(memory[s].redo) IN
          /\ Restorable(s, doc)
          /\ Log(s, doc, doc)
          /\ memory' = [memory EXCEPT ![s] = [doc |-> doc, undo |-> Append(@.undo, @.doc),
                                              redo |-> Front(@.redo)]]
    /\ UNCHANGED <<blobs, coming, rotating, pass, lost>>

\* saveLocked, once the user's file is written: the base, then the journal, which
\* names the digest of its base.
WriteBase(s) ==
    /\ Idle(s)
    /\ rotating' = rotating \cup {s}
    /\ \E same \in {FALSE, memory[s].doc = files[s].base} :
          files' = [files EXCEPT ![s].base = memory[s].doc, ![s].consistent = same /\ @]
    /\ UNCHANGED <<blobs, memory, coming, pass, lost>>

ResetJournal(s) ==
    /\ s \in rotating /\ rotating' = rotating \ {s}
    /\ files' = [files EXCEPT ![s].logged = {}, ![s].consistent = TRUE]
    /\ UNCHANGED <<blobs, memory, coming, pass, lost>>

RotationFails(s) ==
    /\ s \in rotating /\ rotating' = rotating \ {s}
    /\ UNCHANGED <<blobs, memory, files, coming, pass, lost>>

\* With preserveRecovery the files stay; removing them may leave the journal.
Journal(f) == [f EXCEPT !.base = {}, !.doc = {}, !.consistent = FALSE, !.whole = FALSE]

Close(s) ==
    /\ Idle(s)
    /\ memory' = [memory EXCEPT ![s] = NoSession]
    /\ proposals' = [proposals EXCEPT ![s] = {}]
    /\ \E left \in {files[s], NoFiles, Journal(files[s])} :
          files' = [files EXCEPT ![s] = left]
    /\ UNCHANGED <<blobs, opening, imports, rotating, pass, lost>>

Crash ==
    /\ memory' = [s \in Sessions |-> NoSession]
    /\ opening' = [s \in Sessions |-> NoDocument]
    /\ imports' = [s \in Sessions |-> NoImport]
    /\ proposals' = [s \in Sessions |-> {}]
    /\ rotating' = {} /\ pass' = NoPass
    /\ UNCHANGED <<blobs, files, lost>>

Recoverable(s) == Whole(s) /\ files[s].consistent
BytesThere(s) == files[s].doc \subseteq files[s].base \cup Stored

Recover(s) ==
    /\ memory[s] = NoSession /\ imports[s] = NoImport /\ MayOpen
    /\ Recoverable(s) /\ BytesThere(s)
    /\ memory' = [memory EXCEPT ![s] = [doc |-> files[s].doc, undo |-> <<>>, redo |-> <<>>]]
    /\ Revived(files[s].doc)
    /\ UNCHANGED <<blobs, files, coming, rotating, lost>>
-----------------------------------------------------------------------------
(* #collectRecoveryGarbagePassMainOnly and sweepBlobs; a save or a close    *)
(* begins a pass unless one is running.                                    *)

\* Variant: the history is not marked.
MarkWithoutHistory == Staged \cup UNION {memory[s].doc \cup proposals[s] : s \in Live}
Mark == InMemory

BeginPass ==
    /\ pass = NoPass
    /\ pass' = [step |-> "list", marked |-> Mark, toRead |-> {}, halfRead |-> {},
                toSweep |-> Stored, deleted |-> 0, revived |-> Unstaged \ Mark,
                garbage |-> {h \in Hashes : blobs[h] = "old"}
                               \ (InMemory \cup Unstaged \cup Logged \cup Embedded)]
    /\ UNCHANGED <<blobs, memory, files, coming, rotating, lost>>

ListCandidates ==
    /\ pass # NoPass /\ pass.step = "list"
    /\ pass' = [pass EXCEPT !.step = "read", !.toRead = Candidates]
    /\ UNCHANGED <<blobs, memory, files, coming, rotating, lost>>

ReadBase(s) ==
    /\ pass # NoPass /\ s \in pass.toRead /\ Whole(s)
    /\ pass' = [pass EXCEPT !.toRead = @ \ {s}, !.halfRead = @ \cup {s},
                            !.marked = @ \cup files[s].base]
    /\ UNCHANGED <<blobs, memory, files, coming, rotating, lost>>

\* Variant: the records of the journal are not marked.
NamedByNoRecord(s) == {}
NamedByRecords(s) == files[s].logged

ReadJournal(s) ==
    /\ pass # NoPass /\ s \in pass.halfRead /\ files[s] # NoFiles
    /\ pass' = [pass EXCEPT !.halfRead = @ \ {s}, !.marked = @ \cup NamedByRecords(s)]
    /\ UNCHANGED <<blobs, memory, files, coming, rotating, lost>>

\* Files that are gone or do not parse end the pass before it removes anything.
PassFails ==
    /\ pass # NoPass
    /\ \/ \E s \in pass.toRead : ~Whole(s)
       \/ \E s \in pass.halfRead : files[s] = NoFiles
    /\ pass' = NoPass
    /\ UNCHANGED <<blobs, memory, files, coming, rotating, lost>>

\* The first entries by name.
Scanned == {h \in Stored : Cardinality({g \in Stored : g < h}) < MaxEntries}

ListBlobs ==
    /\ pass # NoPass /\ pass.step = "read" /\ pass.toRead \cup pass.halfRead = {}
    /\ pass' = [pass EXCEPT !.step = "sweep", !.toSweep = Scanned, !.garbage = @ \cap Scanned]
    /\ UNCHANGED <<blobs, memory, files, coming, rotating, lost>>

\* Variant: the ages are compared the wrong way round.
RemovesTheYoung(h) ==
    h \notin pass.marked /\ pass.deleted < MaxDeletes /\ blobs[h] = "fresh"
Removes(h) ==
    h \notin pass.marked /\ pass.deleted < MaxDeletes /\ blobs[h] = "old"

\* One entry after the other, by name.
Sweep(h) ==
    /\ pass # NoPass /\ pass.step = "sweep"
    /\ h \in pass.toSweep /\ \A g \in pass.toSweep : h <= g
    /\ IF Removes(h)
       THEN /\ blobs' = [blobs EXCEPT ![h] = "absent"]
            /\ lost' = lost \cup (pass.revived \cap {h})
            /\ pass' = [pass EXCEPT !.toSweep = @ \ {h}, !.deleted = @ + 1]
       ELSE pass' = [pass EXCEPT !.toSweep = @ \ {h}] /\ UNCHANGED <<blobs, lost>>
    /\ UNCHANGED <<memory, files, coming, rotating>>

EndPass ==
    /\ pass # NoPass /\ pass.step = "sweep" /\ pass.toSweep = {}
    /\ pass' = NoPass
    /\ UNCHANGED <<blobs, memory, files, coming, rotating, lost>>

\* The minimum age is an hour, far longer than a pass: a blob stored during one is
\* young in it.  The sweep reads the clock as it begins: one that becomes old later
\* is old for the next pass.
Age(h) ==
    /\ blobs[h] = "fresh"
    /\ pass # NoPass => pass.step # "sweep" /\ h \in pass.toSweep
    /\ blobs' = [blobs EXCEPT ![h] = "old"]
    /\ UNCHANGED <<memory, files, coming, rotating, pass, lost>>
-----------------------------------------------------------------------------
SessionStep(s) ==
    \/ \E doc \in Document : StoreAssets(s, doc)
    \/ Open(s) \/ OpenFails(s)
    \/ \E h \in Hashes : StageImport(s, h) \/ ReadStored(s, h) \/ RemoveAsset(s, h)
    \/ PutBlob(s) \/ CommitImport(s) \/ EndImport(s)
    \/ \E h \in Hashes : Propose(s, h) \/ ProposalExpires(s, h)
    \/ Undo(s) \/ Redo(s)
    \/ WriteBase(s) \/ ResetJournal(s) \/ RotationFails(s)
    \/ Close(s) \/ Recover(s)

PassStep ==
    \/ ListCandidates \/ ListBlobs \/ EndPass \/ PassFails
    \/ \E s \in Sessions : ReadBase(s) \/ ReadJournal(s)
    \/ \E h \in Hashes : Sweep(h)

Next ==
    \/ \E s \in Sessions : SessionStep(s)
    \/ BeginPass \/ PassStep
    \/ \E h \in Hashes : Age(h)
    \/ Crash

Spec == Init /\ [][Next]_vars
-----------------------------------------------------------------------------
(* What the collector promises.                                            *)

\* What a pass may remove although it is used: it came into use after the pass had
\* marked memory.
RevivedNow == IF pass = NoPass THEN {} ELSE pass.revived

\* "Bounded blob garbage collection preserves every hash reachable from a
\* current document, journal, history entry, staged import, or active session"
\* (specs/002-v1-release/contracts.md): true of all that did not come into use
\* during the pass.
PreservesReachable ==
    [][\A h \in (InMemory \cup Logged) \ RevivedNow :
          h \in Stored => blobs'[h] # "absent"]_vars

\* A candidate that can be recovered lacks no bytes of the document it replays to
\* but those of an asset that came into use during a pass, which removed it, however
\* edits, rotations, passes, ageing, recoveries and crashes interleave.
OnlyRevivedBytesAreLost ==
    \A s \in Sessions :
       Recoverable(s) => files[s].doc \subseteq files[s].base \cup Stored \cup lost

\* A candidate that can be recovered has the bytes of each asset of the document
\* it replays to, in its base or as a blob ("make every newly referenced byte
\* payload durable before acknowledging its journal record", #executeLocked).
\* Refuted when an old blob comes into use again during a pass: the pass marked
\* memory before, and storing what is stored neither tells it nor makes the blob
\* young.
RecoveryHasItsBytes == \A s \in Sessions : Recoverable(s) => BytesThere(s)

\* A pass that did not use up its deletions has removed, of the entries it looked
\* at, all that was old and unreachable when it began and did not come into use
\* since.
PassCollectsGarbage ==
    [][EndPass /\ pass.deleted < MaxDeletes => pass.garbage \cap Stored = {}]_vars
=============================================================================
