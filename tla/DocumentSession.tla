--------------------------- MODULE DocumentSession ---------------------------
(***************************************************************************)
(* One document session of the main process and its recovery files         *)
(* (packages/document-runtime/src/session-manager.ts, with the journal of  *)
(* packages/hdeck/src/journal.ts and the save of persistence.ts).          *)
(*                                                                         *)
(* Operations are serialised by the session's queue, so at most one is in  *)
(* progress (op), but each is several awaited writes: the process may stop *)
(* between any two of them, a write may fail with or without having taken  *)
(* effect, and other programs may write the user's file at any time.       *)
(*                                                                         *)
(* A document stands for its revision and its digest, both functions of    *)
(* its content; applying the commands of a journal record to the revision  *)
(* it names gives the revision it names.                                   *)
(***************************************************************************)
EXTENDS Integers, Sequences, SequencesExt

CONSTANTS
    Documents,       \* document contents
    Paths,           \* files the user saves to
    Groups,          \* historyGroupId
    MaxHistory,      \* maxHistoryEntries
    MaxRecords,      \* bound: records of a journal (the code's size limits)
    NoDocument,      \* no content: an absent file, no unacknowledged record
    NoPath,          \* no save target
    NoGroup,         \* historyGroupId is undefined
    NoSession, NoRecovery, NoOp

ASSUME LimitsAssumption == {MaxHistory, MaxRecords} \subseteq Nat \ {0}
ASSUME NullsAssumption ==
    NoDocument \notin Documents /\ NoPath \notin Paths /\ NoGroup \notin Groups

VARIABLES
    files,     \* the user's files
    recovery,  \* the session's recovery base, journal and metadata on disk
    session,   \* SessionState in memory
    op,        \* the operation in progress
    acked,     \* the document of the last acknowledged change
    attempted, \* the document of a journal record that was not acknowledged
    confirmed  \* the document the last save or open found in a file

disk == <<files, recovery>>
past == <<acked, attempted, confirmed>>
vars == <<disk, session, op, past>>

Durability == {"clean", "journaled", "saving", "save-error", "recovered"}
Entry == [before: Documents, after: Documents, group: Groups \cup {NoGroup}]
Record == [previous: Documents, revision: Documents]
Fingerprint == Documents \cup {NoDocument}
Metadata == [savedRevision: Documents, persisted: BOOLEAN,
             target: Paths \cup {NoPath}, fingerprint: Fingerprint]
\* header is the journal's baseDocumentSha256; torn, an incomplete last frame.
Recovery == [base: Documents, header: Documents, records: Seq(Record),
             torn: BOOLEAN, meta: Metadata]
Session == [document: Documents, savedRevision: Documents, persisted: BOOLEAN,
            durability: Durability, target: Paths \cup {NoPath},
            fingerprint: Fingerprint, journalSequence: Nat,
            undo: Seq(Entry), redo: Seq(Entry)]
AppendOp == [kind: {"append"}, cause: {"edit", "undo", "redo"}, result: Documents,
             group: Groups \cup {NoGroup}, stage: {"opened", "written"}]
\* plain: save() or flush(), not Save As; expected: the content the caller names;
\* observed: the content found when the save began; raced: another program wrote
\* the target after the last check of it.
SaveOp == [kind: {"save"}, path: Paths, attach: BOOLEAN, plain: BOOLEAN,
           expected: Fingerprint, observed: Fingerprint, raced: BOOLEAN,
           stage: {"guard", "checked", "renamed", "base", "metadata", "journal"}]

ASSUME NullRecordsAssumption ==
    NoSession \notin Session /\ NoRecovery \notin Recovery /\ NoOp \notin AppendOp \cup SaveOp

TypeOK ==
    /\ files \in [Paths -> Fingerprint]
    /\ recovery \in Recovery \cup {NoRecovery}
    /\ session \in Session \cup {NoSession}
    /\ op \in AppendOp \cup SaveOp \cup {NoOp}
    /\ {acked, attempted, confirmed} \subseteq Fingerprint

Init ==
    /\ files \in [Paths -> Fingerprint]
    /\ recovery = NoRecovery
    /\ session = NoSession
    /\ op = NoOp
    /\ acked = NoDocument /\ attempted = NoDocument /\ confirmed = NoDocument

Dirty(s) == ~s.persisted \/ s.document # s.savedRevision
Idle == session # NoSession /\ op = NoOp
Saving(stage) == op # NoOp /\ op.kind = "save" /\ op.stage = stage
Appending(stage) == op # NoOp /\ op.kind = "append" /\ op.stage = stage

RecoveryMetadata(s) ==
    [savedRevision |-> s.savedRevision, persisted |-> s.persisted,
     target |-> s.target, fingerprint |-> s.fingerprint]
FreshRecovery(s) ==
    [base |-> s.document, header |-> s.document, records |-> <<>>,
     torn |-> FALSE, meta |-> RecoveryMetadata(s)]
NewState(d, persisted, durability, target, fingerprint, saved, sequence) ==
    [document |-> d, savedRevision |-> saved, persisted |-> persisted,
     durability |-> durability, target |-> target, fingerprint |-> fingerprint,
     journalSequence |-> sequence, undo |-> <<>>, redo |-> <<>>]
-----------------------------------------------------------------------------
(* Opening.  The recovery files of a session not yet registered hold        *)
(* nothing that was acknowledged: initialising them is one step.            *)

CreateMainOnly(d, target) ==
    /\ session = NoSession /\ recovery = NoRecovery
    /\ target # NoPath => files[target] = NoDocument
    /\ session' = NewState(d, FALSE, "journaled", target, NoDocument, d, 0)
    /\ recovery' = FreshRecovery(session')
    /\ acked' = d /\ attempted' = NoDocument /\ confirmed' = NoDocument
    /\ UNCHANGED <<files, op>>

OpenMainOnly(p) ==
    /\ session = NoSession /\ recovery = NoRecovery
    /\ files[p] # NoDocument
    /\ session' = NewState(files[p], TRUE, "clean", p, files[p], files[p], 0)
    /\ recovery' = FreshRecovery(session')
    /\ acked' = files[p] /\ attempted' = NoDocument /\ confirmed' = files[p]
    /\ UNCHANGED <<files, op>>
-----------------------------------------------------------------------------
(* Changes.  The journal is appended to and synced before memory changes.   *)

\* appendJournalRecord refuses a torn journal and one that is not where the
\* session thinks it is; so does the journal's size limit.
Appendable ==
    /\ ~recovery.torn
    /\ Len(recovery.records) = session.journalSequence
    /\ Len(recovery.records) < MaxRecords

BeginAppend(cause, result, group) ==
    /\ Idle /\ Appendable
    /\ op' = [kind |-> "append", cause |-> cause, result |-> result,
              group |-> group, stage |-> "opened"]
    /\ UNCHANGED <<disk, session, past>>

\* A transaction stamps the document: it never leaves it as it was.
Execute(d, group) == d # session.document /\ BeginAppend("edit", d, group)
Undo == session.undo # <<>> /\ BeginAppend("undo", Last(session.undo).before, NoGroup)
Redo == session.redo # <<>> /\ BeginAppend("redo", Last(session.redo).after, NoGroup)

WriteFrame ==
    /\ Appending("opened")
    /\ recovery' = [recovery EXCEPT !.records =
         Append(@, [previous |-> session.document, revision |-> op.result])]
    /\ attempted' = op.result
    /\ op' = [op EXCEPT !.stage = "written"]
    /\ UNCHANGED <<files, session, acked, confirmed>>

\* Part of a frame was written, or all of it and the sync failed.
AppendFails ==
    /\ \/ Appending("opened") /\ \E torn \in BOOLEAN :
             recovery' = [recovery EXCEPT !.torn = torn]
       \/ Appending("written") /\ UNCHANGED recovery
    /\ op' = NoOp
    /\ UNCHANGED <<files, session, past>>

\* recordHistory
Coalesces(undo, group, before) ==
    /\ undo # <<>> /\ group # NoGroup
    /\ Last(undo).group = group
    /\ Last(undo).after = before

RecordHistory(undo, before, after, group) ==
    LET pushed == Append(undo, [before |-> before, after |-> after, group |-> group])
    IN  IF Coalesces(undo, group, before)
        THEN [undo EXCEPT ![Len(undo)].after = after]
        ELSE IF Len(pushed) > MaxHistory THEN Tail(pushed) ELSE pushed

\* The undo and redo stacks after the operation.  Variant: an edit keeps the
\* changes that were undone.
HistoriesKeepingRedo(s) ==
    CASE op.cause = "edit" ->
           <<RecordHistory(s.undo, s.document, op.result, op.group), s.redo>>
      [] op.cause = "undo" -> <<Front(s.undo), Append(s.redo, Last(s.undo))>>
      [] op.cause = "redo" -> <<Append(s.undo, Last(s.redo)), Front(s.redo)>>
Histories(s) ==
    CASE op.cause = "edit" ->
           <<RecordHistory(s.undo, s.document, op.result, op.group), <<>>>>
      [] op.cause = "undo" -> <<Front(s.undo), Append(s.redo, Last(s.undo))>>
      [] op.cause = "redo" -> <<Append(s.undo, Last(s.redo)), Front(s.redo)>>

\* Variant: the change is acknowledged before its frame is written.
AcknowledgeStageEarly == "opened"
AcknowledgeStage == "written"

Acknowledge ==
    /\ Appending(AcknowledgeStage)
    /\ session' = [session EXCEPT
         !.document = op.result, !.durability = "journaled",
         !.journalSequence = @ + 1,
         !.undo = Histories(session)[1], !.redo = Histories(session)[2]]
    /\ acked' = op.result /\ attempted' = NoDocument
    /\ op' = NoOp
    /\ UNCHANGED <<disk, confirmed>>
-----------------------------------------------------------------------------
(* Saving.  The archive is written beside the target and renamed over it    *)
(* after the commit guard; then the recovery files are rotated to it.       *)

SaveFails ==
    /\ session' = [session EXCEPT !.durability = "save-error"]
    /\ op' = NoOp
    /\ UNCHANGED <<disk, past>>

\* The target must hold what the caller names.  Variant: it is overwritten
\* whatever it holds.
ExpectedUnread(path, expected) == TRUE
Expected(path, expected) == files[path] = expected

BeginSave(path, expected, attach, plain) ==
    /\ Idle /\ Expected(path, expected)
    /\ op' = [kind |-> "save", path |-> path, attach |-> attach, plain |-> plain,
              expected |-> expected, observed |-> files[path], raced |-> FALSE,
              stage |-> "guard"]
    /\ session' = [session EXCEPT !.durability = "saving"]
    /\ UNCHANGED <<disk, past>>
SaveLocked(path, expected, attach, plain) ==
    \/ BeginSave(path, expected, attach, plain)
    \/ Idle /\ ~Expected(path, expected) /\ SaveFails

\* save() and flush(): nothing is written when nothing is dirty.
Save ==
    /\ Idle /\ session.target # NoPath /\ Dirty(session)
    /\ SaveLocked(session.target, session.fingerprint, TRUE, TRUE)
\* A path and the content the user agreed to replace.
SaveAs(p, expected, attach) == SaveLocked(p, expected, attach, FALSE)

\* The guard was awaited: the target is read again.
SameTarget(path, observed) == files[path] = observed
CheckTarget ==
    /\ Saving("guard")
    /\ IF SameTarget(op.path, op.observed)
       THEN op' = [op EXCEPT !.stage = "checked"] /\ UNCHANGED <<disk, session, past>>
       ELSE SaveFails
\* A refusing guard, a full disk.
SaveStepFails == (Saving("guard") \/ Saving("checked")) /\ SaveFails

RenameOverTarget ==
    /\ Saving("checked")
    /\ files' = [files EXCEPT ![op.path] = session.document]
    /\ op' = [op EXCEPT !.stage = "renamed"]
    /\ UNCHANGED <<recovery, session, past>>

\* The committed file is read back.
ConfirmSaved ==
    /\ Saving("renamed")
    /\ IF files[op.path] # session.document THEN SaveFails
       ELSE /\ session' = [session EXCEPT
                 !.target = IF op.attach THEN op.path ELSE @,
                 !.fingerprint = IF op.attach THEN session.document ELSE @,
                 !.savedRevision = session.document, !.persisted = TRUE,
                 !.durability = "clean"]
            /\ confirmed' = session.document
            /\ op' = [op EXCEPT !.stage = "base"]
            /\ UNCHANGED <<disk, acked, attempted>>

\* One step of the rotation: it takes effect and the next one follows, or it
\* fails, with or without effect, and the session goes on.  Variant: the
\* session is not told.
RotatedQuietly(after, next) ==
    /\ recovery' \in {recovery, after}
    /\ op' \in {next, NoOp}
    /\ UNCHANGED session
Rotated(after, next) ==
    \/ recovery' = after /\ op' = next /\ UNCHANGED session
    \/ /\ recovery' \in {recovery, after}
       /\ session' = [session EXCEPT !.durability = "save-error"]
       /\ op' = NoOp

WriteBase ==
    /\ Saving("base")
    /\ Rotated([recovery EXCEPT !.base = session.document],
               [op EXCEPT !.stage = "metadata"])
    /\ UNCHANGED <<files, past>>
WriteMetadata ==
    /\ Saving("metadata")
    /\ Rotated([recovery EXCEPT !.meta = RecoveryMetadata(session)],
               [op EXCEPT !.stage = "journal"])
    /\ UNCHANGED <<files, past>>

\* resetJournal: the new journal names its base.
EmptyJournal ==
    [recovery EXCEPT !.header = session.document, !.records = <<>>, !.torn = FALSE]
ResetJournal ==
    /\ Saving("journal")
    /\ \/ /\ recovery' = EmptyJournal
          /\ session' = [session EXCEPT !.journalSequence = 0]
       \/ /\ recovery' \in {recovery, EmptyJournal}
          /\ session' = [session EXCEPT !.durability = "save-error"]
    /\ op' = NoOp
    /\ attempted' = IF recovery' = EmptyJournal THEN NoDocument ELSE attempted
    /\ UNCHANGED <<files, acked, confirmed>>

\* The shared file may have been written but its writer lease was not
\* confirmed: the session forgets the target and counts as unsaved.
MarkDetachedSaveUnconfirmed ==
    /\ Idle
    /\ session' = [session EXCEPT !.target = NoPath, !.fingerprint = NoDocument,
                                  !.persisted = FALSE, !.durability = "save-error"]
    /\ recovery' \in {recovery, [recovery EXCEPT !.meta = RecoveryMetadata(session')]}
    /\ UNCHANGED <<files, op, past>>
-----------------------------------------------------------------------------
(* Closing, stopping and recovering.                                        *)

Close(discardUnsaved, preserveRecovery) ==
    /\ Idle
    /\ Dirty(session) => discardUnsaved
    /\ session' = NoSession
    /\ recovery' = IF preserveRecovery THEN recovery ELSE NoRecovery
    /\ UNCHANGED <<files, op, past>>

\* The process stops.  A frame that was not synced may be lost or torn.
Crash ==
    /\ session # NoSession
    /\ session' = NoSession /\ op' = NoOp
    /\ \/ UNCHANGED recovery
       \/ /\ Appending("written")
          /\ \E torn \in BOOLEAN :
               recovery' = [recovery EXCEPT !.records = Front(@), !.torn = torn]
       \/ Appending("opened") /\ recovery' = [recovery EXCEPT !.torn = TRUE]
    /\ UNCHANGED <<files, past>>

\* The records of the valid prefix chain from the base.
Chained(base, records) ==
    \A i \in DOMAIN records :
       records[i].previous = IF i = 1 THEN base ELSE records[i - 1].revision
Replayed == IF recovery.records = <<>> THEN recovery.base
            ELSE Last(recovery.records).revision
Recoverable == recovery.header = recovery.base /\ Chained(recovery.base, recovery.records)

\* listRecoveryCandidatesMainOnly.
Listed == ~(recovery.meta.persisted /\ recovery.records = <<>>)

RecoverMainOnly ==
    LET meta == recovery.meta IN
    /\ session = NoSession /\ recovery # NoRecovery
    /\ Recoverable
    /\ session' = NewState(Replayed, meta.persisted, "recovered", meta.target,
                     meta.fingerprint, meta.savedRevision, Len(recovery.records))
    /\ recovery' = [recovery EXCEPT !.torn = FALSE]
    /\ acked' = Replayed /\ attempted' = NoDocument
    /\ UNCHANGED <<files, op, confirmed>>

\* Another program, or a participant's host, writes or deletes a file.
ExternalWrite(p, d) ==
    /\ d # files[p]
    /\ files' = [files EXCEPT ![p] = d]
    /\ op' = IF Saving("checked") /\ op.path = p THEN [op EXCEPT !.raced = TRUE] ELSE op
    /\ UNCHANGED <<recovery, session, past>>
-----------------------------------------------------------------------------
Next ==
    \/ \E d \in Documents, t \in Paths \cup {NoPath} : CreateMainOnly(d, t)
    \/ \E p \in Paths : OpenMainOnly(p)
    \/ /\ Idle
       /\ \/ \E d \in Documents, g \in Groups \cup {NoGroup} : Execute(d, g)
          \/ Undo
          \/ Redo
          \/ Save
          \/ \E p \in Paths, d \in Fingerprint, attach \in BOOLEAN : SaveAs(p, d, attach)
          \/ MarkDetachedSaveUnconfirmed
          \/ \E discard, preserve \in BOOLEAN : Close(discard, preserve)
    \/ WriteFrame \/ AppendFails \/ Acknowledge
    \/ CheckTarget \/ SaveStepFails \/ RenameOverTarget \/ ConfirmSaved
    \/ WriteBase \/ WriteMetadata \/ ResetJournal
    \/ Crash
    \/ RecoverMainOnly
    \/ \E p \in Paths, d \in Fingerprint : ExternalWrite(p, d)

Spec == Init /\ [][Next]_vars
-----------------------------------------------------------------------------
(* What the session promises.                                              *)

\* As long as the journal names its base, replaying it gives exactly the last
\* acknowledged document, or that and the one change that was written but not
\* acknowledged; whatever append, save, undo or crash came before
\* (appendRecord, recoverReservedMainOnly).
RecoveryIsAcknowledged ==
    recovery # NoRecovery /\ recovery.header = recovery.base =>
       /\ Chained(recovery.base, recovery.records)
       /\ Replayed \in {acked, attempted}

\* A session at rest that shows itself clean has its document in the file it
\* saved, and recovery files that start from that document: nothing failed
\* behind the indicator (saveLocked).
CleanIsRotated ==
    Idle /\ session.durability = "clean" =>
       /\ session.document = confirmed
       /\ recovery.base = session.document /\ recovery.header = session.document
       /\ recovery.meta.savedRevision = session.document /\ recovery.meta.persisted

\* Undo and redo lead through the states the user saw: the stacks chain into
\* one line of documents with the current one between them, through grouped
\* edits, dropped history and failed restores (recordHistory, restoreLocked).
HistoryIsOneLine ==
    session # NoSession =>
       LET undo == session.undo
           redo == session.redo
       IN  /\ \A i \in 1..(Len(undo) - 1) : undo[i].after = undo[i + 1].before
           /\ undo # <<>> => Last(undo).after = session.document
           /\ \A i \in 1..(Len(redo) - 1) : redo[i].before = redo[i + 1].after
           /\ redo # <<>> => Last(redo).before = session.document

\* After a stop, changes that are not in the user's file are offered for
\* recovery (listRecoveryCandidatesMainOnly).
UnsavedIsListed ==
    session = NoSession /\ recovery # NoRecovery /\ acked # confirmed => Listed

\* A plain save replaces only the content this session opened or last saved at
\* its target, and Save As only the content its caller named, whatever another
\* program wrote before or during the save up to its last check ("save can
\* overwrite an externally changed file instead of returning a typed conflict"
\* blocks a release, spec.md).
Known == IF op.plain THEN session.fingerprint ELSE op.expected
SaveReplacesKnownContent ==
    [][RenameOverTarget => files[op.path] = Known \/ op.raced]_vars

\* "Recovery with a mismatched document identity or base revision opens as an
\* explicit recovered copy" (spec.md): what was acknowledged is in the file
\* last saved or can be recovered.  The code refuses a journal whose base was
\* replaced, and keeps appending to it when the rotation of a save failed in
\* between, so this is refuted.
AcknowledgedSurvives ==
    recovery # NoRecovery =>
       \/ Recoverable /\ Replayed \in {acked, attempted}
       \/ acked = confirmed

\* After a failed append a later transaction commits (the test "keeps the
\* session atomic when a journal append fails"), or saving starts a new journal.
\* A torn frame refuses every later append, and a document that is not dirty is
\* not saved, so this is refuted.
FailedAppendCanBeRetried ==
    Idle /\ ~Dirty(session) =>
       ~recovery.torn /\ Len(recovery.records) = session.journalSequence
=============================================================================
