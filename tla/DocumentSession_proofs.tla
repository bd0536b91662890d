----------------------- MODULE DocumentSession_proofs -----------------------
(***************************************************************************)
(* Proofs about a document session and its recovery files, for all values  *)
(* of the constants: types, the journal, the rotation of a save, the undo  *)
(* and redo stacks, and the content a save replaces.                       *)
(***************************************************************************)
EXTENDS DocumentSession, SequenceTheorems, TLAPS

LEMMA LastOfSequence ==
    ASSUME NEW S, NEW s \in Seq(S), s # <<>>
    PROVE  Last(s) \in S /\ Last(s) = s[Len(s)] /\ Len(s) \in 1..Len(s)
BY EmptySeq, ElementOfSeq DEF Last

LEMMA FrontOfSequence ==
    ASSUME NEW S, NEW s \in Seq(S), s # <<>>
    PROVE  /\ Front(s) \in Seq(S) /\ Len(Front(s)) = Len(s) - 1
           /\ \A i \in 1..(Len(s) - 1) : Front(s)[i] = s[i]
<1>1. Len(s) \in Nat /\ Len(s) # 0
  BY EmptySeq, LenProperties
<1>2. \A i \in 1..(Len(s) - 1) : s[i] \in S
  BY <1>1, ElementOfSeq
<1>3. /\ SubSeq(s, 1, Len(s) - 1) \in Seq(S)
      /\ Len(SubSeq(s, 1, Len(s) - 1)) =
           IF 1 <= Len(s) - 1 THEN (Len(s) - 1) - 1 + 1 ELSE 0
      /\ \A i \in 1..((Len(s) - 1) - 1 + 1) : SubSeq(s, 1, Len(s) - 1)[i] = s[1 + i - 1]
  BY <1>1, <1>2, SubSeqProperties
<1> DEFINE front == SubSeq(s, 1, Len(s) - 1)
<1>4. Front(s) = front
  BY DEF Front
<1> HIDE DEF front
<1>5. Len(front) = Len(s) - 1
  <2>1. Len(front) = IF 1 <= Len(s) - 1 THEN (Len(s) - 1) - 1 + 1 ELSE 0
    BY <1>3 DEF front
  <2>2. \A m \in Nat : m # 0 => (IF 1 <= m - 1 THEN (m - 1) - 1 + 1 ELSE 0) = m - 1
    OBVIOUS
  <2> QED BY <1>1, <2>1, <2>2, Zenon
<1>6. ASSUME NEW i \in 1..(Len(s) - 1) PROVE front[i] = s[i]
  <2>1. 1 + i - 1 = i /\ (Len(s) - 1) - 1 + 1 = Len(s) - 1
    BY <1>1
  <2>2. front[i] = s[1 + i - 1]
    BY <1>3, <2>1 DEF front
  <2> QED BY <2>1, <2>2
<1> QED BY <1>3, <1>4, <1>5, <1>6 DEF front
-----------------------------------------------------------------------------
(* Types.                                                                  *)

LEMMA NewStateType ==
    ASSUME NEW d \in Documents, NEW persisted \in BOOLEAN, NEW durability \in Durability,
           NEW target \in Paths \cup {NoPath}, NEW fingerprint \in Fingerprint,
           NEW saved \in Documents, NEW sequence \in Nat
    PROVE  NewState(d, persisted, durability, target, fingerprint, saved, sequence) \in Session
BY DEF NewState, Session

LEMMA FreshRecoveryType ==
    ASSUME NEW s \in Session
    PROVE  FreshRecovery(s) \in Recovery
BY DEF FreshRecovery, RecoveryMetadata, Recovery, Metadata, Session

\* The stacks after a change are stacks.
LEMMA HistoriesType ==
    ASSUME TypeOK, session \in Session, op \in AppendOp,
           op.cause = "undo" => session.undo # <<>>,
           op.cause = "redo" => session.redo # <<>>
    PROVE  /\ Histories(session)[1] \in Seq(Entry)
           /\ Histories(session)[2] \in Seq(Entry)
<1> DEFINE pushed == Append(session.undo, [before |-> session.document, after |-> op.result,
                                           group |-> op.group])
<1>1. session.undo \in Seq(Entry) /\ session.redo \in Seq(Entry)
  BY DEF Session
<1>2. [before |-> session.document, after |-> op.result, group |-> op.group] \in Entry
  BY DEF Session, AppendOp, Entry
<1>3. CASE op.cause = "edit"
  <2>1. pushed \in Seq(Entry) /\ Len(pushed) = Len(session.undo) + 1
    BY <1>1, <1>2
  <2>2. Tail(pushed) \in Seq(Entry)
    <3> HIDE DEF pushed
    <3> QED BY <2>1, HeadTailProperties, EmptySeq
  <2>3. ASSUME session.undo # <<>>
        PROVE  [session.undo EXCEPT ![Len(session.undo)].after = op.result] \in Seq(Entry)
    <3> DEFINE n == Len(session.undo)
               last == [session.undo[n] EXCEPT !.after = op.result]
    <3>1. n \in 1..Len(session.undo)
      BY <1>1, <2>3, EmptySeq
    <3>2. last \in Entry
      <4>1. session.undo[n] \in Entry
        BY <1>1, <3>1, ElementOfSeq
      <4> HIDE DEF n
      <4> QED BY <4>1 DEF Entry, AppendOp
    <3>3. [session.undo EXCEPT ![n] = last] \in Seq(Entry)
      <4> HIDE DEF n, last
      <4> QED BY <1>1, <3>1, <3>2, ExceptSeq
    <3> QED BY <3>3
  <2>4. RecordHistory(session.undo, session.document, op.result, op.group) \in Seq(Entry)
    BY <2>1, <2>2, <2>3 DEF RecordHistory, Coalesces
  <2> QED BY <1>3, <2>4 DEF Histories
<1>4. CASE op.cause = "undo"
  BY <1>1, <1>4 DEF Histories, Front, Last
<1>5. CASE op.cause = "redo"
  BY <1>1, <1>5 DEF Histories, Front, Last
<1> QED BY <1>3, <1>4, <1>5 DEF AppendOp
-----------------------------------------------------------------------------
(* The inductive invariants.                                               *)

\* An operation is one of an open session, which has recovery files.
Alive ==
    /\ op # NoOp => session # NoSession
    /\ session # NoSession => recovery # NoRecovery

\* An undo or a redo in progress restores the top of its stack.
Restores ==
    op # NoOp /\ op.kind = "append" =>
       /\ op.cause = "undo" => session.undo # <<>> /\ op.result = Last(session.undo).before
       /\ op.cause = "redo" => session.redo # <<>> /\ op.result = Last(session.redo).after

\* What the journal replays to from the base its header names, whether or not
\* that base is still there.
ChainEnd(header, records) == IF records = <<>> THEN header ELSE Last(records).revision
JournalEnd == ChainEnd(recovery.header, recovery.records)

\* The journal is a chain from the base it names to the acknowledged document,
\* or to the one change that was written and not acknowledged.
JournalChains ==
    recovery # NoRecovery =>
       Chained(recovery.header, recovery.records) /\ JournalEnd \in {acked, attempted}

\* A session that may append stands at the end of the journal; an unacknowledged
\* record puts the journal one ahead, and keeps the session from appending.
JournalPosition ==
    session # NoSession =>
       /\ session.document = acked
       /\ \/ JournalEnd = acked
          \/ /\ Len(recovery.records) = session.journalSequence + 1
             /\ JournalEnd = attempted
       /\ Appending("opened") => Len(recovery.records) = session.journalSequence
       /\ Appending("written") =>
             /\ Len(recovery.records) = session.journalSequence + 1
             /\ Last(recovery.records) = [previous |-> session.document, revision |-> op.result]
             /\ attempted = op.result

\* While a session shows itself clean, the steps of the rotation that are done
\* hold, and outside a save all of them.
Rotation ==
    session # NoSession /\ session.durability = "clean" =>
       /\ session.document = confirmed
       /\ session.savedRevision = session.document /\ session.persisted
       /\ op # NoOp /\ op.kind = "save" =>
             /\ op.stage \in {"metadata", "journal"} => recovery.base = session.document
             /\ op.stage = "journal" =>
                   recovery.meta.savedRevision = session.document /\ recovery.meta.persisted
       /\ op = NoOp \/ op.kind = "append" =>
             /\ recovery.base = session.document /\ recovery.header = session.document
             /\ recovery.meta.savedRevision = session.document /\ recovery.meta.persisted

\* A save that may still write began on the content it was told of, and after
\* the last check the target is what it was then, unless another program wrote it
\* since.
Undecided == Saving("guard") \/ Saving("checked")
CheckedTarget ==
    /\ Undecided => op.observed = Known
    /\ Saving("checked") => files[op.path] = op.observed \/ op.raced
-----------------------------------------------------------------------------
LEMMA OpenSession ==
    ASSUME TypeOK, Alive
    PROVE  /\ session # NoSession => session \in Session /\ recovery \in Recovery
           /\ op # NoOp => session # NoSession
           /\ \A stage : Appending(stage) =>
                 op \in AppendOp /\ op.stage = stage /\ session \in Session /\ recovery \in Recovery
           /\ \A stage : Saving(stage) =>
                 op \in SaveOp /\ op.stage = stage /\ session \in Session /\ recovery \in Recovery
<1>1. session # NoSession => session \in Session /\ recovery \in Recovery
  BY DEF TypeOK, Alive
<1>2. op # NoOp => op \in AppendOp \cup SaveOp /\ session # NoSession
  BY DEF TypeOK, Alive
<1>3. ASSUME NEW stage, Appending(stage)
      PROVE  op \in AppendOp /\ op.stage = stage /\ session \in Session /\ recovery \in Recovery
  BY <1>1, <1>2, <1>3 DEF Appending, AppendOp, SaveOp
<1>4. ASSUME NEW stage, Saving(stage)
      PROVE  op \in SaveOp /\ op.stage = stage /\ session \in Session /\ recovery \in Recovery
  BY <1>1, <1>2, <1>4 DEF Saving, AppendOp, SaveOp
<1> QED BY <1>1, <1>2, <1>3, <1>4

LEMMA BeginAppendTypes ==
    ASSUME TypeOK, Alive, NEW cause \in {"edit", "undo", "redo"}, NEW result \in Documents,
           NEW group \in Groups \cup {NoGroup}, BeginAppend(cause, result, group)
    PROVE  TypeOK' /\ Alive'
<1>1. op' \in AppendOp
  BY DEF BeginAppend, AppendOp
<1> QED BY <1>1 DEF BeginAppend, Idle, TypeOK, Alive, disk, past

LEMMA SaveFailsTypes ==
    ASSUME TypeOK, Alive, session # NoSession, SaveFails
    PROVE  TypeOK' /\ Alive'
<1>1. session' \in Session
  BY OpenSession DEF SaveFails, Session, Durability
<1> QED BY <1>1, NullRecordsAssumption DEF SaveFails, TypeOK, Alive, disk, past

LEMMA BeginSaveTypes ==
    ASSUME TypeOK, Alive, NEW path \in Paths, NEW expected \in Fingerprint,
           NEW attach \in BOOLEAN, NEW plain \in BOOLEAN,
           BeginSave(path, expected, attach, plain)
    PROVE  TypeOK' /\ Alive'
<1>1. session' \in Session
  BY OpenSession DEF BeginSave, Idle, Session, Durability
<1>2. op' \in SaveOp
  BY DEF BeginSave, SaveOp, TypeOK
<1> QED BY <1>1, <1>2, NullRecordsAssumption DEF BeginSave, Idle, TypeOK, Alive, disk, past

LEMMA FrameTypes ==
    ASSUME TypeOK, NEW records \in Seq(Record), NEW torn \in BOOLEAN, recovery \in Recovery
    PROVE  [recovery EXCEPT !.records = records, !.torn = torn] \in Recovery
BY DEF Recovery

LEMMA WriteFrameTypes ==
    ASSUME TypeOK, Alive, WriteFrame
    PROVE  TypeOK' /\ Alive'
<1>1. /\ op \in AppendOp /\ session \in Session /\ recovery \in Recovery
      /\ op # NoOp /\ session # NoSession
  BY OpenSession DEF WriteFrame, Appending
<1>2. [previous |-> session.document, revision |-> op.result] \in Record
  BY <1>1 DEF Record, Session, AppendOp
<1>3. recovery' \in Recovery
  <2>1. recovery.records \in Seq(Record)
    BY <1>1 DEF Recovery
  <2>2. Append(recovery.records, [previous |-> session.document, revision |-> op.result])
           \in Seq(Record)
    BY <1>2, <2>1, AppendProperties
  <2> QED BY <1>1, <2>2 DEF Recovery, WriteFrame
<1>4. op' \in AppendOp /\ attempted' \in Fingerprint
  BY <1>1 DEF WriteFrame, AppendOp, Fingerprint
<1> QED BY <1>1, <1>3, <1>4, NullRecordsAssumption DEF WriteFrame, TypeOK, Alive

LEMMA AppendFailsTypes ==
    ASSUME TypeOK, Alive, AppendFails
    PROVE  TypeOK' /\ Alive'
<1>1. session \in Session /\ recovery \in Recovery /\ session # NoSession
  BY OpenSession DEF AppendFails, Appending
<1>2. recovery' \in Recovery
  BY <1>1 DEF AppendFails, Recovery
<1> QED BY <1>1, <1>2, NullRecordsAssumption DEF AppendFails, TypeOK, Alive, past

LEMMA AcknowledgeTypes ==
    ASSUME TypeOK, Alive, Restores, Acknowledge
    PROVE  TypeOK' /\ Alive'
<1>1. /\ op \in AppendOp /\ session \in Session /\ recovery \in Recovery
      /\ op # NoOp /\ session # NoSession
  BY OpenSession DEF Acknowledge, Appending
<1>2. Histories(session)[1] \in Seq(Entry) /\ Histories(session)[2] \in Seq(Entry)
  BY <1>1, HistoriesType DEF Restores, AppendOp
<1>3. session' \in Session
  <2> DEFINE undo == Histories(session)[1]
             redo == Histories(session)[2]
             next == session.journalSequence + 1
  <2>1. op.result \in Documents
    BY <1>1 DEF AppendOp
  <2>2. [session EXCEPT !.document = op.result, !.durability = "journaled",
                        !.journalSequence = next, !.undo = undo, !.redo = redo] \in Session
    <3>1. undo \in Seq(Entry) /\ redo \in Seq(Entry)
      BY <1>2
    <3>2. next \in Nat
      BY <1>1 DEF Session
    <3> HIDE DEF undo, redo, next
    <3> QED BY <1>1, <2>1, <3>1, <3>2 DEF Session, Durability
  <2> QED BY <2>2 DEF Acknowledge
<1>4. acked' \in Fingerprint /\ attempted' \in Fingerprint
  BY <1>1 DEF Acknowledge, AppendOp, Fingerprint
<1> QED BY <1>1, <1>3, <1>4, NullRecordsAssumption DEF Acknowledge, TypeOK, Alive, disk

LEMMA SavedRevisionType ==
    ASSUME NEW s \in Session, NEW d \in Documents, d \in Fingerprint
    PROVE  [s EXCEPT !.fingerprint = d, !.savedRevision = d] \in Session
<1> DEFINE x == [s EXCEPT !.fingerprint = d]
<1>1. x \in Session
  BY DEF Session
<1>2. [s EXCEPT !.fingerprint = d, !.savedRevision = d] = [x EXCEPT !.savedRevision = d]
  BY DEF Session
<1> HIDE DEF x
<1>3. [x EXCEPT !.savedRevision = d] \in Session
  BY <1>1 DEF Session
<1> QED BY <1>2, <1>3

LEMMA ConfirmSavedTypes ==
    ASSUME TypeOK, Alive, ConfirmSaved
    PROVE  TypeOK' /\ Alive'
<1>1. /\ op \in SaveOp /\ session \in Session /\ recovery \in Recovery
      /\ op # NoOp /\ session # NoSession
  BY OpenSession DEF ConfirmSaved, Saving
<1>2. CASE files[op.path] # session.document
  BY <1>1, <1>2, SaveFailsTypes DEF ConfirmSaved
<1>3. CASE files[op.path] = session.document
  <2>1. session' \in Session
    <3>1. CASE op.attach
      <4>1. session' = [session EXCEPT !.target = op.path, !.fingerprint = session.document,
                           !.savedRevision = session.document, !.persisted = TRUE,
                           !.durability = "clean"]
        BY <1>3, <3>1 DEF ConfirmSaved
      <4>2. op.path \in Paths /\ session.document \in Documents
        BY <1>1 DEF SaveOp, Session
      <4>3. "clean" \in Durability /\ session.document \in Fingerprint
        BY <4>2 DEF Durability, Fingerprint
      <4> DEFINE x == [session EXCEPT !.target = op.path, !.persisted = TRUE,
                                      !.durability = "clean"]
      <4>4. x \in Session
        BY <1>1, <4>2, <4>3 DEF Session
      <4>5. session' = [x EXCEPT !.fingerprint = session.document,
                                 !.savedRevision = session.document]
        BY <1>1, <4>1 DEF Session
      <4> HIDE DEF x
      <4> QED BY <4>2, <4>3, <4>4, <4>5, SavedRevisionType
    <3>2. CASE ~op.attach
      <4>1. session' = [session EXCEPT !.savedRevision = session.document,
                                       !.persisted = TRUE, !.durability = "clean"]
        BY <1>1, <1>3, <3>2 DEF ConfirmSaved, Session
      <4>2. session.document \in Documents /\ "clean" \in Durability
        BY <1>1 DEF Session, Durability
      <4> QED BY <1>1, <4>1, <4>2 DEF Session
    <3> QED BY <3>1, <3>2
  <2>2. op' \in SaveOp /\ confirmed' \in Fingerprint
    BY <1>1, <1>3 DEF ConfirmSaved, Session, SaveOp, Fingerprint
  <2> QED BY <1>1, <1>3, <2>1, <2>2, NullRecordsAssumption DEF ConfirmSaved, TypeOK, Alive, disk
<1> QED BY <1>2, <1>3

LEMMA RotatedTypes ==
    ASSUME TypeOK, Alive, session # NoSession, op # NoOp, NEW after \in Recovery, NEW next \in SaveOp,
           Rotated(after, next), UNCHANGED <<files, past>>
    PROVE  TypeOK' /\ Alive'
<1>1. session \in Session /\ recovery \in Recovery
  BY OpenSession
<1>2. session' \in Session
  BY <1>1 DEF Rotated, Session, Durability
<1>3. recovery' \in Recovery /\ op' \in SaveOp \cup {NoOp}
  BY <1>1 DEF Rotated
<1> QED BY <1>2, <1>3, NullRecordsAssumption DEF TypeOK, Alive, past

LEMMA ResetJournalTypes ==
    ASSUME TypeOK, Alive, ResetJournal
    PROVE  TypeOK' /\ Alive'
<1>1. session \in Session /\ recovery \in Recovery /\ session # NoSession
  BY OpenSession DEF ResetJournal, Saving
<1>2. EmptyJournal \in Recovery
  <2>1. session.document \in Documents /\ <<>> \in Seq(Record)
    BY <1>1, EmptySeq DEF Session
  <2> QED BY <1>1, <2>1 DEF EmptyJournal, Recovery
<1>3. session' \in Session
  BY <1>1 DEF ResetJournal, Session, Durability
<1>4. recovery' \in Recovery
  BY <1>1, <1>2 DEF ResetJournal
<1>5. attempted' \in Fingerprint
  BY DEF ResetJournal, TypeOK, Fingerprint
<1> QED BY <1>3, <1>4, <1>5, NullRecordsAssumption DEF ResetJournal, TypeOK, Alive

LEMMA MarkDetachedTypes ==
    ASSUME TypeOK, Alive, MarkDetachedSaveUnconfirmed
    PROVE  TypeOK' /\ Alive' /\ recovery' \in Recovery
<1>1. session \in Session /\ recovery \in Recovery /\ session # NoSession
  BY OpenSession DEF MarkDetachedSaveUnconfirmed, Idle
<1>2. session' \in Session
  BY <1>1 DEF MarkDetachedSaveUnconfirmed, Session, Durability, Fingerprint
<1>3. recovery' \in Recovery
  <2>1. RecoveryMetadata(session') \in Metadata
    BY <1>2 DEF RecoveryMetadata, Metadata, Session
  <2> QED BY <1>1, <2>1 DEF MarkDetachedSaveUnconfirmed, Recovery
<1> QED BY <1>1, <1>2, <1>3, NullRecordsAssumption DEF MarkDetachedSaveUnconfirmed, Idle, TypeOK, Alive, past

LEMMA CrashTypes ==
    ASSUME TypeOK, Alive, Crash
    PROVE  TypeOK' /\ Alive'
<1>1. recovery \in Recovery
  BY OpenSession DEF Crash
<1>2. recovery' \in Recovery
  <2>1. CASE UNCHANGED recovery
    BY <1>1, <2>1
  <2>2. CASE Appending("opened") /\ recovery' = [recovery EXCEPT !.torn = TRUE]
    BY <1>1, <2>2 DEF Recovery
  <2>3. ASSUME NEW torn \in BOOLEAN,
               recovery' = [recovery EXCEPT !.records = Front(@), !.torn = torn]
        PROVE  recovery' \in Recovery
    <3>1. recovery.records \in Seq(Record)
      BY <1>1 DEF Recovery
    <3>2. Front(recovery.records) \in Seq(Record)
      BY <3>1 DEF Front
    <3> QED BY <1>1, <2>3, <3>2 DEF Recovery
  <2> QED BY <2>1, <2>2, <2>3 DEF Crash
<1> QED BY <1>2, NullRecordsAssumption DEF Crash, TypeOK, Alive, past

LEMMA RecoverTypes ==
    ASSUME TypeOK, Alive, RecoverMainOnly
    PROVE  TypeOK' /\ Alive'
<1>1. recovery \in Recovery
  BY DEF RecoverMainOnly, TypeOK
<1>2. recovery.records \in Seq(Record) /\ recovery.meta \in Metadata
  BY <1>1 DEF Recovery
<1>3. Replayed \in Documents
  <2>1. ASSUME recovery.records # <<>>
        PROVE  Last(recovery.records) \in Record
    BY <1>2, <2>1, LastOfSequence
  <2> QED BY <1>1, <2>1 DEF Replayed, Recovery, Record
<1>4. session' \in Session
  <2>1. Len(recovery.records) \in Nat
    BY <1>2
  <2>2. /\ recovery.meta.persisted \in BOOLEAN /\ recovery.meta.target \in Paths \cup {NoPath}
        /\ recovery.meta.fingerprint \in Fingerprint
        /\ recovery.meta.savedRevision \in Documents
    BY <1>2 DEF Metadata
  <2> QED BY <1>3, <2>1, <2>2, NewStateType DEF RecoverMainOnly, Durability
<1>5. recovery' \in Recovery
  BY <1>1 DEF RecoverMainOnly, Recovery
<1> QED BY <1>3, <1>4, <1>5, NullRecordsAssumption DEF RecoverMainOnly, TypeOK, Alive, Fingerprint

\* One step keeps the types and the operation in progress meaningful.
LEMMA TypesStep ==
    ASSUME TypeOK, Alive, Restores, [Next]_vars
    PROVE  TypeOK' /\ Alive' /\ Restores'
<1> USE DEF Restores
<1>1. ASSUME NEW d \in Documents, NEW t \in Paths \cup {NoPath}, CreateMainOnly(d, t)
      PROVE  TypeOK' /\ Alive' /\ Restores'
  <2>1. session' \in Session
    BY <1>1, NewStateType DEF CreateMainOnly, Fingerprint, Durability
  <2>2. recovery' \in Recovery
    BY <1>1, <2>1, FreshRecoveryType DEF CreateMainOnly
  <2> QED BY <1>1, <2>1, <2>2, NullRecordsAssumption
          DEF CreateMainOnly, TypeOK, Alive, Fingerprint
<1>2. ASSUME NEW p \in Paths, OpenMainOnly(p)
      PROVE  TypeOK' /\ Alive' /\ Restores'
  <2>1. files[p] \in Documents
    BY <1>2 DEF OpenMainOnly, TypeOK, Fingerprint
  <2>2. session' \in Session
    BY <1>2, <2>1, NewStateType DEF OpenMainOnly, Fingerprint, Durability
  <2>3. recovery' \in Recovery
    BY <1>2, <2>2, FreshRecoveryType DEF OpenMainOnly
  <2> QED BY <1>2, <2>1, <2>2, <2>3, NullRecordsAssumption
          DEF OpenMainOnly, TypeOK, Alive, Fingerprint
<1>3. ASSUME NEW d \in Documents, NEW g \in Groups \cup {NoGroup}, Execute(d, g)
      PROVE  TypeOK' /\ Alive' /\ Restores'
  BY <1>3, BeginAppendTypes DEF Execute, BeginAppend
<1>4. CASE Undo /\ Idle
  <2>1. session.undo # <<>> /\ session.undo \in Seq(Entry)
    BY <1>4, OpenSession DEF Undo, Idle, Session
  <2>2. Last(session.undo).before \in Documents
    <3>1. Last(session.undo) \in Entry
      BY <2>1, LastOfSequence
    <3> QED BY <3>1 DEF Entry
  <2> QED BY <1>4, <2>1, <2>2, BeginAppendTypes DEF Undo, BeginAppend
<1>5. CASE Redo /\ Idle
  <2>1. session.redo # <<>> /\ session.redo \in Seq(Entry)
    BY <1>5, OpenSession DEF Redo, Idle, Session
  <2>2. Last(session.redo).after \in Documents
    <3>1. Last(session.redo) \in Entry
      BY <2>1, LastOfSequence
    <3> QED BY <3>1 DEF Entry
  <2> QED BY <1>5, <2>1, <2>2, BeginAppendTypes DEF Redo, BeginAppend
<1>6. ASSUME SaveFails, session # NoSession
      PROVE  TypeOK' /\ Alive' /\ Restores'
  BY <1>6, SaveFailsTypes DEF SaveFails
<1>7. ASSUME NEW p \in Paths, NEW expected \in Fingerprint, NEW attach \in BOOLEAN,
             NEW plain \in BOOLEAN, BeginSave(p, expected, attach, plain)
      PROVE  TypeOK' /\ Alive' /\ Restores'
  BY <1>7, BeginSaveTypes DEF BeginSave
<1>8. CASE Save
  <2>1. session.target \in Paths /\ session.fingerprint \in Fingerprint /\ session # NoSession
    BY <1>8, OpenSession DEF Save, Idle, Session
  <2> QED BY <1>6, <1>7, <1>8, <2>1 DEF Save, SaveLocked
<1>9. ASSUME NEW p \in Paths, NEW d \in Fingerprint, NEW attach \in BOOLEAN, SaveAs(p, d, attach)
      PROVE  TypeOK' /\ Alive' /\ Restores'
  BY <1>6, <1>7, <1>9 DEF SaveAs, SaveLocked, Idle
<1>10. CASE MarkDetachedSaveUnconfirmed
  BY <1>10, MarkDetachedTypes DEF MarkDetachedSaveUnconfirmed, Idle
<1>11. ASSUME NEW discard \in BOOLEAN, NEW preserve \in BOOLEAN, Close(discard, preserve)
       PROVE  TypeOK' /\ Alive' /\ Restores'
  BY <1>11 DEF Close, Idle, TypeOK, Alive, past
<1>12. CASE WriteFrame
  <2>1. op \in AppendOp
    BY <1>12, OpenSession DEF WriteFrame
  <2>2. op' = [op EXCEPT !.stage = "written"] /\ session' = session /\ op # NoOp
    BY <1>12 DEF WriteFrame, Appending
  <2> QED BY <1>12, <2>1, <2>2, WriteFrameTypes DEF AppendOp
<1>13. CASE AppendFails
  BY <1>13, AppendFailsTypes DEF AppendFails
<1>14. CASE Acknowledge
  BY <1>14, AcknowledgeTypes DEF Acknowledge
<1>15. CASE CheckTarget
  <2>1. op \in SaveOp /\ session # NoSession
    BY <1>15, OpenSession DEF CheckTarget, Saving
  <2>2. CASE SaveFails
    BY <1>6, <2>1, <2>2
  <2>3. CASE op' = [op EXCEPT !.stage = "checked"] /\ UNCHANGED <<disk, session, past>>
    <3>1. op' \in SaveOp /\ op'.kind = "save"
      BY <2>1, <2>3 DEF SaveOp
    <3> QED BY <2>1, <2>3, <3>1 DEF TypeOK, Alive, disk, past
  <2> QED BY <1>15, <2>2, <2>3 DEF CheckTarget
<1>16. CASE SaveStepFails
  BY <1>6, <1>16, OpenSession DEF SaveStepFails, Saving
<1>17. CASE RenameOverTarget
  <2>1. op \in SaveOp /\ session \in Session /\ session # NoSession
    BY <1>17, OpenSession DEF RenameOverTarget, Saving
  <2>2. op' \in SaveOp /\ op'.kind = "save"
    BY <1>17, <2>1 DEF RenameOverTarget, SaveOp
  <2>3. files' \in [Paths -> Fingerprint]
    BY <1>17, <2>1 DEF RenameOverTarget, TypeOK, Session, SaveOp, Fingerprint
  <2> QED BY <1>17, <2>1, <2>2, <2>3 DEF RenameOverTarget, TypeOK, Alive, past
<1>18. CASE ConfirmSaved
  <2>1. op \in SaveOp
    BY <1>18, OpenSession DEF ConfirmSaved
  <2>2. op' = NoOp \/ op'.kind = "save"
    BY <1>18, <2>1 DEF ConfirmSaved, SaveFails, SaveOp
  <2> QED BY <1>18, <2>2, ConfirmSavedTypes
<1>19. CASE WriteBase
  <2>1. op \in SaveOp /\ session \in Session /\ recovery \in Recovery /\ session # NoSession /\ op # NoOp
    BY <1>19, OpenSession DEF WriteBase, Saving
  <2>2. [recovery EXCEPT !.base = session.document] \in Recovery
    BY <2>1 DEF Recovery, Session
  <2>3. [op EXCEPT !.stage = "metadata"] \in SaveOp /\ [op EXCEPT !.stage = "metadata"].kind = "save"
    BY <2>1 DEF SaveOp
  <2>4. TypeOK' /\ Alive'
    BY <1>19, <2>1, <2>2, <2>3, RotatedTypes DEF WriteBase
  <2> QED BY <1>19, <2>3, <2>4 DEF WriteBase, Rotated
<1>20. CASE WriteMetadata
  <2>1. op \in SaveOp /\ session \in Session /\ recovery \in Recovery /\ session # NoSession /\ op # NoOp
    BY <1>20, OpenSession DEF WriteMetadata, Saving
  <2>2. RecoveryMetadata(session) \in Metadata
    BY <2>1 DEF RecoveryMetadata, Metadata, Session
  <2>3. [recovery EXCEPT !.meta = RecoveryMetadata(session)] \in Recovery
    BY <2>1, <2>2 DEF Recovery
  <2>4. [op EXCEPT !.stage = "journal"] \in SaveOp /\ [op EXCEPT !.stage = "journal"].kind = "save"
    BY <2>1 DEF SaveOp
  <2>5. TypeOK' /\ Alive'
    BY <1>20, <2>1, <2>3, <2>4, RotatedTypes DEF WriteMetadata
  <2> QED BY <1>20, <2>4, <2>5 DEF WriteMetadata, Rotated
<1>21. CASE ResetJournal
  BY <1>21, ResetJournalTypes DEF ResetJournal
<1>22. CASE Crash
  BY <1>22, CrashTypes DEF Crash
<1>23. CASE RecoverMainOnly
  <2>1. op = NoOp
    BY <1>23 DEF RecoverMainOnly, Alive
  <2> QED BY <1>23, <2>1, RecoverTypes DEF RecoverMainOnly
<1>24. ASSUME NEW p \in Paths, NEW d \in Fingerprint, ExternalWrite(p, d)
       PROVE  TypeOK' /\ Alive' /\ Restores'
  <2>1. CASE op' = op
    BY <1>24, <2>1 DEF ExternalWrite, TypeOK, Alive, past
  <2>2. CASE Saving("checked") /\ op' = [op EXCEPT !.raced = TRUE]
    <3>1. op \in SaveOp /\ session # NoSession
      BY <2>2, OpenSession DEF Saving
    <3>2. op' \in SaveOp /\ op'.kind = "save"
      BY <2>2, <3>1 DEF SaveOp
    <3> QED BY <1>24, <3>1, <3>2 DEF ExternalWrite, TypeOK, Alive, past
  <2> QED BY <1>24, <2>1, <2>2 DEF ExternalWrite
<1>25. CASE UNCHANGED vars
  BY <1>25 DEF vars, disk, past, TypeOK, Alive
<1> QED BY <1>1, <1>2, <1>3, <1>4, <1>5, <1>8, <1>9, <1>10, <1>11, <1>12, <1>13, <1>14,
           <1>15, <1>16, <1>17, <1>18, <1>19, <1>20, <1>21, <1>22, <1>23, <1>24, <1>25 DEF Next

LEMMA TypesInitially == Init => TypeOK /\ Alive /\ Restores
<1> SUFFICES ASSUME Init PROVE TypeOK /\ Alive /\ Restores
  OBVIOUS
<1> QED BY DEF Init, TypeOK, Alive, Restores, Fingerprint

LEMMA Types == Spec => [](TypeOK /\ Alive /\ Restores)
<1>1. (TypeOK /\ Alive /\ Restores) /\ [Next]_vars => (TypeOK /\ Alive /\ Restores)'
  BY TypesStep
<1> QED BY <1>1, TypesInitially, PTL DEF Spec

\* Every reachable state of the session and its recovery files is well typed.
THEOREM Typing == Spec => []TypeOK
BY Types, PTL
-----------------------------------------------------------------------------
(* The journal.                                                            *)

LEMMA ChainAppend ==
    ASSUME NEW header \in Documents, NEW records \in Seq(Record), NEW record \in Record,
           Chained(header, records), record.previous = ChainEnd(header, records)
    PROVE  /\ Chained(header, Append(records, record))
           /\ Last(Append(records, record)) = record
           /\ Append(records, record) # <<>>
           /\ ChainEnd(header, Append(records, record)) = record.revision
<1> DEFINE longer == Append(records, record)
<1>1. /\ longer \in Seq(Record) /\ longer # <<>> /\ Len(longer) = Len(records) + 1
      /\ \A i \in 1..Len(records) : longer[i] = records[i]
      /\ longer[Len(records) + 1] = record
  BY AppendProperties
<1>2. Len(records) \in Nat /\ DOMAIN records = 1..Len(records) /\ DOMAIN longer = 1..(Len(records) + 1)
  BY <1>1, LenProperties
<1>3. records = <<>> <=> Len(records) = 0
  BY EmptySeq
<1> HIDE DEF longer
<1>4. Last(longer) = record /\ ChainEnd(header, longer) = record.revision
  BY <1>1 DEF Last, ChainEnd
<1>5. ASSUME NEW i \in 1..(Len(records) + 1)
      PROVE  longer[i].previous = IF i = 1 THEN header ELSE longer[i - 1].revision
  <2>1. CASE i \in 1..Len(records)
    BY <1>1, <1>2, <2>1 DEF Chained
  <2>2. CASE i = Len(records) + 1
    <3>1. CASE Len(records) = 0
      BY <1>1, <1>3, <2>2, <3>1 DEF ChainEnd
    <3>2. CASE Len(records) # 0
      BY <1>1, <1>2, <1>3, <2>2, <3>2 DEF ChainEnd, Last
    <3> QED BY <3>1, <3>2
  <2> QED BY <1>2, <2>1, <2>2
<1> QED BY <1>1, <1>2, <1>4, <1>5 DEF Chained, longer

LEMMA ChainFront ==
    ASSUME NEW header, NEW records \in Seq(Record), records # <<>>, Chained(header, records)
    PROVE  /\ Chained(header, Front(records))
           /\ ChainEnd(header, Front(records)) = Last(records).previous
<1>1. /\ Front(records) \in Seq(Record) /\ Len(Front(records)) = Len(records) - 1
      /\ \A i \in 1..(Len(records) - 1) : Front(records)[i] = records[i]
  BY FrontOfSequence
<1>2. /\ Len(records) \in Nat \ {0} /\ DOMAIN records = 1..Len(records)
      /\ DOMAIN Front(records) = 1..(Len(records) - 1)
      /\ Last(records) = records[Len(records)]
  BY <1>1, LenProperties, EmptySeq, LastOfSequence
<1>3. Chained(header, Front(records))
  BY <1>1, <1>2 DEF Chained
<1>4. Front(records) = <<>> <=> Len(records) = 1
  BY <1>1, <1>2, EmptySeq
<1>5. Last(Front(records)) = Front(records)[Len(records) - 1]
  BY <1>1 DEF Last
<1>6. Last(records).previous = IF Len(records) = 1 THEN header ELSE records[Len(records) - 1].revision
  BY <1>2 DEF Chained
<1> QED BY <1>1, <1>2, <1>3, <1>4, <1>5, <1>6 DEF ChainEnd

\* A step that leaves the journal, the document and the operation alone.
LEMMA JournalFrame ==
    ASSUME JournalChains, JournalPosition,
           recovery' # NoRecovery => /\ recovery # NoRecovery
                                     /\ recovery'.header = recovery.header
                                     /\ recovery'.records = recovery.records,
           session' # NoSession => /\ session # NoSession /\ recovery' # NoRecovery
                                   /\ session'.document = session.document
                                   /\ session'.journalSequence = session.journalSequence,
           op' # NoOp /\ op'.kind = "append" => op' = op,
           UNCHANGED <<acked, attempted>>
    PROVE  JournalChains' /\ JournalPosition'
<1>1. JournalChains'
  BY DEF JournalChains, JournalEnd
<1>2. JournalPosition'
  BY DEF JournalPosition, JournalEnd, Appending
<1> QED BY <1>1, <1>2

\* The journal of a new session, and one begun anew, stand at its document.
LEMMA EmptyChain ==
    ASSUME NEW header
    PROVE  Chained(header, <<>>) /\ ChainEnd(header, <<>>) = header
BY DEF Chained, ChainEnd

LEMMA SaveFailsJournal ==
    ASSUME TypeOK, Alive, JournalChains, JournalPosition, session # NoSession, SaveFails
    PROVE  JournalChains' /\ JournalPosition'
<1>1. session \in Session /\ recovery # NoRecovery
  BY OpenSession DEF Alive
<1> QED BY <1>1, JournalFrame DEF SaveFails, Session, disk, past

LEMMA BeginAppendJournal ==
    ASSUME TypeOK, Alive, JournalChains, JournalPosition, NEW cause, NEW result, NEW group,
           BeginAppend(cause, result, group)
    PROVE  JournalChains' /\ JournalPosition'
BY DEF BeginAppend, Idle, Appendable, JournalChains, JournalPosition, JournalEnd, Appending, disk, past

LEMMA BeginSaveJournal ==
    ASSUME TypeOK, Alive, JournalChains, JournalPosition, NEW path, NEW expected, NEW attach,
           NEW plain, BeginSave(path, expected, attach, plain)
    PROVE  JournalChains' /\ JournalPosition'
<1>1. session \in Session /\ session # NoSession /\ recovery # NoRecovery
  BY OpenSession DEF BeginSave, Idle, Alive
<1> QED BY <1>1, JournalFrame DEF BeginSave, Session, disk, past

LEMMA WriteFrameJournal ==
    ASSUME TypeOK, Alive, JournalChains, JournalPosition, WriteFrame
    PROVE  JournalChains' /\ JournalPosition'
<1> DEFINE record == [previous |-> session.document, revision |-> op.result]
           longer == Append(recovery.records, record)
<1>1. /\ op \in AppendOp /\ session \in Session /\ recovery \in Recovery
      /\ op # NoOp /\ session # NoSession /\ recovery # NoRecovery
  BY OpenSession DEF WriteFrame, Appending, Alive
<1>2. /\ Chained(recovery.header, recovery.records)
      /\ Len(recovery.records) = session.journalSequence
      /\ session.document = acked /\ JournalEnd = acked
  BY <1>1 DEF JournalChains, JournalPosition, WriteFrame, Session
<1>3. record \in Record /\ recovery.header \in Documents /\ recovery.records \in Seq(Record)
  BY <1>1 DEF Record, Session, AppendOp, Recovery
<1>4. /\ Chained(recovery.header, longer) /\ Last(longer) = record
      /\ ChainEnd(recovery.header, longer) = op.result
      /\ Len(longer) = session.journalSequence + 1
  BY <1>2, <1>3, ChainAppend, AppendProperties DEF JournalEnd
<1>5. recovery'.header = recovery.header /\ recovery'.records = longer
  BY <1>1 DEF WriteFrame, Recovery
<1>6. attempted' = op.result /\ op'.result = op.result /\ op'.stage = "written"
  BY <1>1 DEF WriteFrame, AppendOp
<1> HIDE DEF longer
<1>7. JournalChains'
  BY <1>4, <1>5, <1>6 DEF JournalChains, JournalEnd
<1>8. JournalPosition'
  BY <1>2, <1>4, <1>5, <1>6 DEF JournalPosition, JournalEnd, Appending, WriteFrame
<1> QED BY <1>7, <1>8

LEMMA AcknowledgeJournal ==
    ASSUME TypeOK, Alive, JournalChains, JournalPosition, Acknowledge
    PROVE  JournalChains' /\ JournalPosition'
<1>1. /\ op \in AppendOp /\ session \in Session /\ recovery \in Recovery
      /\ op # NoOp /\ session # NoSession /\ recovery # NoRecovery
  BY OpenSession DEF Acknowledge, Appending, Alive
<1>2. /\ Len(recovery.records) = session.journalSequence + 1
      /\ Last(recovery.records).revision = op.result
  BY <1>1 DEF JournalPosition, Acknowledge, AcknowledgeStage
<1>3. recovery.records # <<>>
  <2>1. session.journalSequence \in Nat
    BY <1>1 DEF Session
  <2> QED BY <1>2, <2>1, EmptySeq
<1>4. JournalEnd = op.result
  BY <1>2, <1>3 DEF JournalEnd, ChainEnd
<1>5. session'.document = op.result /\ session'.journalSequence = Len(recovery.records)
  BY <1>1, <1>2 DEF Acknowledge, Session
<1> QED BY <1>1, <1>4, <1>5 DEF Acknowledge, JournalChains, JournalPosition, JournalEnd, Appending, disk

\* A step of the rotation that replaces the base or the metadata.
LEMMA RotatedJournal ==
    ASSUME TypeOK, Alive, JournalChains, JournalPosition, session # NoSession,
           NEW after, NEW next, next.kind = "save", after # NoRecovery,
           after.header = recovery.header, after.records = recovery.records,
           Rotated(after, next), UNCHANGED past
    PROVE  JournalChains' /\ JournalPosition'
<1>1. session \in Session /\ recovery # NoRecovery
  BY OpenSession DEF Alive
<1>2. session'.document = session.document /\ session'.journalSequence = session.journalSequence
  BY <1>1 DEF Rotated, Session
<1> QED BY <1>1, <1>2, JournalFrame DEF Rotated, past

LEMMA ResetJournalJournal ==
    ASSUME TypeOK, Alive, JournalChains, JournalPosition, ResetJournal
    PROVE  JournalChains' /\ JournalPosition'
<1>1. /\ session \in Session /\ recovery \in Recovery /\ session # NoSession /\ recovery # NoRecovery
      /\ session.document = acked
  BY OpenSession DEF ResetJournal, Saving, Alive, JournalPosition
<1>2. /\ EmptyJournal.header = acked /\ EmptyJournal.records = <<>>
      /\ Chained(acked, <<>>) /\ ChainEnd(acked, <<>>) = acked
  BY <1>1, EmptyChain DEF EmptyJournal, Recovery
<1>3. session'.document = acked /\ acked' = acked /\ op' = NoOp
  BY <1>1 DEF ResetJournal, Session
<1>4. CASE recovery' = EmptyJournal
  BY <1>2, <1>3, <1>4 DEF JournalChains, JournalPosition, JournalEnd, Appending
<1>5. CASE recovery' = recovery /\ recovery' # EmptyJournal
  <2>1. session'.journalSequence = session.journalSequence /\ attempted' = attempted
    BY <1>1, <1>5 DEF ResetJournal, Session
  <2> QED BY <1>1, <1>3, <1>5, <2>1, JournalFrame
<1> QED BY <1>4, <1>5 DEF ResetJournal

\* Nothing of the journal is lost but an unacknowledged record.
LEMMA CrashJournal ==
    ASSUME TypeOK, Alive, JournalChains, JournalPosition, Crash
    PROVE  JournalChains' /\ JournalPosition'
<1>1. /\ recovery \in Recovery /\ recovery # NoRecovery
      /\ session # NoSession /\ session' = NoSession /\ session \in Session
      /\ acked' = acked /\ attempted' = attempted
  BY OpenSession DEF Crash, Alive, past
<1>2. JournalPosition'
  BY <1>1 DEF JournalPosition
<1>3. CASE UNCHANGED recovery
  BY <1>1, <1>2, <1>3 DEF JournalChains, JournalEnd
<1>4. CASE recovery' = [recovery EXCEPT !.torn = TRUE]
  BY <1>1, <1>2, <1>4 DEF JournalChains, JournalEnd, Recovery
<1>5. ASSUME NEW torn \in BOOLEAN, Appending("written"),
             recovery' = [recovery EXCEPT !.records = Front(@), !.torn = torn]
      PROVE  JournalChains'
  <2>1. /\ recovery.records \in Seq(Record) /\ Chained(recovery.header, recovery.records)
        /\ session.journalSequence \in Nat
    BY <1>1 DEF Recovery, JournalChains, Session
  <2>2. /\ Len(recovery.records) = session.journalSequence + 1
        /\ Last(recovery.records).previous = acked
    BY <1>1, <1>5 DEF JournalPosition
  <2>3. recovery.records # <<>>
    BY <2>1, <2>2, EmptySeq
  <2>4. /\ Chained(recovery.header, Front(recovery.records))
        /\ ChainEnd(recovery.header, Front(recovery.records)) = acked
    BY <2>1, <2>2, <2>3, ChainFront
  <2>5. recovery'.header = recovery.header /\ recovery'.records = Front(recovery.records)
    BY <1>1, <1>5 DEF Recovery
  <2> QED BY <1>1, <2>4, <2>5 DEF JournalChains, JournalEnd
<1> QED BY <1>2, <1>3, <1>4, <1>5 DEF Crash

LEMMA RecoverJournal ==
    ASSUME TypeOK, Alive, JournalChains, JournalPosition, RecoverMainOnly
    PROVE  JournalChains' /\ JournalPosition'
<1>1. /\ recovery \in Recovery /\ recovery # NoRecovery /\ op = NoOp /\ op' = op
      /\ recovery.header = recovery.base /\ Chained(recovery.header, recovery.records)
  BY DEF RecoverMainOnly, TypeOK, Alive, Recoverable
<1>2. recovery'.header = recovery.header /\ recovery'.records = recovery.records
  BY <1>1 DEF RecoverMainOnly, Recovery
<1>3. JournalEnd = Replayed
  BY <1>1 DEF JournalEnd, ChainEnd, Replayed
<1>4. session'.document = Replayed /\ session'.journalSequence = Len(recovery.records)
  BY DEF RecoverMainOnly, NewState
<1>5. acked' = Replayed
  BY DEF RecoverMainOnly
<1> QED BY <1>1, <1>2, <1>3, <1>4, <1>5 DEF JournalChains, JournalPosition, JournalEnd, Appending

LEMMA NewSessionJournal ==
    ASSUME NEW s, session' = s, recovery' = FreshRecovery(s), acked' = s.document, UNCHANGED op,
           op = NoOp
    PROVE  JournalChains' /\ JournalPosition'
<1>1. /\ recovery'.header = s.document /\ recovery'.records = <<>>
      /\ Chained(s.document, <<>>) /\ ChainEnd(s.document, <<>>) = s.document
  BY EmptyChain DEF FreshRecovery
<1> QED BY <1>1 DEF JournalChains, JournalPosition, JournalEnd, Appending

LEMMA JournalStep ==
    ASSUME TypeOK, Alive, JournalChains, JournalPosition, [Next]_vars
    PROVE  JournalChains' /\ JournalPosition'
<1>1. ASSUME NEW d \in Documents, NEW t \in Paths \cup {NoPath}, CreateMainOnly(d, t)
      PROVE  JournalChains' /\ JournalPosition'
  BY <1>1, NewSessionJournal DEF CreateMainOnly, NewState, Alive
<1>2. ASSUME NEW p \in Paths, OpenMainOnly(p)
      PROVE  JournalChains' /\ JournalPosition'
  BY <1>2, NewSessionJournal DEF OpenMainOnly, NewState, Alive
<1>3. ASSUME NEW d \in Documents, NEW g \in Groups \cup {NoGroup}, Execute(d, g)
      PROVE  JournalChains' /\ JournalPosition'
  BY <1>3, BeginAppendJournal DEF Execute
<1>4. CASE Undo \/ Redo
  BY <1>4, BeginAppendJournal DEF Undo, Redo
<1>5. CASE Save
  BY <1>5, BeginSaveJournal, SaveFailsJournal DEF Save, SaveLocked, Idle
<1>6. ASSUME NEW p \in Paths, NEW d \in Fingerprint, NEW attach \in BOOLEAN, SaveAs(p, d, attach)
      PROVE  JournalChains' /\ JournalPosition'
  BY <1>6, BeginSaveJournal, SaveFailsJournal DEF SaveAs, SaveLocked, Idle
<1>7. CASE MarkDetachedSaveUnconfirmed
  <2>1. session \in Session /\ recovery \in Recovery /\ session # NoSession /\ recovery # NoRecovery
    BY <1>7, OpenSession DEF MarkDetachedSaveUnconfirmed, Idle, Alive
  <2>2. session'.document = session.document /\ session'.journalSequence = session.journalSequence
    BY <1>7, <2>1 DEF MarkDetachedSaveUnconfirmed, Session
  <2>3. recovery'.header = recovery.header /\ recovery'.records = recovery.records
    BY <1>7, <2>1 DEF MarkDetachedSaveUnconfirmed, Recovery
  <2>4. recovery' # NoRecovery
    BY <1>7, MarkDetachedTypes, NullRecordsAssumption
  <2> QED BY <1>7, <2>1, <2>2, <2>3, <2>4, JournalFrame DEF MarkDetachedSaveUnconfirmed, past
<1>8. ASSUME NEW discard \in BOOLEAN, NEW preserve \in BOOLEAN, Close(discard, preserve)
      PROVE  JournalChains' /\ JournalPosition'
  <2>1. session # NoSession /\ recovery # NoRecovery /\ op = NoOp
    BY <1>8 DEF Close, Idle, Alive
  <2> QED BY <1>8, <2>1, JournalFrame DEF Close, past
<1>9. CASE WriteFrame
  BY <1>9, WriteFrameJournal
<1>10. CASE AppendFails
  <2>1. recovery \in Recovery /\ recovery # NoRecovery /\ session # NoSession
    BY <1>10, OpenSession DEF AppendFails, Appending, Alive
  <2>2. recovery'.header = recovery.header /\ recovery'.records = recovery.records
    BY <1>10, <2>1 DEF AppendFails, Recovery
  <2>3. recovery' # NoRecovery
    BY <1>10, <2>1, AppendFailsTypes DEF AppendFails, Alive
  <2> QED BY <1>10, <2>1, <2>2, <2>3, JournalFrame DEF AppendFails, past
<1>11. CASE Acknowledge
  BY <1>11, AcknowledgeJournal
<1>12. CASE CheckTarget \/ RenameOverTarget
  <2>1. op \in SaveOp /\ session # NoSession /\ recovery # NoRecovery
    BY <1>12, OpenSession DEF CheckTarget, RenameOverTarget, Saving, Alive
  <2>2. CASE SaveFails
    BY <2>1, <2>2, SaveFailsJournal
  <2>3. CASE \E stage : op' = [op EXCEPT !.stage = stage] /\ UNCHANGED <<recovery, session, past>>
    BY <2>1, <2>3, JournalFrame DEF SaveOp, past
  <2> QED BY <1>12, <2>2, <2>3 DEF CheckTarget, RenameOverTarget, disk
<1>13. CASE SaveStepFails
  BY <1>13, OpenSession, SaveFailsJournal DEF SaveStepFails, Saving
<1>14. CASE ConfirmSaved
  <2>1. op \in SaveOp /\ session \in Session /\ session # NoSession /\ recovery # NoRecovery
    BY <1>14, OpenSession DEF ConfirmSaved, Saving, Alive
  <2>2. CASE SaveFails
    BY <2>1, <2>2, SaveFailsJournal
  <2>3. CASE ~SaveFails
    <3>1. op'.kind = "save" /\ session'.document = session.document
          /\ session'.journalSequence = session.journalSequence
      BY <1>14, <2>1, <2>3 DEF ConfirmSaved, SaveOp, Session
    <3> QED BY <1>14, <2>1, <2>3, <3>1, JournalFrame DEF ConfirmSaved, disk
  <2> QED BY <2>2, <2>3
<1>15. CASE WriteBase
  <2>1. op \in SaveOp /\ session \in Session /\ recovery \in Recovery /\ session # NoSession
    BY <1>15, OpenSession DEF WriteBase, Saving
  <2>2. [recovery EXCEPT !.base = session.document] \in Recovery
    BY <2>1 DEF Recovery, Session
  <2>3. [recovery EXCEPT !.base = session.document] # NoRecovery
    BY <2>2, NullRecordsAssumption
  <2>4. [op EXCEPT !.stage = "metadata"].kind = "save"
    BY <2>1 DEF SaveOp
  <2> QED BY <1>15, <2>1, <2>3, <2>4, RotatedJournal DEF WriteBase, Recovery
<1>16. CASE WriteMetadata
  <2>1. op \in SaveOp /\ session \in Session /\ recovery \in Recovery /\ session # NoSession
    BY <1>16, OpenSession DEF WriteMetadata, Saving
  <2>2. RecoveryMetadata(session) \in Metadata
    BY <2>1 DEF RecoveryMetadata, Metadata, Session
  <2>3. [recovery EXCEPT !.meta = RecoveryMetadata(session)] \in Recovery
    BY <2>1, <2>2 DEF Recovery
  <2>4. [recovery EXCEPT !.meta = RecoveryMetadata(session)] # NoRecovery
    BY <2>3, NullRecordsAssumption
  <2>5. [op EXCEPT !.stage = "journal"].kind = "save"
    BY <2>1 DEF SaveOp
  <2> QED BY <1>16, <2>1, <2>4, <2>5, RotatedJournal DEF WriteMetadata, Recovery
<1>17. CASE ResetJournal
  BY <1>17, ResetJournalJournal
<1>18. CASE Crash
  BY <1>18, CrashJournal
<1>19. CASE RecoverMainOnly
  BY <1>19, RecoverJournal
<1>20. ASSUME NEW p \in Paths, NEW d \in Fingerprint, ExternalWrite(p, d)
       PROVE  JournalChains' /\ JournalPosition'
  <2>1. op' = op \/ op'.kind = "save"
    BY <1>20, OpenSession DEF ExternalWrite, Saving, SaveOp
  <2> QED BY <1>20, <2>1, JournalFrame DEF ExternalWrite, Alive, past
<1>21. CASE UNCHANGED vars
  BY <1>21, JournalFrame DEF vars, disk, past, Alive
<1> QED BY <1>1, <1>2, <1>3, <1>4, <1>5, <1>6, <1>7, <1>8, <1>9, <1>10, <1>11, <1>12, <1>13,
           <1>14, <1>15, <1>16, <1>17, <1>18, <1>19, <1>20, <1>21 DEF Next

LEMMA Journals == Spec => [](TypeOK /\ Alive /\ JournalChains /\ JournalPosition)
<1>1. Init => JournalChains /\ JournalPosition
  BY DEF Init, JournalChains, JournalPosition
<1>2. (TypeOK /\ Alive) /\ (JournalChains /\ JournalPosition) /\ [Next]_vars
         => (JournalChains /\ JournalPosition)'
  BY JournalStep
<1> QED BY <1>1, <1>2, Types, PTL DEF Spec

\* However appends, saves, undos, failures and stops interleave, replaying the
\* journal of a base that is there gives the last acknowledged document, or that
\* and the one change that was written and not acknowledged.
THEOREM RecoveryReplaysAcknowledged == Spec => []RecoveryIsAcknowledged
<1>1. JournalChains => RecoveryIsAcknowledged
  BY DEF JournalChains, JournalEnd, ChainEnd, RecoveryIsAcknowledged, Replayed
<1> QED BY <1>1, Journals, PTL
-----------------------------------------------------------------------------
(* The rotation of a save.                                                 *)

LEMMA RotationStep ==
    ASSUME TypeOK, Alive, Rotation, [Next]_vars
    PROVE  Rotation'
<1> USE DEF Rotation
<1>1. ASSUME NEW d \in Documents, NEW t \in Paths \cup {NoPath}, CreateMainOnly(d, t)
      PROVE  Rotation'
  BY <1>1 DEF CreateMainOnly, NewState
<1>2. ASSUME NEW p \in Paths, OpenMainOnly(p)
      PROVE  Rotation'
  BY <1>2 DEF OpenMainOnly, NewState, FreshRecovery, RecoveryMetadata, Alive
<1>3. ASSUME NEW cause, NEW result, NEW group, BeginAppend(cause, result, group)
      PROVE  Rotation'
  BY <1>3 DEF BeginAppend, Idle, disk, past
<1>4. ASSUME SaveFails, session # NoSession
      PROVE  Rotation'
  <2>1. session'.durability = "save-error"
    BY <1>4, OpenSession DEF SaveFails, Session
  <2> QED BY <2>1
<1>5. ASSUME NEW path, NEW expected, NEW attach, NEW plain,
             BeginSave(path, expected, attach, plain)
      PROVE  Rotation'
  <2>1. session'.durability = "saving"
    BY <1>5, OpenSession DEF BeginSave, Idle, Session
  <2> QED BY <2>1
<1>6. CASE Save
  BY <1>4, <1>5, <1>6 DEF Save, SaveLocked, Idle
<1>7. ASSUME NEW p \in Paths, NEW d \in Fingerprint, NEW attach \in BOOLEAN, SaveAs(p, d, attach)
      PROVE  Rotation'
  BY <1>4, <1>5, <1>7 DEF SaveAs, SaveLocked, Idle
<1>8. CASE MarkDetachedSaveUnconfirmed
  <2>1. session'.durability = "save-error"
    BY <1>8, OpenSession DEF MarkDetachedSaveUnconfirmed, Idle, Session
  <2> QED BY <2>1
<1>9. ASSUME NEW discard \in BOOLEAN, NEW preserve \in BOOLEAN, Close(discard, preserve)
      PROVE  Rotation'
  BY <1>9 DEF Close
<1>10. CASE WriteFrame
  <2>1. op \in AppendOp /\ recovery \in Recovery /\ op # NoOp /\ session # NoSession
    BY <1>10, OpenSession DEF WriteFrame, Appending
  <2>2. recovery'.base = recovery.base /\ recovery'.header = recovery.header
        /\ recovery'.meta = recovery.meta /\ op'.kind = "append"
    BY <1>10, <2>1 DEF WriteFrame, Recovery, AppendOp
  <2>3. op.kind = "append" /\ session' = session /\ confirmed' = confirmed
    BY <1>10 DEF WriteFrame, Appending
  <2> QED BY <2>1, <2>2, <2>3
<1>11. CASE AppendFails
  <2>1. recovery \in Recovery /\ session # NoSession /\ op # NoOp /\ op.kind = "append"
    BY <1>11, OpenSession DEF AppendFails, Appending
  <2>2. recovery'.base = recovery.base /\ recovery'.header = recovery.header
        /\ recovery'.meta = recovery.meta
    BY <1>11, <2>1 DEF AppendFails, Recovery
  <2>3. op' = NoOp /\ session' = session /\ confirmed' = confirmed
    BY <1>11 DEF AppendFails, past
  <2> QED BY <2>1, <2>2, <2>3
<1>12. CASE Acknowledge
  <2>1. session'.durability = "journaled"
    BY <1>12, OpenSession DEF Acknowledge, Session
  <2> QED BY <2>1
<1>13. CASE CheckTarget \/ RenameOverTarget
  <2>1. op \in SaveOp /\ op # NoOp /\ session # NoSession
    BY <1>13, OpenSession DEF CheckTarget, RenameOverTarget, Saving
  <2>2. CASE op' = [op EXCEPT !.stage = "checked"] /\ UNCHANGED <<session, past>>
    <3>1. op'.kind = "save" /\ op'.stage = "checked" /\ session' = session /\ confirmed' = confirmed
      BY <2>1, <2>2 DEF SaveOp, past
    <3>2. op' # NoOp
      BY <2>1, <2>2, NullRecordsAssumption DEF SaveOp
    <3> QED BY <2>1, <3>1, <3>2
  <2>3. CASE op' = [op EXCEPT !.stage = "renamed"] /\ UNCHANGED <<session, past>>
    <3>1. op'.kind = "save" /\ op'.stage = "renamed" /\ session' = session /\ confirmed' = confirmed
      BY <2>1, <2>3 DEF SaveOp, past
    <3>2. op' # NoOp
      BY <2>1, <2>3, NullRecordsAssumption DEF SaveOp
    <3> QED BY <2>1, <3>1, <3>2
  <2> QED BY <1>4, <1>13, <2>1, <2>2, <2>3 DEF CheckTarget, RenameOverTarget, disk
<1>14. CASE SaveStepFails
  BY <1>4, <1>14, OpenSession DEF SaveStepFails, Saving
<1>15. CASE ConfirmSaved
  <2>1. op \in SaveOp /\ session \in Session /\ session # NoSession
    BY <1>15, OpenSession DEF ConfirmSaved, Saving
  <2>2. CASE ~SaveFails
    <3>1. /\ session'.document = session.document /\ session'.savedRevision = session.document
          /\ session'.persisted
      BY <1>15, <2>1, <2>2 DEF ConfirmSaved, Session
    <3>2. confirmed' = session.document
      BY <1>15, <2>2 DEF ConfirmSaved
    <3>3. op' \in SaveOp /\ op'.kind = "save" /\ op'.stage = "base"
      BY <1>15, <2>1, <2>2 DEF ConfirmSaved, SaveOp
    <3> QED BY <3>1, <3>2, <3>3, NullRecordsAssumption
  <2> QED BY <1>4, <2>1, <2>2
<1>16. CASE WriteBase
  <2>1. op \in SaveOp /\ op.stage = "base" /\ session \in Session /\ recovery \in Recovery /\ session # NoSession
    BY <1>16, OpenSession DEF WriteBase, Saving
  <2>2. CASE session'.durability = "save-error"
    BY <2>2
  <2>3. CASE recovery' = [recovery EXCEPT !.base = session.document]
             /\ op' = [op EXCEPT !.stage = "metadata"] /\ UNCHANGED session
    <3>1. recovery'.base = session.document /\ op'.kind = "save" /\ op'.stage = "metadata"
      BY <2>1, <2>3 DEF Recovery, SaveOp
    <3>2. confirmed' = confirmed /\ op' # NoOp
      BY <1>16, <2>1, <2>3, NullRecordsAssumption DEF WriteBase, past, SaveOp
    <3> QED BY <2>1, <2>3, <3>1, <3>2
  <2> QED BY <1>16, <2>1, <2>2, <2>3 DEF WriteBase, Rotated, Session
<1>17. CASE WriteMetadata
  <2>1. /\ op \in SaveOp /\ op.kind = "save" /\ op.stage = "metadata" /\ op # NoOp
        /\ session \in Session /\ recovery \in Recovery /\ session # NoSession
    BY <1>17, OpenSession DEF WriteMetadata, Saving
  <2>2. CASE session'.durability = "save-error"
    BY <2>2
  <2>3. CASE recovery' = [recovery EXCEPT !.meta = RecoveryMetadata(session)]
             /\ op' = [op EXCEPT !.stage = "journal"] /\ UNCHANGED session
    <3>1. /\ recovery'.base = recovery.base
          /\ recovery'.meta.savedRevision = session.savedRevision
          /\ recovery'.meta.persisted = session.persisted
          /\ op'.kind = "save" /\ op'.stage = "journal"
      BY <2>1, <2>3 DEF Recovery, SaveOp, RecoveryMetadata
    <3>2. confirmed' = confirmed /\ op' # NoOp
      BY <1>17, <2>1, <2>3, NullRecordsAssumption DEF WriteMetadata, past, SaveOp
    <3> QED BY <2>1, <2>3, <3>1, <3>2
  <2> QED BY <1>17, <2>1, <2>2, <2>3 DEF WriteMetadata, Rotated, Session
<1>18. CASE ResetJournal
  <2>1. /\ op \in SaveOp /\ op.kind = "save" /\ op.stage = "journal" /\ op # NoOp
        /\ session \in Session /\ recovery \in Recovery /\ session # NoSession
    BY <1>18, OpenSession DEF ResetJournal, Saving
  <2>2. CASE session'.durability = "save-error"
    BY <2>2
  <2>3. CASE recovery' = EmptyJournal /\ session' = [session EXCEPT !.journalSequence = 0]
    <3>1. recovery'.base = recovery.base /\ recovery'.header = session.document
          /\ recovery'.meta = recovery.meta
      BY <2>1, <2>3 DEF EmptyJournal, Recovery
    <3>2. /\ session'.document = session.document /\ session'.persisted = session.persisted
          /\ session'.savedRevision = session.savedRevision
          /\ session'.durability = session.durability
      BY <2>1, <2>3 DEF Session
    <3>3. confirmed' = confirmed /\ op' = NoOp
      BY <1>18 DEF ResetJournal
    <3> QED BY <2>1, <3>1, <3>2, <3>3
  <2> QED BY <1>18, <2>1, <2>2, <2>3 DEF ResetJournal, Session
<1>19. CASE Crash
  BY <1>19 DEF Crash
<1>20. CASE RecoverMainOnly
  BY <1>20 DEF RecoverMainOnly, NewState
<1>21. ASSUME NEW p \in Paths, NEW d \in Fingerprint, ExternalWrite(p, d)
       PROVE  Rotation'
  <2>1. CASE op' = op
    BY <1>21, <2>1 DEF ExternalWrite, past
  <2>2. CASE Saving("checked") /\ op' = [op EXCEPT !.raced = TRUE]
    <3>1. op \in SaveOp /\ op.stage = "checked" /\ op # NoOp
      BY <2>2, OpenSession DEF Saving
    <3>2. op' \in SaveOp /\ op'.stage = "checked" /\ op'.kind = "save"
      BY <2>2, <3>1 DEF SaveOp
    <3> QED BY <1>21, <3>1, <3>2, NullRecordsAssumption DEF ExternalWrite, past, SaveOp
  <2> QED BY <1>21, <2>1, <2>2 DEF ExternalWrite
<1>22. CASE UNCHANGED vars
  BY <1>22 DEF vars, disk, past
<1> QED BY <1>1, <1>2, <1>3, <1>6, <1>7, <1>8, <1>9, <1>10, <1>11, <1>12, <1>13, <1>14, <1>15,
           <1>16, <1>17, <1>18, <1>19, <1>20, <1>21, <1>22 DEF Next, Execute, Undo, Redo

\* A session at rest that shows itself clean has its document in its file and in
\* all its recovery files.
THEOREM CleanMeansRotated == Spec => []CleanIsRotated
<1>1. Init => Rotation
  BY DEF Init, Rotation
<1>2. (TypeOK /\ Alive /\ Restores) /\ Rotation /\ [Next]_vars => Rotation'
  BY RotationStep
<1>3. Rotation => CleanIsRotated
  BY DEF Rotation, CleanIsRotated, Idle
<1> QED BY <1>1, <1>2, <1>3, Types, PTL DEF Spec
-----------------------------------------------------------------------------
(* Undo and redo.                                                          *)

\* The stacks of changes undone and to redo, around a document.
UndoChains(undo, document) ==
    /\ \A i \in 1..(Len(undo) - 1) : undo[i].after = undo[i + 1].before
    /\ undo # <<>> => Last(undo).after = document
RedoChains(redo, document) ==
    /\ \A i \in 1..(Len(redo) - 1) : redo[i].before = redo[i + 1].after
    /\ redo # <<>> => Last(redo).before = document

LEMMA UndoAppend ==
    ASSUME NEW undo \in Seq(Entry), NEW e \in Entry, UndoChains(undo, e.before)
    PROVE  UndoChains(Append(undo, e), e.after)
<1> DEFINE longer == Append(undo, e)
<1>1. /\ longer \in Seq(Entry) /\ Len(longer) = Len(undo) + 1 /\ Len(undo) \in Nat
      /\ \A i \in 1..Len(undo) : longer[i] = undo[i]
      /\ longer[Len(undo) + 1] = e
  BY AppendProperties, LenProperties
<1> HIDE DEF longer
<1>2. Last(longer) = e
  BY <1>1 DEF Last
<1>3. ASSUME NEW i \in 1..Len(undo)
      PROVE  longer[i].after = longer[i + 1].before
  <2>1. CASE i = Len(undo)
    BY <1>1, <2>1, EmptySeq DEF UndoChains, Last
  <2>2. CASE i \in 1..(Len(undo) - 1)
    BY <1>1, <2>2 DEF UndoChains
  <2> QED BY <1>1, <2>1, <2>2
<1>4. UndoChains(longer, e.after)
  BY <1>1, <1>2, <1>3 DEF UndoChains
<1> QED BY <1>4 DEF longer

LEMMA RedoAppend ==
    ASSUME NEW redo \in Seq(Entry), NEW e \in Entry, RedoChains(redo, e.after)
    PROVE  RedoChains(Append(redo, e), e.before)
<1> DEFINE longer == Append(redo, e)
<1>1. /\ longer \in Seq(Entry) /\ Len(longer) = Len(redo) + 1 /\ Len(redo) \in Nat
      /\ \A i \in 1..Len(redo) : longer[i] = redo[i]
      /\ longer[Len(redo) + 1] = e
  BY AppendProperties, LenProperties
<1> HIDE DEF longer
<1>2. Last(longer) = e
  BY <1>1 DEF Last
<1>3. ASSUME NEW i \in 1..Len(redo)
      PROVE  longer[i].before = longer[i + 1].after
  <2>1. CASE i = Len(redo)
    BY <1>1, <2>1, EmptySeq DEF RedoChains, Last
  <2>2. CASE i \in 1..(Len(redo) - 1)
    BY <1>1, <2>2 DEF RedoChains
  <2> QED BY <1>1, <2>1, <2>2
<1>4. RedoChains(longer, e.before)
  BY <1>1, <1>2, <1>3 DEF RedoChains
<1> QED BY <1>4 DEF longer

LEMMA UndoFront ==
    ASSUME NEW undo \in Seq(Entry), undo # <<>>, NEW document, UndoChains(undo, document)
    PROVE  UndoChains(Front(undo), Last(undo).before)
<1>1. /\ Front(undo) \in Seq(Entry) /\ Len(Front(undo)) = Len(undo) - 1
      /\ \A i \in 1..(Len(undo) - 1) : Front(undo)[i] = undo[i]
  BY FrontOfSequence
<1>2. Len(undo) \in Nat \ {0} /\ Last(undo) = undo[Len(undo)]
  BY EmptySeq, LastOfSequence
<1>3. ASSUME Front(undo) # <<>>
      PROVE  Last(Front(undo)) = undo[Len(undo) - 1] /\ Len(undo) - 1 \in 1..(Len(undo) - 1)
  BY <1>1, <1>2, <1>3, EmptySeq DEF Last
<1> QED BY <1>1, <1>2, <1>3 DEF UndoChains

LEMMA RedoFront ==
    ASSUME NEW redo \in Seq(Entry), redo # <<>>, NEW document, RedoChains(redo, document)
    PROVE  RedoChains(Front(redo), Last(redo).after)
<1>1. /\ Front(redo) \in Seq(Entry) /\ Len(Front(redo)) = Len(redo) - 1
      /\ \A i \in 1..(Len(redo) - 1) : Front(redo)[i] = redo[i]
  BY FrontOfSequence
<1>2. Len(redo) \in Nat \ {0} /\ Last(redo) = redo[Len(redo)]
  BY EmptySeq, LastOfSequence
<1>3. ASSUME Front(redo) # <<>>
      PROVE  Last(Front(redo)) = redo[Len(redo) - 1] /\ Len(redo) - 1 \in 1..(Len(redo) - 1)
  BY <1>1, <1>2, <1>3, EmptySeq DEF Last
<1> QED BY <1>1, <1>2, <1>3 DEF RedoChains

\* Dropping the oldest entry keeps the line.
LEMMA UndoTail ==
    ASSUME NEW undo \in Seq(Entry), Len(undo) > 1, NEW document, UndoChains(undo, document)
    PROVE  UndoChains(Tail(undo), document)
<1>1. undo # <<>>
  BY EmptySeq
<1>2. /\ Tail(undo) \in Seq(Entry) /\ Len(Tail(undo)) = Len(undo) - 1 /\ Len(undo) \in Nat
      /\ \A i \in 1..Len(Tail(undo)) : Tail(undo)[i] = undo[i + 1]
  BY <1>1, HeadTailProperties, LenProperties
<1>3. Last(Tail(undo)) = Last(undo)
  BY <1>2 DEF Last
<1> QED BY <1>1, <1>2, <1>3 DEF UndoChains

\* A grouped edit only moves the end of the last entry.
LEMMA UndoCoalesce ==
    ASSUME NEW undo \in Seq(Entry), undo # <<>>, NEW document, NEW result \in Documents,
           UndoChains(undo, document)
    PROVE  UndoChains([undo EXCEPT ![Len(undo)].after = result], result)
<1> DEFINE n == Len(undo)
           last == [undo[n] EXCEPT !.after = result]
           moved == [undo EXCEPT ![n] = last]
<1>1. n \in Nat \ {0} /\ n \in 1..Len(undo)
  BY EmptySeq
<1>2. undo[n] \in Entry
  BY <1>1, ElementOfSeq
<1>3. last \in Entry /\ last.after = result /\ last.before = undo[n].before
  <2> HIDE DEF n
  <2> QED BY <1>2 DEF Entry
<1>4. /\ moved \in Seq(Entry) /\ Len(moved) = n
      /\ \A j \in 1..n : moved[j] = IF j = n THEN last ELSE undo[j]
  <2> HIDE DEF last
  <2> QED BY <1>1, <1>3, ExceptSeq
<1> HIDE DEF moved
<1>5. Last(moved) = last
  BY <1>1, <1>4 DEF Last
<1>6. ASSUME NEW i \in 1..(n - 1)
      PROVE  moved[i].after = moved[i + 1].before
  <2> HIDE DEF last
  <2>1. moved[i] = undo[i] /\ undo[i].after = undo[i + 1].before
    BY <1>1, <1>4 DEF UndoChains
  <2>2. moved[i + 1] = IF i + 1 = n THEN last ELSE undo[i + 1]
    BY <1>1, <1>4
  <2> HIDE DEF n
  <2> QED BY <1>3, <2>1, <2>2
<1>7. UndoChains(moved, result)
  BY <1>3, <1>4, <1>5, <1>6 DEF UndoChains
<1> QED BY <1>7 DEF moved
\* What recording a change does to the undo stack.
LEMMA UndoRecord ==
    ASSUME NEW undo \in Seq(Entry), NEW before \in Documents, NEW after \in Documents,
           NEW group \in Groups \cup {NoGroup}, UndoChains(undo, before)
    PROVE  UndoChains(RecordHistory(undo, before, after, group), after)
<1> DEFINE e == [before |-> before, after |-> after, group |-> group]
           pushed == Append(undo, e)
<1>1. e \in Entry /\ e.before = before /\ e.after = after
  BY DEF Entry
<1>2. pushed \in Seq(Entry) /\ UndoChains(pushed, after)
  <2> HIDE DEF e
  <2> QED BY <1>1, UndoAppend, AppendProperties
<1>3. CASE Coalesces(undo, group, before)
  BY <1>3, UndoCoalesce DEF RecordHistory, Coalesces
<1>4. CASE ~Coalesces(undo, group, before)
  <2>1. RecordHistory(undo, before, after, group)
          = IF Len(pushed) > MaxHistory THEN Tail(pushed) ELSE pushed
    BY <1>4 DEF RecordHistory
  <2> HIDE DEF pushed
  <2>2. Len(pushed) > MaxHistory => UndoChains(Tail(pushed), after)
    BY <1>2, UndoTail, LenProperties, LimitsAssumption
  <2> QED BY <1>2, <2>1, <2>2
<1> QED BY <1>3, <1>4

LEMMA AcknowledgeKeepsLine ==
    ASSUME TypeOK, Alive, Restores, HistoryIsOneLine, Acknowledge
    PROVE  HistoryIsOneLine'
<1>1. /\ op \in AppendOp /\ session \in Session /\ op # NoOp /\ session # NoSession
      /\ op.kind = "append" /\ op.result \in Documents /\ op.group \in Groups \cup {NoGroup}
      /\ session.document \in Documents
      /\ session.undo \in Seq(Entry) /\ session.redo \in Seq(Entry)
  BY OpenSession DEF Acknowledge, Appending, AppendOp, Session
<1>2. UndoChains(session.undo, session.document) /\ RedoChains(session.redo, session.document)
  BY <1>1 DEF HistoryIsOneLine, UndoChains, RedoChains
<1>3. /\ session'.document = op.result
      /\ session'.undo = Histories(session)[1] /\ session'.redo = Histories(session)[2]
  BY <1>1 DEF Acknowledge, Session
<1>4. CASE op.cause = "edit"
  <2>1. UndoChains(session'.undo, op.result)
    BY <1>1, <1>2, <1>3, <1>4, UndoRecord DEF Histories
  <2>2. RedoChains(session'.redo, op.result)
    <3>1. session'.redo = <<>>
      BY <1>3, <1>4 DEF Histories
    <3> QED BY <3>1 DEF RedoChains
  <2> QED BY <1>3, <2>1, <2>2 DEF HistoryIsOneLine, UndoChains, RedoChains
<1>5. CASE op.cause = "undo"
  <2>1. session.undo # <<>> /\ op.result = Last(session.undo).before
    BY <1>1, <1>5 DEF Restores
  <2>2. session'.undo = Front(session.undo)
        /\ session'.redo = Append(session.redo, Last(session.undo))
    BY <1>3, <1>5 DEF Histories
  <2>3. UndoChains(session'.undo, op.result)
    BY <1>1, <1>2, <2>1, <2>2, UndoFront
  <2>4. Last(session.undo) \in Entry /\ Last(session.undo).after = session.document
    BY <1>1, <1>2, <2>1, LastOfSequence DEF UndoChains
  <2>5. RedoChains(session'.redo, op.result)
    BY <1>1, <1>2, <2>1, <2>2, <2>4, RedoAppend
  <2> QED BY <1>3, <2>3, <2>5 DEF HistoryIsOneLine, UndoChains, RedoChains
<1>6. CASE op.cause = "redo"
  <2>1. session.redo # <<>> /\ op.result = Last(session.redo).after
    BY <1>1, <1>6 DEF Restores
  <2>2. session'.undo = Append(session.undo, Last(session.redo))
        /\ session'.redo = Front(session.redo)
    BY <1>3, <1>6 DEF Histories
  <2>3. RedoChains(session'.redo, op.result)
    BY <1>1, <1>2, <2>1, <2>2, RedoFront
  <2>4. Last(session.redo) \in Entry /\ Last(session.redo).before = session.document
    BY <1>1, <1>2, <2>1, LastOfSequence DEF RedoChains
  <2>5. UndoChains(session'.undo, op.result)
    BY <1>1, <1>2, <2>1, <2>2, <2>4, UndoAppend
  <2> QED BY <1>3, <2>3, <2>5 DEF HistoryIsOneLine, UndoChains, RedoChains
<1> QED BY <1>1, <1>4, <1>5, <1>6 DEF AppendOp

\* No other step moves a stack or the document of an open session.
LEMMA LineFrame ==
    ASSUME HistoryIsOneLine, session # NoSession,
           session'.undo = session.undo, session'.redo = session.redo,
           session'.document = session.document
    PROVE  HistoryIsOneLine'
BY DEF HistoryIsOneLine

LEMMA NewStateIsALine ==
    ASSUME NEW d, NEW persisted, NEW durability, NEW target, NEW fingerprint, NEW saved,
           NEW sequence,
           session' = NewState(d, persisted, durability, target, fingerprint, saved, sequence)
    PROVE  HistoryIsOneLine'
<1>1. session'.undo = <<>> /\ session'.redo = <<>>
  BY DEF NewState
<1> QED BY <1>1 DEF HistoryIsOneLine

LEMMA HistoryStep ==
    ASSUME TypeOK, Alive, Restores, HistoryIsOneLine, [Next]_vars
    PROVE  HistoryIsOneLine'
<1>1. ASSUME NEW d \in Documents, NEW t \in Paths \cup {NoPath}, CreateMainOnly(d, t)
      PROVE  HistoryIsOneLine'
  BY <1>1, NewStateIsALine DEF CreateMainOnly
<1>2. ASSUME NEW p \in Paths, OpenMainOnly(p)
      PROVE  HistoryIsOneLine'
  BY <1>2, NewStateIsALine DEF OpenMainOnly
<1>3. CASE RecoverMainOnly
  BY <1>3, NewStateIsALine DEF RecoverMainOnly
<1>4. CASE UNCHANGED session
  BY <1>4 DEF HistoryIsOneLine
<1>5. CASE session' = NoSession
  BY <1>5 DEF HistoryIsOneLine
<1>6. CASE Acknowledge
  BY <1>6, AcknowledgeKeepsLine
<1>7. ASSUME session # NoSession, SaveFails
      PROVE  HistoryIsOneLine'
  <2>1. session \in Session
    BY <1>7, OpenSession
  <2>2. /\ session'.undo = session.undo /\ session'.redo = session.redo
        /\ session'.document = session.document
    BY <1>7, <2>1 DEF SaveFails, Session
  <2> QED BY <1>7, <2>2, LineFrame
<1>8. ASSUME NEW p \in Paths, NEW expected \in Fingerprint, NEW attach \in BOOLEAN,
             NEW plain \in BOOLEAN, BeginSave(p, expected, attach, plain)
      PROVE  HistoryIsOneLine'
  <2>1. session \in Session /\ session # NoSession
    BY <1>8, OpenSession DEF BeginSave, Idle
  <2>2. /\ session'.undo = session.undo /\ session'.redo = session.redo
        /\ session'.document = session.document
    BY <1>8, <2>1 DEF BeginSave, Session
  <2> QED BY <2>1, <2>2, LineFrame
<1>9. CASE ConfirmSaved
  <2>1. session \in Session /\ session # NoSession
    BY <1>9, OpenSession DEF ConfirmSaved, Saving
  <2>2. /\ session'.undo = session.undo /\ session'.redo = session.redo
        /\ session'.document = session.document
    BY <1>9, <2>1 DEF ConfirmSaved, SaveFails, Session
  <2> QED BY <2>1, <2>2, LineFrame
<1>10. CASE WriteBase \/ WriteMetadata \/ ResetJournal
  <2>1. session \in Session /\ session # NoSession
    BY <1>10, OpenSession DEF WriteBase, WriteMetadata, ResetJournal, Saving
  <2>2. /\ session'.undo = session.undo /\ session'.redo = session.redo
        /\ session'.document = session.document
    BY <1>10, <2>1 DEF WriteBase, WriteMetadata, ResetJournal, Rotated, Session
  <2> QED BY <2>1, <2>2, LineFrame
<1>11. CASE Idle /\ MarkDetachedSaveUnconfirmed
  <2>1. session \in Session /\ session # NoSession
    BY <1>11, OpenSession DEF Idle
  <2>2. /\ session'.undo = session.undo /\ session'.redo = session.redo
        /\ session'.document = session.document
    BY <1>11, <2>1 DEF MarkDetachedSaveUnconfirmed, Session
  <2> QED BY <2>1, <2>2, LineFrame
<1>12. CASE Idle /\ Save
  <2>1. session \in Session /\ session # NoSession
    BY <1>12, OpenSession DEF Idle
  <2>2. session.target \in Paths /\ session.fingerprint \in Fingerprint
    BY <1>12, <2>1 DEF Save, Session
  <2> QED BY <1>7, <1>8, <1>12, <2>1, <2>2 DEF Save, SaveLocked
<1>13. ASSUME NEW p \in Paths, NEW d \in Fingerprint, NEW attach \in BOOLEAN, SaveAs(p, d, attach)
       PROVE  HistoryIsOneLine'
  BY <1>7, <1>8, <1>13 DEF SaveAs, SaveLocked, Idle
<1>14. CASE CheckTarget \/ SaveStepFails
  <2>1. session # NoSession
    BY <1>14, OpenSession DEF CheckTarget, SaveStepFails, Saving
  <2> QED BY <1>4, <1>7, <1>14, <2>1 DEF CheckTarget, SaveStepFails
<1> QED BY <1>1, <1>2, <1>3, <1>4, <1>5, <1>6, <1>9, <1>10, <1>11, <1>12, <1>13, <1>14
        DEF Next, Execute, Undo, Redo, BeginAppend, Close, WriteFrame, AppendFails,
            RenameOverTarget, Crash, ExternalWrite, vars, disk, past

\* Undo and redo lead through the documents the user saw, in one line.
THEOREM HistoryLine == Spec => []HistoryIsOneLine
<1>1. Init => HistoryIsOneLine
  BY DEF Init, HistoryIsOneLine
<1>2. (TypeOK /\ Alive /\ Restores) /\ HistoryIsOneLine /\ [Next]_vars => HistoryIsOneLine'
  BY HistoryStep
<1> QED BY <1>1, <1>2, Types, PTL DEF Spec
-----------------------------------------------------------------------------
(* What a save replaces.                                                   *)

LEMMA ObservedStep ==
    ASSUME TypeOK, Alive, CheckedTarget, [Next]_vars
    PROVE  Undecided' => (op.observed = Known)'
<1> SUFFICES ASSUME Undecided'
             PROVE  (op.observed = Known)'
  OBVIOUS
<1>1. CASE UNCHANGED <<session, op>>
  BY <1>1 DEF CheckedTarget, Undecided, Saving, Known
<1>2. CASE op' = NoOp
  BY <1>2 DEF Undecided, Saving
<1>3. CASE op'.kind # "save" \/ op'.stage \notin {"guard", "checked"}
  BY <1>3 DEF Undecided, Saving
<1>4. CASE CheckTarget
  <2>1. op \in SaveOp /\ Undecided
    BY <1>4, OpenSession DEF CheckTarget, Undecided
  <2>2. CASE op' = [op EXCEPT !.stage = "checked"] /\ UNCHANGED session
    BY <2>1, <2>2 DEF CheckedTarget, SaveOp, Known
  <2> QED BY <1>2, <1>4, <2>2 DEF CheckTarget, SaveFails
<1>5. ASSUME NEW p \in Paths, NEW d \in Fingerprint, ExternalWrite(p, d)
      PROVE  (op.observed = Known)'
  <2>1. CASE Saving("checked") /\ op.path = p
    <3>1. op \in SaveOp /\ op' = [op EXCEPT !.raced = TRUE] /\ UNCHANGED session /\ Undecided
      BY <1>5, <2>1, OpenSession DEF ExternalWrite, past, Undecided
    <3> QED BY <3>1 DEF SaveOp, CheckedTarget, Known
  <2> QED BY <1>1, <1>5, <2>1 DEF ExternalWrite
<1>6. CASE WriteFrame
  <2>1. op \in AppendOp
    BY <1>6, OpenSession DEF WriteFrame
  <2> QED BY <1>3, <1>6, <2>1 DEF WriteFrame, AppendOp
<1>7. CASE RenameOverTarget \/ WriteBase \/ WriteMetadata \/ ConfirmSaved
  <2>1. op \in SaveOp
    BY <1>7, OpenSession DEF RenameOverTarget, WriteBase, WriteMetadata, ConfirmSaved
  <2>2. op' = NoOp \/ op'.stage \notin {"guard", "checked"}
    BY <1>7, <2>1 DEF RenameOverTarget, WriteBase, WriteMetadata, ConfirmSaved, Rotated,
       SaveFails, SaveOp
  <2> QED BY <1>2, <1>3, <2>2
<1>8. CASE Save
  <2>1. session \in Session
    BY <1>8, OpenSession DEF Save, Idle
  <2>2. CASE BeginSave(session.target, session.fingerprint, TRUE, TRUE)
    <3>1. op'.plain /\ op'.observed = session.fingerprint
      BY <2>2 DEF BeginSave, Expected
    <3>2. session'.fingerprint = session.fingerprint
      BY <2>1, <2>2 DEF BeginSave, Session
    <3> QED BY <3>1, <3>2 DEF Known
  <2> QED BY <1>2, <1>8, <2>2 DEF Save, SaveLocked, SaveFails
<1>9. ASSUME NEW p \in Paths, NEW d \in Fingerprint, NEW attach \in BOOLEAN, SaveAs(p, d, attach)
      PROVE  (op.observed = Known)'
  <2>1. CASE BeginSave(p, d, attach, FALSE)
    <3>1. ~op'.plain /\ op'.observed = d /\ op'.expected = d
      BY <2>1 DEF BeginSave, Expected
    <3> QED BY <3>1 DEF Known
  <2> QED BY <1>2, <1>9, <2>1 DEF SaveAs, SaveLocked, SaveFails
<1>10. ASSUME NEW cause \in {"edit", "undo", "redo"}, NEW d, NEW g, BeginAppend(cause, d, g)
       PROVE  (op.observed = Known)'
  BY <1>3, <1>10 DEF BeginAppend
<1>11. CASE SaveFails
  BY <1>2, <1>11 DEF SaveFails
<1>12. CASE (op = NoOp \/ session = NoSession) /\ UNCHANGED op
  BY <1>12, OpenSession DEF Undecided, Saving
<1> QED BY <1>1, <1>2, <1>4, <1>5, <1>6, <1>7, <1>8, <1>9, <1>10, <1>11, <1>12
        DEF Next, CreateMainOnly, OpenMainOnly, Execute, Undo, Redo, Idle,
            MarkDetachedSaveUnconfirmed, Close, AppendFails, Acknowledge, SaveStepFails,
            ResetJournal, Crash, RecoverMainOnly, vars, disk

LEMMA CheckedTargetStep ==
    ASSUME TypeOK, Alive, CheckedTarget, [Next]_vars
    PROVE  CheckedTarget'
<1> SUFFICES ASSUME Saving("checked")'
             PROVE  (files[op.path] = op.observed \/ op.raced)'
  BY ObservedStep DEF CheckedTarget
<1>1. CASE UNCHANGED <<files, op>>
  BY <1>1 DEF CheckedTarget, Saving
<1>2. CASE op' = NoOp
  BY <1>2 DEF Saving
<1>3. CASE op'.kind # "save" \/ op'.stage # "checked"
  BY <1>3 DEF Saving
<1>4. CASE CheckTarget
  <2>1. op \in SaveOp
    BY <1>4, OpenSession DEF CheckTarget
  <2>2. CASE SameTarget(op.path, op.observed) /\ op' = [op EXCEPT !.stage = "checked"] /\ UNCHANGED disk
    BY <2>1, <2>2 DEF SameTarget, disk, SaveOp
  <2> QED BY <1>2, <1>4, <2>2 DEF CheckTarget, SaveFails
<1>5. ASSUME NEW p \in Paths, NEW d \in Fingerprint, ExternalWrite(p, d)
      PROVE  (files[op.path] = op.observed \/ op.raced)'
  <2>1. CASE Saving("checked") /\ op.path = p
    <3>1. op \in SaveOp /\ op' = [op EXCEPT !.raced = TRUE]
      BY <1>5, <2>1, OpenSession DEF ExternalWrite
    <3> QED BY <3>1 DEF SaveOp
  <2>2. CASE ~(Saving("checked") /\ op.path = p)
    <3>1. op' = op /\ op.path # p /\ Saving("checked")
      BY <1>5, <2>2 DEF ExternalWrite, Saving
    <3>2. files' = [files EXCEPT ![p] = d] /\ files \in [Paths -> Fingerprint] /\ op.path \in Paths
      BY <1>5, <3>1, OpenSession DEF ExternalWrite, TypeOK, SaveOp
    <3> QED BY <3>1, <3>2 DEF CheckedTarget
  <2> QED BY <2>1, <2>2
<1>6. CASE WriteFrame
  <2>1. op \in AppendOp
    BY <1>6, OpenSession DEF WriteFrame
  <2> QED BY <1>3, <1>6, <2>1 DEF WriteFrame, AppendOp
<1>7. CASE RenameOverTarget \/ WriteBase \/ WriteMetadata \/ ConfirmSaved
  <2>1. op \in SaveOp
    BY <1>7, OpenSession DEF RenameOverTarget, WriteBase, WriteMetadata, ConfirmSaved
  <2>2. op' = NoOp \/ op'.stage # "checked"
    BY <1>7, <2>1 DEF RenameOverTarget, WriteBase, WriteMetadata, ConfirmSaved, Rotated,
       SaveFails, SaveOp
  <2> QED BY <1>2, <1>3, <2>2
<1>8. ASSUME NEW p, NEW expected, NEW attach, NEW plain,
             BeginSave(p, expected, attach, plain)
      PROVE  (files[op.path] = op.observed \/ op.raced)'
  BY <1>3, <1>8 DEF BeginSave
<1>9. ASSUME NEW cause \in {"edit", "undo", "redo"}, NEW d, NEW g, BeginAppend(cause, d, g)
      PROVE  (files[op.path] = op.observed \/ op.raced)'
  BY <1>3, <1>9 DEF BeginAppend
<1>10. CASE SaveFails
  BY <1>2, <1>10 DEF SaveFails
<1> QED BY <1>1, <1>2, <1>4, <1>5, <1>6, <1>7, <1>8, <1>9, <1>10
        DEF Next, CreateMainOnly, OpenMainOnly, Execute, Undo, Redo, Save, SaveAs, SaveLocked,
            MarkDetachedSaveUnconfirmed, Close, AppendFails, Acknowledge, SaveStepFails,
            ResetJournal, Crash, RecoverMainOnly, vars, disk

\* A plain save replaces what the session opened or last saved at its target, and
\* Save As what its caller named, unless another program wrote the file after the
\* last check.
THEOREM SaveIsChecked == Spec => SaveReplacesKnownContent
<1>1. Init => CheckedTarget
  BY DEF Init, CheckedTarget, Undecided, Saving
<1>2. (TypeOK /\ Alive /\ Restores) /\ CheckedTarget /\ [Next]_vars => CheckedTarget'
  BY CheckedTargetStep
<1>3. CheckedTarget /\ [Next]_vars
        => [RenameOverTarget => files[op.path] = Known \/ op.raced]_vars
  BY DEF CheckedTarget, RenameOverTarget, Undecided
<1> QED BY <1>1, <1>2, <1>3, Types, PTL DEF Spec, SaveReplacesKnownContent
=============================================================================
