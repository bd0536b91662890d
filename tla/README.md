# HTMLlelujah: specifications, model checking and proofs

HTMLlelujah is a desktop slide editor (Electron, TypeScript). Its main process
owns the documents, keeps a recovery store beside the files the user saves,
shares a document with other participants over a local network, arbitrates
writers of a file on a shared drive and lets local agents edit over MCP.

This directory holds TLA+ modules translated from that code, the TLC
configurations that check them on small instances, and TLAPS proofs of the
theorems that matter for every instance. `PROJECT.json` maps each definition to
the lines it stands for and each run to what it checks.

1. [The system](#1-the-system)
2. [The modules](#2-the-modules)
3. [Runs, bounds and what they show](#3-runs-bounds-and-what-they-show)
4. [Disagreements between code and documents](#4-disagreements-between-code-and-documents)
5. [Proofs](#5-proofs)
6. [Fairness and liveness](#6-fairness-and-liveness)
7. [What is not modelled](#7-what-is-not-modelled)
8. [Plan](#8-plan)

## 1. The system

| Component | State it keeps | Operations | Hard behaviour | Correct when |
|---|---|---|---|---|
| **Authoritative session host** `packages/collaboration/src/host.ts` | transaction tail, index of modified keys, idempotency window, text leases | submit, resync, acquire / renew / release leases | a submission awaits the document runtime while leases change and time passes; history is pruned | transactions are serialisable, retries are answered, leases follow the document |
| **Command access analysis** `access.ts` | none | read and write keys of a batch | ~60 commands | two batches that do not commute share a key |
| **Replica and transport** `replica.ts`, `transport/*` | connections, reconnect grants, request queues, pending requests | admit, join, broadcast, answer, reconnect, drain | the two ends notice a break separately; what is sent while a guest joins or resynchronises | every participant holds a beginning of the host's log and catches up |
| **Shared-drive writer lease** `shared-drive.ts` | a signed sidecar and a mutation lock on the drive | claim, take over, heartbeat, preflight, record, release | several machines, crashes between file operations, clocks, expiry | one owner, one committer, a live lease stands |
| **Document session manager** `packages/document-runtime/src/session-manager.ts` | document, revision, undo and redo, save target | create, open, execute, undo, redo, save, close, recover | a crash or a failure between any two writes | acknowledged work is recovered or saved; undo is exact |
| **Recovery journal, archive save** `packages/hdeck/src/journal.ts`, `persistence.ts` | frames of the journal; the user's file | append, replay, truncate; guarded atomic save | torn frames; other programs writing the same file | a valid prefix is replayed; no unseen change is overwritten |
| **Recovery store** `storage.ts` | generations of private files | atomic replacement, repair, startup reconciliation | a stop between any two file operations, locked files | old or new content, whole, always |
| **Asset blobs and their collector** `storage.ts`, `session-manager.ts` | content-addressed files, references from memory and recovery files | import, mark, sweep | a long pass beside imports, saves, closes | nothing reachable is removed, garbage is |
| **Document core** `packages/document-core/src` | none (pure) | apply a batch, validate, project | commands that reach more than they name: groups, layouts, masters, connectors | references and placeholder bindings stay valid, revision names content |
| **Archive format** `hdeck/src/archive.ts` | none (pure) | serialise, parse | limits and hostile input | parse after serialise is the identity |
| **Renderer, exporter, geometry** | none (pure) | SVG/DOM, HTML, snapping | floating point | preview and export agree |
| **MCP server and desktop bridge** `packages/mcp-server`, `apps/desktop/src/main/mcp-bridge.ts` | clients, approvals, proposals, receipts | propose, approve, apply | an approval outlives the revision it was given for; calls wait in the session queue or behind a dialog | an approval does one thing to the contents approved; a proposal applies once; an agent undoes only its own work |
| **Desktop collaboration service** `collaboration-service.ts` | one host or guest session per document, queues, heartbeats | host, join, execute, save, leave, fail safe | joining, the apply queue, reconnection, heartbeats and edits interleave | no transaction is missed; nobody holds an edit the saved file lacks; a guest that is not gone catches up |
| **Standalone writer reservation** `standalone-writer-reservation.ts` | a lease for one save | claim, confirm takeover, guard, release | release failures, takeovers | as the writer lease |
| **Windows and shutdown** `window-lifecycle.ts`, `bounded-shutdown.ts`, `main.ts`; the renderer's part in `App.tsx`, `preload.ts` | the session each window shows, close decisions, seals, replacements | close, replace, host, join, quit | everything waits for dialogs, saves and a renderer that may hang, while agents edit | a close ends, quitting ends, nothing is discarded that nobody agreed to discard |

How they interact. The renderer and the MCP bridge call the session manager
through IPC; every edit of one session goes through that session's queue, which
awaits the journal. When a document is shared, edits of all participants go to
the authoritative host instead, which orders them and calls the session manager
through an adapter (`transact`); its answer is broadcast to the guests. A shared
save additionally needs the writer lease: it is checked as the commit guard of
the archive save and records the new file's fingerprint afterwards. The recovery
store is used by the session manager only. A save rotates the recovery base and
the journal, and starts a pass of the blob collector.

`PROJECT.json` lists the hazards, each at its line with the properties aimed at
it.

## 2. The modules

### CollabHost: the authoritative session host

State: `history` (every transaction, of which the code keeps the `tail`),
`lastModifiedSeq`, `idempotency`, `textLeases`, `inflight` (the submission whose
`transact()` is awaited), `currentRevision`, `liveText` and the `clock`.
A batch is what the host sees of it: the keys it reads and writes, the text
elements it deletes, its size. `history` is a history variable and
`sessionSequence` its length.

`Prepare` is `prepareSubmission` (purge leases, idempotency lookup, base checks,
conflict analysis, lease checks), `Commit` is `finalizeSubmission` with every
trailing clean-up (tail, key index, idempotency window, leases of deleted text),
`TransactFails` the adapter's refusal. Lease operations and `Tick` interleave
with an awaited submission, as they do in the code; submissions do not, because
`submissionQueue` serialises them. `GetResync` is the answer to a participant.
`idempotency` is the Map of the code in its insertion order, so pruning drops a
beginning of it. It and the tail are pruned by count and by bytes exactly as in
the code.

### DocumentSession: one session and its recovery files

State: `session` (SessionState), `recovery` (base, journal with its header and
possibly a torn last frame, metadata), `files` (the user's files) and `op`, the
operation in progress: the queue admits one at a time, and each await is a step
of it. `BeginAppend`/`Acknowledge`/`AppendFails` are the three fates of a
journal record; a failed append may leave its frame, or half of it, on disk.
A save is `guard -> checked -> renamed -> base -> metadata -> journal`; any of
them may fail, and `Crash` may come between. `RecoverMainOnly` replays the valid
prefix. `ExternalWrite` is another program. `acked`, `attempted` and `confirmed`
remember what was promised. A document stands for its revision.

### AtomicWrite and AtomicRegister: replacing a private file

`AtomicWrite` is `atomicWritePrivate` file operation by file operation, with
`repairKnownTransaction` after a failure and `reconcileInterruptedWrites` at
startup. Each operation may fail and the process may stop before each of them.
A clean-up may leave a generation behind, because the file is locked (errors
are ignored) or because the startup reached its limit of actions; these
`leftovers` are counted and bounded. `AtomicRegister` is the abstract
specification: a register with `Begin`, `Change`, `Succeed`, `Fail`, which
always holds the old or the new value, and `Degrade` for the step after which
nothing is promised any more. `AtomicWrite` implements it (`IsRegister`), its
value being what a startup would publish.

The contents are copied where the code hard-links, since nothing modifies a file
in place. A directory sync follows each operation the next one relies on, so a
stop loses at most the last operation.

### WriterLease: the shared-drive sidecar

Processes are hosts, which keep a lease and renew it, and standalone saves, which
claim one for a single save. The sidecar and its mutation lock are the shared
state; a mutation is `lock -> compare and fence -> apply -> read back, unlock`,
each a step of its own, and the first creation of the sidecar can be torn. Every
claim signs with a random secret of its own. A takeover of an expired lease
observes it for one lease time first. `Stop` leaves everything on disk as it is.
Two assumptions on time are constants, so that both sides of them can be checked:
`StallAtFence` (a process may be suspended between its fence and the rename that
follows it) and `StallAtCommit` (between the last lease check and the rename of
a save, for longer than the reservation).

### BlobGc: blobs and their collector

Documents are sets of asset hashes. Opening a presentation stores the blobs of
all its assets (`StoreAssets`) before its session and its recovery files exist
(`Open`); until then only the opener knows of them (`opening`). Sessions stage and
commit imports, register stored blobs, hold pending proposals, remove assets,
undo, redo, rotate (base, then journal, either of which may fail), close, crash
and are recovered, while a pass goes on in steps: mark memory (documents,
histories, pending proposals, staged imports), list the candidates, read the base
and then the journal of each, list the blobs up to `MaxEntries`, remove them one
by one up to `MaxDeletes`. Reading files that are gone or half removed ends the
pass. `Age` lets a blob become old at any time, also during a pass until the
sweep begins, which reads the clock once. A blob stored during a pass stays young
in it: the minimum age is an hour.

An old blob may come into use after the pass has marked memory, by an import, a
recovery, an opened presentation or a registration, and the pass does not learn of
it. Nothing forbids this in the model: `pass.revived` remembers such blobs and
`lost` those of them that the pass removed, until they are stored again. The
properties of the passing runs say that nothing else is ever removed; `blob_revival`
shows what the removal of one does.

A journal append that fails has no effect here (`DocumentSession` has its other
outcomes), writing the blobs of a presentation is one step, and so are its
recovery files with its session; a session registers one stored blob at a time
(it shares the slot of its import).

### CollabSession and ReplicatedDeck: host, transport and guests

`CollabSession` composes the transport server, the client of each guest and the
guest side of `collaboration-service.ts`. The host is its `log` of transactions
with what the engine still decides (`engine`) and what is decided and not yet
broadcast (`committed`); its decisions are those of `CollabHost`, here commit or
refusal. A guest is one record: where `join()` stands (`phase`), its socket
(`link`), its replica (`doc`, `lastSeq`), the apply queue with what its first
operation is doing (`queue`, `run`, `feed`), the buffer of a join and the
attempt of a reconnection. Connection and guest are separate state: `Drop` and
`Timeout` happen at the guest, `ServerRemoves` at the server, and each side
notices the other's break later (`GuestNotices`, `ServerNotices`). A stale
connection still submits what it had sent and is never answered.

What a guest learns of a closed socket is `AfterClose`. Mostly `connect()` or the
listener reports it (`AfterDrop`). A socket that closes without an error between
`auth.accepted` and the presence snapshot is reported to nobody who awaits the
connection (`AfterSilence`): `join()` stays in `"connecting"`, the operation of
the apply queue is `"stranded"`, and so is the reconnection (`Hung`), which every
later disconnection and heartbeat then wait for.

`Join` to `Joined` are the awaits of `join()`; `RunQueue` runs the apply queue up
to its next await; `Receive` handles one message; `HandleRequest`, `Decide`,
`Publish` are the server's side of a submission; `BeginLeave`, `Save`, `Close`
and `HostFails` are how the host goes. Presence is what it does to connections:
the heartbeat reconnects a guest that is down (`Heartbeat`), and an identity
that is still connected is refused (`conn = "stale"`).

`ReplicatedDeck` is the abstract specification: one history that grows at its
end, and copies that are beginnings of it and only move forward.
`CollabSession` implements it (`ReplicasFollow`).

### Deck, CommandAccess and StaleBatches: what a stale batch may do

`Deck` is the command engine on a flat deck: elements with their slide, group,
placeholder, connector target and asset; layouts, masters, themes, slides and
assets; per command its guards and its effect, the remapping of placeholder
bindings included, and the validation that follows a batch. Of a content, a
style or a frame only its author is kept, which is what tells whose work a
command destroys. A value the engine derives keeps its author. `Tree` (an
element and all it contains) is the least set closed under children; `Remapped`
is `remapPlaceholderBindings` of every slide in a set. `HasShape` says what parts
a deck and its entities have, which the schemas of the code ensure.

`CommandAccess` is `analyzeCommandAccess`: the keys each command reads and
writes, computed on the deck the host holds. `StaleBatches` puts them together
as `host.ts` does: others commit commands (`CommitOthers`), a guest's command made
on the initial deck (`PreparedCommands`) arrives (`SubmitStale`), and runs on the
present deck if its keys are disjoint from those written since (`MayRun`).
Batches have one command: the analysis looks at the deck before the batch in any
case. The initial deck is any that has its shape, passes validation and holds
nothing the others write later (`InitialDeckAssumption`).

### McpBridge: agents, approvals and the session queue

Approvals (`grants`, then `receipts`), proposals, the session queue and the open
file dialogs of one presentation. Taking a receipt and doing what it was for are
separate steps: `CommitProposal`, `UndoAgentTransaction` and `ImportChosen` end
in the queue, `RequestFile` in a dialog; `RunCommit`, `RunUndo`, `RunImport`,
`RunHumanEdit` and `RunHumanUndo` are the queue's turns, with the comparisons
the runtime makes then. A revision is a digest of the contents, so it is the
sequence of transactions in force: undoing restores it. `spentOn`, `appliedOn`
and `log` remember what was done to which contents.

### EditorWindow: closing, replacing, quitting

One editor window, the sessions it may show and the operations that may replace
its session (opening, hosting, joining). The close decision goes
`asking -> prompt / saving / ending / detached -> closing`, `reporting` when it
failed; the handshake's messages travel in `toRenderer` and `toMain`, and the
renderer keeps whether it prepares or is sealed, and for which request.
Replacements run beside it in steps of their own up to `assignSession`, whose
check, close and assignment are separated by awaits only where the code's are.
A renderer that prepares to close checks its fields at the beginning; text typed
between that and its seal is a draft it may not see (`"unseen"`), text typed under
the seal is `"late"`. The end of a guest's collaboration may wait for ever for a
reconnection that never settles (`CloseStrands`, `ReplaceStrands`).
Shutdown is admitted once and ends with its tasks or its deadline.

## 3. Runs, bounds and what they show

The passing runs exhaust their state spaces, each in about three minutes or less.
Deadlock is not checked: each bounded model stops when its counters are used up,
every session is closed or the process has exited.

| Run | States | Shows |
|---|---|---|
| `host_ordering` | 86 680 | No batch is ordered over a write its author had not seen (`NoLostUpdate`), although the key index and the tail are pruned; the pruned index equals the whole history for every accepted base (`ConflictIndexExact`); the idempotency window is exactly the recent transactions that fit both limits; a request commits twice only after the window lost it (`AtMostOnce`); each resync answer is complete or a snapshot (`ResyncSound`). |
| `host_leases` | 614 472 | Across an awaited submission a foreign lease on what is written is always younger than the check (`ForeignLeaseIsYounger`); leases never outlive their text (`LeaseOnlyOnLiveText`). |
| `collab_session` | 1 073 910 | Replicas are beginnings of the log and only move forward (`ReplicasFollow`); a connected guest with nothing left to do misses nothing (`NoSilentGap`); `execute()` returns to a guest whose copy has the edit (`ReadYourWrites`); no guest holds an edit that the file of a host that left lacks (`NothingBeyondTheFile`); a guest that is neither gone nor failed, and waits for no connection that was forgotten, catches up (`Convergence`). |
| `stale_batches` | 269 833 | A stale command that the host still runs takes away nothing its author has not seen, however indirectly it reaches it (`KeepsUnseenWork`); every change of layouts and masters leaves slides with bindings that stand (`RelayoutKeepsBindings`). |
| `session` | 6 442 452 | Replaying the recovery files gives the last acknowledged document, or that and the one unacknowledged change (`RecoveryIsAcknowledged`); a clean session is in its file and rotated (`CleanIsRotated`); undo and redo stay on one line of documents (`HistoryIsOneLine`); a plain save replaces only what its session opened or last saved, and Save As what its caller named, unless another program writes after the last check (`SaveReplacesKnownContent`). |
| `atomic_write` | 13 095 | The store implements the register; nothing partial is ever readable; something readable never becomes nothing; no generation remains unless one was locked. |
| `writer_lease` | 3 942 686 | A live owner is the one the sidecar names (so there is one), an expired lease is replaced only after a whole observation, a live one only by its owner, and saves of hosts and standalone writers never overlap nor overwrite an unseen file. |
| `blob_gc` | 1 840 790 | A pass removes nothing reachable but what came into use after it had marked memory (`PreservesReachable`), and a candidate that can be recovered lacks no bytes but such ones (`OnlyRevivedBytesAreLost`); a pass that did not use up its removals has removed, of the blobs it looked at, all that was old and unreachable when it began and still is (`PassCollectsGarbage`). |
| `mcp_bridge` | 2 998 864 | An approval lets its holder do one thing (`ApprovalIsSpentOnce`); what is undone, imported or exported is the revision approved (`ApprovedContentsAreUsed`); a proposal takes effect once, on its base (`ProposalAppliesOnce`); an agent undoes its own latest batch and nothing else (`AgentUndoesItsOwnWork`). |
| `editor_window` | 1 121 586 | The recovery files of a shown presentation go only with everything saved or exactly this revision discarded (`NothingDiscardedUnasked`); sessions and windows belong together (`SessionsAreOwned`); text that was there when the renderer checked its fields is applied before the window goes (`DraftsAreFlushed`); a renderer is sealed for the close being decided and released when it is given up (`SealFollowsClose`); every close request is decided, or waits for a `leave()` that never ends (`CloseIsDecided`) and the process ends (`ShutdownEnds`). |
| `session_rotation`, `blob_revival` | violation | see section 4 |

Bounds, and why they are enough:

* `host_ordering`: tail and window of two entries and four commits, so a base
  falls out of the tail and of the index twice; two keys, so batches that
  commute and that conflict both occur; sizes 1 and 2 against a byte limit of 3,
  so that one entry evicts two. Three request ids make retries and fresh
  requests compete. One client, since the host treats the pair of client and
  request as one name. Leases need time and clients and are checked apart.
* `host_leases`: two clients, two text elements under one group key, a lease of
  one tick and two ticks, three tokens: a lease expires, is re-acquired by the
  other and released while a batch is awaited.
* `session`: three documents (old, current, another), one path, one history
  group, two history entries and two journal records: the undo stack overflows,
  groups join, the journal is rotated at every length. Documents are
  interchangeable (symmetry); no liveness is checked with it.
* `atomic_write`: three writes with three contents and one leftover: a stale
  generation meets a fresh one after a crash.
* `writer_lease`: a host and a standalone save, five ticks with leases of one
  tick and save extensions of three (the code's 45 s and 120 s), three claims, two
  renewals and two saves per behaviour: expiry, takeover and re-claim follow each
  other, also while an extended lease runs.
  A random simulation with three processes (57 million states) found nothing more.
* `collab_session`: one guest beside the host (guests share nothing but the log
  and the broadcast, and the checks on their identities are per guest), a tail
  of one transaction, so that a resynchronisation meets its end, three attempts
  of a reconnection as in the code, a join buffer of one, so that it overflows,
  two batches of either author and two breaks or timeouts: the second one meets
  a join, a reconnection or a resynchronisation caused by the first.
* `stale_batches`: two slides, one of them with a text, an image, a group with a
  text and a connector to it, two layouts of two masters with five placeholders
  of two roles, two themes, an asset: every command has something to reach
  directly and through a group, a layout or a master. Two commands of others
  before the guest's one: the second may undo what the first protects.
* `mcp_bridge`: two clients, one of which gets the approvals, one pending
  proposal, grant and receipt limits of one and two, two approvals, two
  transactions and two waiting operations: an operation can be overtaken by an
  edit and by its undo.
* `editor_window`: two sessions after one another, one replacement, two closes,
  two edits per session, one shutdown task: a close and a replacement race, a
  late answer meets the next request, and the task settles, late or never.
* `blob_gc`: two kinds of behaviours (`BoundedSpec`), since assets interact only
  through the limits of a pass. In one, two sessions share one asset, one at a time
  open while the files of the other stay, with one history entry and one pending
  proposal, by a session while no other has files. In the other the limits bite: documents of three assets, of which a
  pass looks at two and removes one, are opened, closed and recovered, but neither
  edited nor saved.

Each property of a passing run has a mutant in `PROJECT.json`: a plausible bug in
one mapped definition (kept beside it as a "Variant") with which TLC finds the
property violated.

## 4. Disagreements between code and documents

Two of them are runs that TLC must find violated; they stay listed until the
code or the document changes.

* `session_rotation` (`AcknowledgedSurvives`): a save that replaced the recovery
  base but failed before the journal leaves a journal that names another base;
  the session goes on acknowledging edits into it, and recovery refuses it
  although spec.md:150 promises an explicit recovered copy.
* `blob_revival` (`RecoveryHasItsBytes`): importing an image whose old,
  unreferenced blob is still stored, while a pass runs, neither rewrites the blob
  nor tells the pass, which removes it; the acknowledged document cannot be
  recovered after a crash. Until the next save only memory has the bytes. The run
  excludes openings and registrations during a pass (`ImportSpec`), so that its
  trace is the import.

Others are stated as definitions that no configuration lists. Each can be added
to the named configuration, as an INVARIANT unless it says otherwise, and is then
found violated:

* `ReconnectWindowEnds` (`CollabSession.cfg`, a PROPERTY): "a disconnected peer becomes read-only
  after its bounded reconnect window" (spec.md:214). `connect()` is resolved by the
  presence snapshot and rejected by a closed socket only before `auth.accepted`
  (client.ts:770). A socket that closes in between leaves it pending: the
  reconnection makes no further attempt and does not fail, its status stays
  "reconnecting", and join, heartbeat, apply queue and `leave()` wait as well.
  `Convergence` names exactly these guests as its exception (`Stranded`).
* `LastEditIsKept` (`EditorWindow.cfg`): "keep the presentation open whenever the last
  human edit cannot be applied safely" (CHANGELOG.md:86-90). The renderer blurs the
  active field and asks the inline editor once, then awaits executions before it
  seals itself (App.tsx:2598-2643); text typed meanwhile is neither applied nor
  a reason to refuse, and goes with the window.
* `LapsedTextIsInvalid` (`CollabHost_leases.cfg`): "Lock expiry or disconnect
  makes uncommitted peer text invalid" (contracts.md:521). The host only looks at
  leases that exist, and only before awaiting the runtime, so a batch commits
  under a token whose lease has lapsed. Since conflicts are still detected by
  keys, no update is lost.
* `FailedAppendCanBeRetried` (`DocumentSession.cfg`): an append that failed half
  way leaves a torn frame that makes every later append fail, though the error is
  marked retryable.
* `OldOrNew` (`AtomicWrite.cfg`): a `ready` generation that could not be removed
  is not told from that of the interrupted write at a later startup, so content
  older than the last acknowledged may be published.
* `OneOwner` (`WriterLease.cfg` with `StallAtFence = TRUE`): a takeover removes
  the lock of another one that has passed its fence; both end as owners.
* `CommitIsOfTheApprovedRevision` (`McpBridge.cfg`): approvals are "bound to
  client, action, document, and revision" (docs/architecture.md:273). The bridge
  compares an approval with the revision when it takes the receipt; the runtime,
  when the queue gets there, only compares the proposal's base. A proposal made
  at r1, a person's edit to r2, an approval given and taken at r2, and a person's
  undo that is queued before the commit: the commit runs on r1. The person
  approved with r2 on the screen. The contents are those the batch was
  simulated on, so `ProposalAppliesOnce` holds.
* `FailedGuestIsDisconnected` (`CollabSession.cfg`): the status of a failed guest
  says "This copy is read-only and disconnected" (collaboration-service.ts:537).
  What is still queued when it fails runs all the same, and a resynchronisation
  of it connects again.

Observations without a formula: with `StallAtCommit` the properties `OneCommitter`
and `SaveReplacesKnown` fail as well, but that takes a suspension of minutes
between two file operations (a sleeping laptop). A crash while the sidecar is
first created leaves it torn, and every later claim ends with
`SIDECAR_TAMPERED`. A recovered session can show itself clean although its file
differs (rotation fails at the base, undo, crash, recover: the metadata still
names the old saved revision). A journal left alone by a failed removal ends
every later collection pass. A session recovered during a pass may rotate between
the pass's reading of its base and its journal, which hides a hash from it
(`OnlyRevivedBytesAreLost` counts it as revived).

A guest whose connection breaks again while its reconnection still applies what
it fetched starts no new reconnection: `reconnectGuest` returns the one that is
about to end. Only the presence heartbeat brings it back, and `Convergence`
depends on that. Text typed after its watchdog has reopened the renderer during a
save that outlives the five seconds of the handshake goes with the window too
(`DraftsAreFlushed` excepts it). A second instance started during the final clean-up
opens a window that the end of the process takes away.

Some commands write what the access analysis does not declare: `element.delete`
unbinds the connectors of other elements, `element.ungroup` recomputes the
frames of the children, `slide.set-layout` and `layout.delete` the bindings of a
slide. `KeepsUnseenWork` holds because nothing of another author is lost by it:
the values are derived from present ones, or refer to what is gone.

## 5. Proofs

TLAPS proves the following for every value of the constants: any number of
guests, batches, keys, sizes, sessions, hashes, claims, approvals or edits, and
any limits. Nothing is assumed but the named assumptions of the modules (limits
are positive or natural; null values lie outside the sets they complete; whoever
deletes a text element writes a key that a lease on it protects, as
`DeletedElementIsWritten` shows of the access analysis; the initial deck is valid
and the placeholders are in an order) and, where a theorem has one, its hypothesis. Two constants are
such hypotheses: `~StallAtFence` and `~StallAtCommit` of `WriterLease`. Section 4
shows what happens without them, so neither can be dropped; with them the
configurations of the passing runs are instances of the theorems.

All safety properties and action properties of the passing runs are theorems.
Hardly one of them is inductive: each module of proofs states the invariant
that is.

`CollabHost_proofs`, about the host (`Typing` and eight others):

* `Serializability` (`NoLostUpdate`) and `IndexExactness`
  (`ConflictIndexExact`), from `OrderInv`. The sequence numbers are positions of
  `history` (`Numbered`), the tail is its suffix (`TailIsSuffix`), every write
  after the oldest accepted base is in the index (`IndexComplete`) and every
  entry of the index is a write that happened (`IndexSound`); so a submission
  found free of conflicts when it was prepared has none with the whole history
  (`AwaitedHasNoConflict`), and none can appear while it is awaited because
  submissions are serialised. Pruning removes only entries at or below the
  oldest accepted base.
* `WindowIsRecent` (`IdempotencyIsRecentWindow`) and `RetriesCommitOnce`
  (`AtMostOnce`), from `WindowInv`, which adds that an awaited request is none
  that is remembered (`AwaitedIsNew`). The eviction loop stops at the first
  suffix that fits; sizes only add up, so every shorter suffix fits
  (`FitsDownward`), and appending a transaction moves the beginning of the
  window forward only (`CommitKeepsWindow`).
* `ResyncIsComplete` (`ResyncSound`), from `ResyncInv`: every transaction begins
  at the revision at which the one before it ended (`Chained`), and the tail is
  as long as it may be (`TailIsFull`).
* `LeasesPredatingABatchAreRespected` (`ForeignLeaseIsYounger`) and
  `LeasesFollowTheDocument` (`LeaseOnlyOnLiveText`), from `LeaseInv`, which adds
  that tokens are issued in order and an awaited batch remembers the first one
  that was not issued when it was prepared. `LeasesAreNotStolen`
  (`LeaseNotStolen`, an action property no run needs to repeat) from
  `LeaseBounded`: no lease reaches further than one lease time from now.

and about the stale batches it still runs, for any deck:

* `UnseenWorkIsKept` (`KeepsUnseenWork`). `ExecuteStep` says of every command of
  the engine, by one lemma for each kind of resource, slide and element command,
  that it leaves everything alone whose key is not among those that
  `analyzeCommandAccess` declares (`Untouched`), and keeps the shape of the deck.
  So the keys of all that others wrote are known to the host (`WorkIsWritten`),
  and a batch whose keys are disjoint from these leaves it in place.
  `DeletedElementIsWritten` is what this says of an element that is gone,
  whatever contained it.
* `BindingsSurviveRelayout` (`RelayoutKeepsBindings`), from the same invariant,
  `StaleInv`, which has the validity of the deck: the elements of a slide that
  lose their placeholder choose one after the other, and what they choose is
  offered, takes them, and is neither kept by another nor chosen before
  (`ReplacementsEffect`); a slide that is not remapped is offered what it was.
  The theorem needs nothing of the resulting deck, so the validation after a
  batch never refuses one for its bindings when only layouts changed.

`CollabSession_proofs`:

* `SessionsReplicate` (`ReplicasFollow`): host, transport and guests implement
  `ReplicatedDeck`. Initial states map to initial states and every step to one
  of its steps or a stutter. The invariant is `ReplicaInv`: a replica is the
  beginning of the log its `lastSeq` says (`Replica`), and nothing on the way
  goes past the end of the log (`ChannelTypes`).
* `AcknowledgedIsShown` (`ReadYourWrites`) and `FileHoldsEverything`
  (`NothingBeyondTheFile`), from the same invariant and what `saved` remembers:
  a host saves when its engine and its broadcast are drained and admits
  nothing afterwards.
* `NothingIsMissed` (`NoSilentGap`), from `GapInv`: for each connection, what
  its two ends can still believe of each other (`Linked`), and that whatever a
  connected guest misses is decided, on its way, in its queue or buffer, or part
  of a resynchronisation that is asked for or answered (`Covered`). This is
  the longest of the proofs, one lemma for each action of either end.
* `Typing`.

`DocumentSession_proofs`:

* `Typing`; `RecoveryReplaysAcknowledged` (`RecoveryIsAcknowledged`), from
  `JournalChains` (the journal is a chain of records to the acknowledged
  document, or to the one attempt beyond it, whether or not its base is still
  there) and `JournalPosition` (a session that may append stands at its end);
  `CleanMeansRotated` (`CleanIsRotated`), from `Rotation`: while a session shows
  itself clean, each step of the rotation that is done still holds;
  `HistoryLine` (`HistoryIsOneLine`), since `Restores` keeps an undo in progress
  at the top of its stack; `SaveIsChecked` (`SaveReplacesKnownContent`), from
  `CheckedTarget`: until a save is decided, what it has read at its target is the
  fingerprint of its session, or what its caller named, and once it has checked
  that, only another program changes the target.

`AtomicWrite_proofs`:

* `Typing`, `WholeReads` (`WholeGenerations`), `Durability` (`NothingLost`),
  `Tidiness` (`NothingLeaks`), for any number of writes and leftovers.
* `Refinement` (`IsRegister`): initial states map to initial states and every
  step to a step of `AtomicRegister` or a stutter. `Inv` says how far a write
  has come by the files it has (`Progress`), that unused transaction ids have
  none (`Fresh`), that a state without any file can only follow one in which
  there was nothing to read (`Kept`), and that with nothing left behind only the
  last transaction has files, of which each is the old or the new content
  (`Alone`). The old content is a single value (`OneOld`), which is what makes
  the store a register.

`WriterLease_proofs`:

* `Typing`, `NoLiveOwnerIsDeposed` (`LiveOwnerIsNamed`), `LeasesStand`
  (`LiveLeaseStands`) and `TakeoversAreObserved` (`TakeoverWasObserved`), under
  `~StallAtFence`. `LeaseInv` says how far each operation has come (`Shape`),
  that a takeover waited out a window beyond the expiry it saw (`Watched`), that
  secrets are not shared (`FreshIds`), that the fence of a mutation holds until
  its rename (`Fences`), and that the sidecar is what a live owner wrote last
  (`Standing`).
* `OneCommits` (`OneCommitter`) and `KnownIsReplaced` (`SaveReplacesKnown`),
  under `~StallAtFence` and `~StallAtCommit`, from `Commits`: whoever commits
  holds a lease that has not expired and knows what it replaces.

An attempt to prove an earlier `LiveOwnerIsNamed` failed for a good reason: it
took the expiry of `ownedLease`, but a save extends the lease on the drive by
120 s and `recordSnapshot` ends that extension, 45 s from then, before
`ownedLease` learns of it. An owner can be suspended in between, expire on the
drive and be replaced while its own copy still looks alive. The property now
speaks of the lease the owner wrote last (`Written`), which is what the fences
compare; and `SaveExtension` in the run is 3, more than twice the lease time as
in the code, so that the difference shows.

`BlobGc_proofs`:

* `Typing`, `RecoveriesLackOnlyRevivedBytes` (`OnlyRevivedBytesAreLost`),
  `ReachableIsPreserved` (`PreservesReachable`) and `GarbageIsCollected`
  (`PassCollectsGarbage`). `GcInv` relates each session to its files and its
  import (`Sound`); it says that of the blobs in use, those the pass may still
  remove (`MayGo`) are marked, revived or named by files it has yet to read
  (`Marks`), and that what was garbage when it began stays garbage and on its
  list until it comes into use or a limit spares it (`Garbage`).

`McpBridge_proofs`:

* `Typing`, `SingleUse` (`ApprovalIsSpentOnce`), `ApprovedContents`
  (`ApprovedContentsAreUsed`), `OneApplication` (`ProposalAppliesOnce`) and
  `OwnWork` (`AgentUndoesItsOwnWork`). `Inv` says that an approval is in at most
  one place, among the grants, the receipts, the calls of the queue and the open
  dialogs (`InOnePlace`), unspent while it is in one (`UnspentWhileHeld`), and
  that whoever waits, waits with the revision that was approved (`Waiting`).

`EditorWindow_proofs`:

* `Typing`, `DiscardIsAgreed` (`NothingDiscardedUnasked`) and `NoSessionLeaks`
  (`SessionsAreOwned`), from `SessionInv`: a replacement that has opened a
  session owns it alone (`Ownership`), what is about to be closed is what the
  window shows or closed already (`Targets`), and a decision to discard is for
  a revision the user agreed to (`Discards`).
* `DraftsSurvive` (`DraftsAreFlushed`: a window that goes with text the renderer
  had looked at outlived its deadline) and `SealsAreReleased`
  (`SealFollowsClose`), from `HandshakeInv`: a request that is waited for is in
  one place, and one in any place that is not waited for is late
  (`RequestInOnePlace`); a seal is for the close being decided, or its release
  is on the way (`Seals`).

The window needs an induction over data: what a recursive function that sums
sizes is for every sequence. A lemma over an operator parameter cannot be
instantiated here, so `NatSetInduction` states induction for a set of naturals,
proved from the least element of its complement (`WFMin`), and `SumExists` uses
it to show that the recursion defines a function (`BytesEquation`). The choices of
the elements of a slide, each of which depends on those before it, are treated
the same way (`ChosenInTurnExist`).

Checked by TLC only: liveness under fairness, and with it `ENABLED`
(`Convergence`, `CloseIsDecided` and `ShutdownEnds`). That the runs' decks and
placeholders satisfy the assumptions of the theorems, TLC evaluates in each run.

## 6. Fairness and liveness

`CollabSession!FairSpec`: promise chains, timers and sockets make progress. Every
await of a guest that is able to go on does (`GuestProgress`), a closed
connection is noticed at either end, the heartbeat timer fires, the server
authenticates, handles requests, decides and broadcasts, and the host's user
answers a join request, or the approval timeout does. Users need not edit, leave
or join, and breaks need not happen; being bounded, they stop. `Convergence` then
says that a guest that stays ends up connected with the whole log, unless it is
`Stranded`: a `connect()` that is never settled wakes nobody, whatever the
fairness.

`EditorWindow!FairSpec`: timers fire (`DeadlinePasses`, the shutdown's deadline),
dialogs are answered and saves settle (`Decision`). The steps of the renderer, the
replacements and the tasks of the final shutdown have no fairness at all: each
may hang. `leave()` of a host settles; that of a guest may take `CloseStrands`
instead, after which nothing is promised of this window's close: `CloseIsDecided`
excepts it, and `ShutdownEnds` holds nevertheless.

The other specifications assume none: processes may stop, and users need not
act. That a collection pass ends is not claimed: a file it cannot read ends
it, and the next one.

## 7. What is not modelled

* Presence records and the synchronous `submit()` of the host (the desktop uses
  `submitAsync`); the idempotency answer's payload beyond its transaction.
* In the session manager: the autosave timer (the desktop sets it to 0) and the
  audit log beyond what an undo asks of it. Removal of a closed session's files
  is one step of `DocumentSession`; `BlobGc` lets it leave the journal behind.
* Targets that are not regular files, in `AtomicWrite`; the directory watcher
  and failing reads (a process that stops instead) in `WriterLease`; blobs that
  are damaged, or stored half, in `BlobGc`.
* In `CollabSession`: contents of presence, text leases (they are in `CollabHost`),
  limits on bytes and rates, revisions that diverge with equal contents. The
  messages of one connection arrive in order, as a socket delivers them.
* In `Deck`: elements of masters and layouts other than placeholders, assets of
  backgrounds, the elements of a duplicated slide, sizes and positions, and
  batches of several commands, which the engine runs one after the other.
  Where the engine visits bound elements in document order, `Remapped` visits
  them in some fixed order.
* In `McpBridge`: redo, revoking approvals or a client, several presentations,
  a presentation that is shared (the bridge refuses it), the contents of a batch.
* In `EditorWindow`: presentation windows, ending a collaboration from the menu,
  saving without closing, windows of other sessions (each has its own state).
  `runtime.close()` ends the session in one step: it awaits the removal of the
  recovery files before it deletes the session, but holds the session's queue,
  and what waits in it finds no session.
* Cryptography, discovery, framing, archives, rendering, exporting, geometry,
  TSV parsing: encodings and pure functions over large inputs. The editor of
  `App.tsx` is user interface.

## 8. Plan

Done: the host, the session and its recovery, the recovery store with its
abstract register, the writer lease, the blob collector, the session end to end
with its abstract specification, stale batches over the command engine, the MCP
bridge and the editor window; the proofs of section 5, of every safety property. Next, in this order:

1. Theorems about the command engine: which commands keep every reference
   resolved by themselves, without the validation after the batch.
2. Heartbeats and saves of a host around the writer lease (`collaboration-service.ts`),
   composing `WriterLease` with `CollabSession`.
3. Pure algorithms as operators: clipboard tables (TSV), the rows and columns of
   a table with merged cells, slide order.
