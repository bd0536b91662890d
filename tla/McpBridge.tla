----------------------------- MODULE McpBridge -----------------------------
(***************************************************************************)
(* The desktop side of the agent bridge (apps/desktop/src/main/            *)
(* mcp-bridge.ts) over one presentation that is open, visible and not      *)
(* shared, together with the session queue on which the document runtime   *)
(* runs agents' and people's transactions one at a time                    *)
(* (document-runtime/src/session-manager.ts).                              *)
(*                                                                         *)
(* A client proposes a batch against the current revision.  A destructive  *)
(* batch, an undo, an import and an export need an approval, which the     *)
(* person grants in the desktop.  The helper consumes the grant (it        *)
(* becomes a receipt) and calls the operation, which takes the receipt     *)
(* and then waits: for the session queue, or for a file dialog.  Grants,   *)
(* receipts and proposals may expire between any two steps, and the person *)
(* keeps editing and undoing meanwhile.                                    *)
(*                                                                         *)
(* A revision is a digest of the document's contents, and undoing restores *)
(* the contents exactly: here it is the sequence of the transactions in    *)
(* force.  The bridge's copy of a proposal and the runtime's are one       *)
(* record: they differ only between the end of a commit and its answer.    *)
(***************************************************************************)
EXTENDS Integers, FiniteSets, SequencesExt

CONSTANTS
  Clients,          \* the trusted clients
  Bootstrap,        \* the one the desktop issues approvals to
  ProposalLimit,    \* MCP_LIMITS.maxPendingProposals
  GrantLimit,       \* MCP_LIMITS.maxPendingApprovals
  ReceiptLimit,     \* MCP_LIMITS.maxApprovalReceipts
  MaxTransactions,  \* bound on the transactions of a behaviour
  MaxProposals,     \* bound on the proposals made
  MaxApprovals,     \* bound on the approvals issued
  MaxWaiting        \* bound on the operations waiting in the session queue

ASSUME BootstrapAssumption == Bootstrap \in Clients

VARIABLES
  history,    \* the transactions in force, oldest first: the revision
  log,        \* every transaction made, with who made it and how
  proposals,  \* every proposal made
  pending,    \* those that are neither expired nor committed
  approvals,  \* every approval issued
  grants,     \* #approvals: those not yet consumed
  receipts,   \* #receipts: those consumed and not yet taken, oldest first
  queue,      \* the session queue
  dialogs     \* imports and exports whose file dialog is open

vars == <<history, log, proposals, pending, approvals, grants, receipts,
          queue, dialogs>>

Actions == {"commit-destructive", "undo", "import", "export"}
None == 0

Revision == Seq(Nat)
Transaction == [by: Clients \cup {"human"}, how: {"edit", "commit", "import"}]
Proposal == [client: Clients, base: Revision, requiresApproval: BOOLEAN,
             appliedOn: Seq(Revision)]
Approval == [client: Clients, action: Actions, rev: Revision, spentOn: Seq(Revision)]
Call == [kind: {"human-edit", "human-undo"}, rev: Revision]
        \cup [kind: {"commit"}, proposal: Nat, approval: Nat]
        \cup [kind: {"undo"}, client: Clients, tx: Nat, rev: Revision, approval: Nat]
        \cup [kind: {"import"}, client: Clients, rev: Revision, approval: Nat]
Dialog == [action: {"import", "export"}, client: Clients, approval: Nat, rev: Revision]

TypeOK ==
    /\ history \in Revision /\ log \in Seq(Transaction)
    /\ proposals \in Seq(Proposal) /\ pending \subseteq 1..Len(proposals)
    /\ approvals \in Seq(Approval) /\ grants \subseteq 1..Len(approvals)
    /\ receipts \in Seq(Nat) /\ \A i \in 1..Len(receipts) : receipts[i] \in 1..Len(approvals)
    /\ queue \in Seq(Call)
    /\ dialogs \subseteq Dialog /\ \A d \in dialogs : d.approval \in 1..Len(approvals)
Init ==
  /\ history = <<>>
  /\ log = <<>>
  /\ proposals = <<>>
  /\ pending = {}
  /\ approvals = <<>>
  /\ grants = {}
  /\ receipts = <<>>
  /\ queue = <<>>
  /\ dialogs = {}

----------------------------------------------------------------------------
(* What the session queue runs. *)

Enqueue(op) ==
  /\ Len(queue) < MaxWaiting
  /\ queue' = Append(queue, op)

IsNext(kind) == queue # <<>> /\ Head(queue).kind = kind

\* The transaction that `by` makes in force, if the bound leaves room for it.
Execute(by, how) ==
  /\ Len(log) < MaxTransactions
  /\ log' = Append(log, [by |-> by, how |-> how])
  /\ history' = Append(history, Len(log) + 1)

Undo == history' = Front(history)

\* The approval was used for something done to the current contents.
Spend(a) ==
  approvals' = IF a = None THEN approvals
               ELSE [approvals EXCEPT ![a].spentOn = Append(@, history)]

----------------------------------------------------------------------------
(* The person at the desktop. *)

HumanCalls(kind) ==
  /\ kind = "undo" => history # <<>>
  /\ Enqueue([kind |-> IF kind = "undo" THEN "human-undo" ELSE "human-edit",
              rev |-> history])
  /\ UNCHANGED <<history, log, proposals, pending, approvals, grants, receipts,
                 dialogs>>

RunHumanEdit ==
  /\ IsNext("human-edit")
  /\ IF Head(queue).rev = history THEN Execute("human", "edit")
                                  ELSE UNCHANGED <<history, log>>
  /\ queue' = Tail(queue)
  /\ UNCHANGED <<proposals, pending, approvals, grants, receipts, dialogs>>

RunHumanUndo ==
  /\ IsNext("human-undo")
  /\ IF Head(queue).rev = history /\ history # <<>> THEN Undo
                                                    ELSE UNCHANGED history
  /\ queue' = Tail(queue)
  /\ UNCHANGED <<log, proposals, pending, approvals, grants, receipts, dialogs>>

\* issueApproval: bound to the client, the action and the current revision.
IssueApproval(action) ==
  /\ Cardinality(grants) < GrantLimit
  /\ Len(approvals) < MaxApprovals
  /\ approvals' = Append(approvals, [client |-> Bootstrap, action |-> action,
                                     rev |-> history, spentOn |-> <<>>])
  /\ grants' = grants \cup {Len(approvals) + 1}
  /\ UNCHANGED <<history, log, proposals, pending, receipts, queue, dialogs>>

----------------------------------------------------------------------------
(* Approvals. *)

Matches(a, c, action) ==
  approvals[a].client = c /\ approvals[a].action = action

\* consumeApproval: the grant becomes a receipt, or nothing happens.
ConsumeApproval(c, a) ==
  /\ a \in grants
  /\ approvals[a].client = c
  /\ approvals[a].rev = history
  /\ Len(receipts) < ReceiptLimit
  /\ grants' = grants \ {a}
  /\ receipts' = Append(receipts, a)
  /\ UNCHANGED <<history, log, proposals, pending, approvals, queue, dialogs>>

\* #takeReceipt: the receipt the caller names, or, when it names none, its
\* first receipt for that action.
Oldest(c, action) ==
  {receipts[i] : i \in {i \in DOMAIN receipts :
     /\ Matches(receipts[i], c, action)
     /\ \A j \in 1..(i - 1) : ~Matches(receipts[j], c, action)}}

Named(c) == {a \in Range(receipts) : approvals[a].client = c}

\* The receipt is gone whatever comes of the call ...
TakeReceiptKeepingIt(a) == UNCHANGED receipts
TakeReceipt(a) ==
  \E i \in DOMAIN receipts : receipts[i] = a /\ receipts' = RemoveAt(receipts, i)

\* ... which goes on only for the action and the revision approved.
Admitted(a, c, action) ==
  Matches(a, c, action) /\ approvals[a].rev = history

GrantExpires(a) ==
  /\ a \in grants
  /\ grants' = grants \ {a}
  /\ UNCHANGED <<history, log, proposals, pending, approvals, receipts, queue,
                 dialogs>>

ReceiptExpires(a) ==
  /\ TakeReceipt(a)
  /\ UNCHANGED <<history, log, proposals, pending, approvals, grants, queue,
                 dialogs>>

----------------------------------------------------------------------------
(* Proposals. *)

\* proposeCommands: requiresApproval is what simulating the batch shows.
Propose(c, requiresApproval) ==
  /\ Cardinality(pending) < ProposalLimit
  /\ Len(proposals) < MaxProposals
  /\ proposals' = Append(proposals, [client |-> c, base |-> history,
                                     requiresApproval |-> requiresApproval,
                                     appliedOn |-> <<>>])
  /\ pending' = pending \cup {Len(proposals) + 1}
  /\ UNCHANGED <<history, log, approvals, grants, receipts, queue, dialogs>>

ProposalExpires(p) ==
  /\ p \in pending
  /\ pending' = pending \ {p}
  /\ UNCHANGED <<history, log, proposals, approvals, grants, receipts, queue,
                 dialogs>>

\* commitProposal, up to the point where it awaits the session queue.
CommitProposal(c, p) ==
  /\ p \in pending
  /\ proposals[p].client = c
  /\ IF proposals[p].requiresApproval
     THEN \E a \in Named(c) \cup Oldest(c, "commit-destructive") :
            /\ TakeReceipt(a)
            /\ IF Admitted(a, c, "commit-destructive")
               THEN Enqueue([kind |-> "commit", proposal |-> p, approval |-> a])
               ELSE UNCHANGED queue
     ELSE /\ Enqueue([kind |-> "commit", proposal |-> p, approval |-> None])
          /\ UNCHANGED receipts
  /\ UNCHANGED <<history, log, proposals, pending, approvals, grants, dialogs>>

CommitKeepingTheProposal(p) ==
  /\ UNCHANGED pending
  /\ Execute(proposals[p].client, "commit")
  /\ proposals' = [proposals EXCEPT ![p].appliedOn = Append(@, history)]

\* The runtime commits on the base revision only, and drops the proposal.
Commit(p) ==
  /\ pending' = pending \ {p}
  /\ Execute(proposals[p].client, "commit")
  /\ proposals' = [proposals EXCEPT ![p].appliedOn = Append(@, history)]

RunCommit ==
  /\ IsNext("commit")
  /\ LET op == Head(queue) IN
     IF op.proposal \in pending /\ proposals[op.proposal].base = history
     THEN Commit(op.proposal) /\ Spend(op.approval)
     ELSE UNCHANGED <<history, log, proposals, pending, approvals>>
  /\ queue' = Tail(queue)
  /\ UNCHANGED <<grants, receipts, dialogs>>

----------------------------------------------------------------------------
(* Undoing an agent's transaction. *)

IsCommitOf(t, c) == log[t] = [by |-> c, how |-> "commit"]

\* undoAgentTransaction takes no approval id: the oldest receipt serves.
UndoAgentTransaction(c, t) ==
  /\ \E a \in Oldest(c, "undo") :
       /\ TakeReceipt(a)
       /\ IF Admitted(a, c, "undo") /\ IsCommitOf(t, c)
          THEN Enqueue([kind |-> "undo", client |-> c, tx |-> t,
                        rev |-> history, approval |-> a])
          ELSE UNCHANGED queue
  /\ UNCHANGED <<history, log, proposals, pending, approvals, grants, dialogs>>

\* Only the latest entry of the history may be undone by an agent.
UndoableWhileInForce(op) == op.tx \in Range(history)
Undoable(op) ==
  history # <<>> /\ history[Len(history)] = op.tx /\ op.rev = history

RunUndo ==
  /\ IsNext("undo")
  /\ LET op == Head(queue) IN
     IF Undoable(op) THEN Undo /\ Spend(op.approval)
                     ELSE UNCHANGED <<history, approvals>>
  /\ queue' = Tail(queue)
  /\ UNCHANGED <<log, proposals, pending, grants, receipts, dialogs>>

----------------------------------------------------------------------------
(* Imports and exports: a file dialog comes first. *)

RequestFile(c, action) ==
  /\ \E a \in Named(c) :
       /\ TakeReceipt(a)
       /\ dialogs' = IF Admitted(a, c, action)
                     THEN dialogs \cup {[action |-> action, client |-> c,
                                         approval |-> a,
                                         rev |-> approvals[a].rev]}
                     ELSE dialogs
  /\ UNCHANGED <<history, log, proposals, pending, approvals, grants, queue>>

FileCancelled(d) ==
  /\ d \in dialogs
  /\ dialogs' = dialogs \ {d}
  /\ UNCHANGED <<history, log, proposals, pending, approvals, grants, receipts,
                 queue>>

ImportChosen(d) ==
  /\ d \in dialogs /\ d.action = "import"
  /\ Enqueue([kind |-> "import", client |-> d.client, rev |-> d.rev,
              approval |-> d.approval])
  /\ dialogs' = dialogs \ {d}
  /\ UNCHANGED <<history, log, proposals, pending, approvals, grants, receipts>>

RunImport ==
  /\ IsNext("import")
  /\ LET op == Head(queue) IN
     IF op.rev = history THEN Execute(op.client, "import") /\ Spend(op.approval)
                         ELSE UNCHANGED <<history, log, approvals>>
  /\ queue' = Tail(queue)
  /\ UNCHANGED <<proposals, pending, grants, receipts, dialogs>>

\* exportSessionDocument compares the revision again after its dialog.
ExportedUnchecked(d) == Spend(d.approval)
Exported(d) == IF d.rev = history THEN Spend(d.approval) ELSE UNCHANGED approvals

ExportChosen(d) ==
  /\ d \in dialogs /\ d.action = "export"
  /\ Exported(d)
  /\ dialogs' = dialogs \ {d}
  /\ UNCHANGED <<history, log, proposals, pending, grants, receipts, queue>>

----------------------------------------------------------------------------

Next ==
  \/ \E kind \in {"edit", "undo"} : HumanCalls(kind)
  \/ RunHumanEdit \/ RunHumanUndo \/ RunCommit \/ RunUndo \/ RunImport
  \/ \E action \in Actions : IssueApproval(action)
  \/ \E a \in DOMAIN approvals :
       GrantExpires(a) \/ ReceiptExpires(a)
         \/ \E c \in Clients : ConsumeApproval(c, a)
  \/ \E c \in Clients :
       \/ \E requiresApproval \in BOOLEAN : Propose(c, requiresApproval)
       \/ \E p \in DOMAIN proposals : CommitProposal(c, p)
       \/ \E t \in DOMAIN log : UndoAgentTransaction(c, t)
       \/ \E action \in {"import", "export"} : RequestFile(c, action)
  \/ \E p \in DOMAIN proposals : ProposalExpires(p)
  \/ \E d \in dialogs : FileCancelled(d) \/ ImportChosen(d) \/ ExportChosen(d)

Spec == Init /\ [][Next]_vars

----------------------------------------------------------------------------
(* Properties. *)

\* An approval lets its holder do one thing, however often the operation is
\* called before the queue or a dialog gets to it: single-use approvals.
ApprovalIsSpentOnce ==
  \A a \in DOMAIN approvals : Len(approvals[a].spentOn) <= 1

\* What is undone, imported or exported is the revision the person approved,
\* although a queue or a dialog, with other edits in it, comes in between.
ApprovedContentsAreUsed ==
  \A a \in DOMAIN approvals :
    approvals[a].action # "commit-destructive" =>
      \A i \in DOMAIN approvals[a].spentOn :
        approvals[a].spentOn[i] = approvals[a].rev

\* A batch takes effect once, on the contents it was validated against, even
\* when an undo brings those contents back and the commit is called again.
ProposalAppliesOnce ==
  \A p \in DOMAIN proposals :
    LET on == proposals[p].appliedOn
    IN  Len(on) <= 1 /\ \A i \in DOMAIN on : on[i] = proposals[p].base

\* Undoing for an agent takes back that agent's own latest batch and nothing
\* else: never a person's edit, another client's, or one made since.
AgentUndoesItsOwnWork ==
  [][ history' # history /\ IsNext("undo") =>
        /\ history' = Front(history)
        /\ IsCommitOf(history[Len(history)], Head(queue).client) ]_vars

\* "Destructive commit, undo, import, and export retain a single-use desktop
\* approval bound to client, action, document, and revision"
\* (docs/architecture.md:273): a destructive commit changes the contents
\* that were on the screen when it was approved.
CommitIsOfTheApprovedRevision ==
  \A a \in DOMAIN approvals :
    \A i \in DOMAIN approvals[a].spentOn :
      approvals[a].spentOn[i] = approvals[a].rev
============================================================================
