SPECIFICATION Spec
CONSTANTS
  Clients = {"b", "c"}
  Bootstrap = "b"
  ProposalLimit = 1
  GrantLimit = 1
  ReceiptLimit = 2
  MaxTransactions = 2
  MaxProposals = 1
  MaxApprovals = 2
  MaxWaiting = 2
INVARIANTS ApprovalIsSpentOnce ApprovedContentsAreUsed ProposalAppliesOnce
PROPERTIES AgentUndoesItsOwnWork
CHECK_DEADLOCK FALSE
