SPECIFICATION Spec
CONSTANTS
    shape = shape
    title = title
    c1 = c1
    c2 = c2
    Clients = {c1, c2}
    RequestIds = {"q1"}
    Keys <- LeaseKeys
    Bodies <- LeaseBodies
    TextElements <- LeaseElements
    Protects <- LeaseProtects
    Revisions <- OneRevision
    InitialRevision = "r0"
    TailLimit = 2
    IdempotencyLimit = 2
    MaxIdempotencyBytes = 2
    MaxTailResyncBytes = 2
    TextLeaseTtl = 1
    MaxCommits = 2
    MaxClock = 2
    MaxTokens = 3
    NoSubmission = NoSubmission
    NoLease = NoLease
    NoRevision = NoRevision
INVARIANTS
    ForeignLeaseIsYounger
    LeaseOnlyOnLiveText
CHECK_DEADLOCK FALSE
