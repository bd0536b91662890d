SPECIFICATION Spec
CONSTANTS
    shape = shape
    title = title
    c1 = c1
    c2 = c2
    Clients = {c1}
    RequestIds = {"q1", "q2", "q3"}
    Keys = {shape, title}
    Bodies <- OrderingBodies
    TextElements <- NoElements
    Protects <- NoProtects
    Revisions <- TwoRevisions
    InitialRevision = "r0"
    TailLimit = 2
    IdempotencyLimit = 2
    MaxIdempotencyBytes = 3
    MaxTailResyncBytes = 2
    TextLeaseTtl = 1
    MaxCommits = 4
    MaxClock = 0
    MaxTokens = 0
    NoSubmission = NoSubmission
    NoLease = NoLease
    NoRevision = NoRevision
INVARIANTS
    NoLostUpdate
    ConflictIndexExact
    IdempotencyIsRecentWindow
    AtMostOnce
    ResyncSound
CHECK_DEADLOCK FALSE
