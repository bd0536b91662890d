SPECIFICATION Spec
CONSTANTS
    h1 = h1
    s1 = s1
    Processes = {h1, s1}
    Hosts = {h1}
    LeaseTtl = 1
    SaveExtension = 3
    StallAtFence = FALSE
    StallAtCommit = FALSE
    MaxClock = 5
    MaxClaims = 3
    MaxRenewals = 2
    MaxSaves = 2
    NoLease = NoLease
    Torn = Torn
    NoLock = NoLock
INVARIANTS
    LiveOwnerIsNamed
    OneCommitter
PROPERTIES
    LiveLeaseStands
    TakeoverWasObserved
    SaveReplacesKnown
CHECK_DEADLOCK FALSE
