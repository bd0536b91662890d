SPECIFICATION BoundedSpec
CONSTANTS
    s1 = s1
    s2 = s2
    Hashes = {1, 2, 3}
    Sessions = {s1, s2}
    MaxHistory = 1
    MaxEntries = 2
    MaxDeletes = 1
    MaxOpen = 1
    MaxProposals = 1
    NoSession = NoSession
    NoFiles = NoFiles
    NoImport = NoImport
    NoDocument = NoDocument
    NoPass = NoPass
SYMMETRY Symmetry
INVARIANTS
    OnlyRevivedBytesAreLost
PROPERTIES
    PassCollectsGarbage
    PreservesReachable
CHECK_DEADLOCK FALSE
