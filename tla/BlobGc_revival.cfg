SPECIFICATION ImportSpec
CONSTANTS
    s1 = s1
    s2 = s2
    Hashes = {1}
    Sessions = {s1, s2}
    MaxHistory = 1
    MaxEntries = 1
    MaxDeletes = 1
    MaxOpen = 2
    MaxProposals = 0
    NoSession = NoSession
    NoFiles = NoFiles
    NoImport = NoImport
    NoDocument = NoDocument
    NoPass = NoPass
SYMMETRY Symmetry
INVARIANTS
    RecoveryHasItsBytes
CHECK_DEADLOCK FALSE
