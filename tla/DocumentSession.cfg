SPECIFICATION Spec
CONSTANTS
    d1 = d1
    d2 = d2
    d3 = d3
    Documents <- ThreeDocuments
    Paths = {"deck"}
    Groups = {"typing"}
    MaxHistory = 2
    MaxRecords = 2
    NoDocument = NoDocument
    NoPath = NoPath
    NoGroup = NoGroup
    NoSession = NoSession
    NoRecovery = NoRecovery
    NoOp = NoOp
SYMMETRY DocumentSymmetry
INVARIANTS
    RecoveryIsAcknowledged
    CleanIsRotated
    HistoryIsOneLine
PROPERTIES
    SaveReplacesKnownContent
CHECK_DEADLOCK FALSE
