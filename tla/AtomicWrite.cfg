SPECIFICATION Spec
CONSTANTS
    a = a
    b = b
    c = c
    Contents <- ThreeContents
    MaxWrites = 3
    MaxLeftovers = 1
    Missing = Missing
    Partial = Partial
    NoWrite = NoWrite
    Unknown = Unknown
PROPERTIES
    IsRegister
INVARIANTS
    WholeGenerations
    NothingLost
    NothingLeaks
CHECK_DEADLOCK FALSE
