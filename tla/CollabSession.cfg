SPECIFICATION FairSpec
CONSTANTS
    Guests = {g1}
    HostUser = HostUser
    Nobody = Nobody
    TailLimit = 1
    ReconnectLimit = 3
    JoinBufferLimit = 1
    MaxBatches = 2
    MaxFaults = 2
INVARIANTS NoSilentGap ReadYourWrites NothingBeyondTheFile
PROPERTIES ReplicasFollow Convergence
CHECK_DEADLOCK FALSE
