SPECIFICATION FairSpec
CONSTANTS
    Sessions = {1, 2}
    Replacements = {o1}
    Tasks = {collaboration}
    MaxEdits = 2
    MaxCloses = 2
INVARIANTS NothingDiscardedUnasked SessionsAreOwned DraftsAreFlushed SealFollowsClose
PROPERTIES CloseIsDecided ShutdownEnds
CHECK_DEADLOCK FALSE
