SPECIFICATION FairSpec
CONSTANTS
    Keys = {1, 2}
    MaxCnt = 2
    ThreadCount = 2
    MaxGroups = 2
    GroupSize = 1
    MaxUpdates = 2
    MayRemove = TRUE
INVARIANTS NothingStranded EventsConserved StoppedClean
PROPERTIES BatchesLeave
CHECK_DEADLOCK FALSE
