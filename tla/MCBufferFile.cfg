CONSTANTS
    NumGroups = 3
    NumOfBufferFile = 1
    LocalFileSize = 1
    AliveInterval = 0
    LogExpireTime = 1
    SecondaryLimit = 1
    MaxTime = 3
    MaxFaults = 1
    MaxCrashes = 1
SPECIFICATION FairSpec
INVARIANTS SentTwiceOnlyAfterFault BufferFilesBounded AppendTargetUnread
PROPERTIES LeavesAcceptedOrReported PublishedLeaves
CHECK_DEADLOCK FALSE
