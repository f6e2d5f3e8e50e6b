SPECIFICATION FairSpec
CONSTANTS
    Inodes = {1, 2}
    MaxFiles = 2
    MaxSize = 2
    MaxWrites = 2
    MaxRotated = 1
    MaxLag = 2
    RotatorQueueSize = 2
    TailSize = 1
    MaxDumps = 1
    MaxCrashes = 1
INVARIANTS EachPieceOnce NoReaderBehindCheckPoint
PROPERTIES UnreadIsCollected
CHECK_DEADLOCK FALSE
