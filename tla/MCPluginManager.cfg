SPECIFICATION FairSpec
CONSTANTS
    MaxLogs = 2
    LogsCap = 1
    GroupsCap = 1
    PoolCap = 1
    Hashes = {1, 2}
    MaxInst = 2
    MaxHolds = 2
INVARIANTS FlushedOnce StoppedIsDrained CheckpointKept SameContentStoppedFirst DisabledIsTemporary
PROPERTIES StopReturnsUnlessWedged EverythingFlushed
CHECK_DEADLOCK FALSE
