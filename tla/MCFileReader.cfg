SPECIFICATION Spec
CONSTANTS
    Inodes = {i1, i2, i3}
    MaxFiles = 3
    MaxSize = 2
    MaxWrites = 3
    MaxRotated = 1
    MaxLag = 3
    RotatorQueueSize = 2
    TailSize = 1
    MaxDumps = 0
    MaxCrashes = 0
INVARIANTS EachPieceOnce UnreadIsPending
PROPERTIES OldestFirst
CHECK_DEADLOCK FALSE
SYMMETRY Symmetry
