SPECIFICATION FairSpec
CONSTANTS
  Concurrency = 2
  FileEnd = 3
  LineEnds <- MCLineEnds
  BufferSize = 2
  PositionModulus = 8
  MaxGroups = 3
  MaxCrashes = 1
  MaxNetErrors = 1
INVARIANTS CrashLosesNothing AcceptedOnce ReplaySlotFree
PROPERTIES EverythingAccepted
CHECK_DEADLOCK FALSE
