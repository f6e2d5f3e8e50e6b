SPECIFICATION FairSpec
CONSTANTS
  Files = {f1, f2}
  MaxWrites = 2
  Imports = 1
  Rotations = 1
  LowWatermark = 0
  HighWatermark = 1
INVARIANTS EventNotLost CheckedReadKept
PROPERTIES ReadUnlessDeadlocked
CHECK_DEADLOCK FALSE
