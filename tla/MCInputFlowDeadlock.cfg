SPECIFICATION FairSpec
CONSTANTS
  Files = {f1, f2}
  MaxWrites = 2
  Imports = 0
  Rotations = 1
  LowWatermark = 0
  HighWatermark = 1
PROPERTY FilesReadToTheEnd
CHECK_DEADLOCK FALSE
