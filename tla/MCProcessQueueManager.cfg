SPECIFICATION Spec
CONSTANTS
  Keys = {k1, k2, k3}
  EOKeys = {1}
  sMaxPriority = 1
  LowWatermark = 0
  HighWatermark = 1
  EOConcurrency = 2
  ThreadCount = 2
SYMMETRY KeySymmetry
INVARIANTS FiledOnce IndexPointsIntoItsList RotationBounded BackPressureRecoverable
