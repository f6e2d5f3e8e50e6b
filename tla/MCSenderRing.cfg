SPECIFICATION RingSpec
CONSTANTS
    Items = {i1, i2, i3, i4, i5, i6}
    NULL = NULL
    SIZE = 4
    LOW_SIZE = 1
    HIGH_SIZE = 3
INVARIANTS RingInv
PROPERTIES ImplementsWatermarkQueue
CHECK_DEADLOCK FALSE
