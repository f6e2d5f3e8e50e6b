SPECIFICATION FairSpec
CONSTANTS
    Items = {i1, i2, i3}
    NULL = NULL
    SIZE = 2
    LOW_SIZE = 1
    HIGH_SIZE = 2
    MaxConcurrency = 2
    RequestConcurrency = 1
    NumRegions = 3
    RegionErrorCount = 1
    NetworkErrorCount = 2
    QuotaExceedCount = 1
    SendRetryTimes = 1
    UnauthRetryTimes = 1
    UnknownTryMax = 1
    ProfileRetryTimes = 1
    RetryCap = 2
    ProfileItems = {i2}
    Errors = {"network", "server", "quota", "unauthorized", "parameter", "sequence_id", "time_expired", "other"}
    FullDrain = FALSE
    MaxUpdates = 2
    MayExit = TRUE
    Late = {i3}
CONSTRAINT LateGivesUp
INVARIANTS OneSenderPerItem CountersAccurate NoGroupVanishes
PROPERTIES OneOutcome BackPressureEnds
CHECK_DEADLOCK FALSE
