CONSTANTS
    Caller = {c1, c2, c3}
    MaxFetches = 3
    CanFail = TRUE
    CanCancel = TRUE
    CacheErrs = TRUE
SPECIFICATION FairSpec
INVARIANTS TypeOK OneFetch NoAbandonedFlight
PROPERTIES ServesReads CallsReturn
CHECK_DEADLOCK FALSE
