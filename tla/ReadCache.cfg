CONSTANTS
    Caller = {c1, c2}
    TTL = 2
    Timeout = 1
    MaxTime = 5
    CacheErrs = TRUE
SPECIFICATION Spec
SYMMETRY Callers
INVARIANTS TypeOK BoundedStaleness RefreshSticks
CHECK_DEADLOCK FALSE
