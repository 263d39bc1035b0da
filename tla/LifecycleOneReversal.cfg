CONSTANTS
    Goroutine = {g1, g2, g3}
    Nobody = Nobody
    Legs = 2
    Calls <- ReverseOnly
    SerialClient = TRUE
    CanFail = TRUE
    StoreFails = TRUE
    KeyMayChange = TRUE
    Monitored = TRUE
    MaxReversals = 1
    MaxCrashes = 2
SPECIFICATION Spec
SYMMETRY Slots
INVARIANT UnwindExclusive
CHECK_DEADLOCK FALSE
