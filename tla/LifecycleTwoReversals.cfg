CONSTANTS
    Goroutine = {g1, g2}
    Nobody = Nobody
    Legs = 1
    Calls <- ReverseOnly
    SerialClient = TRUE
    CanFail = FALSE
    StoreFails = FALSE
    KeyMayChange = FALSE
    Monitored = FALSE
    MaxReversals = 2
    MaxCrashes = 0
SPECIFICATION Spec
SYMMETRY Slots
INVARIANT UnwindExclusive
CHECK_DEADLOCK FALSE
