CONSTANTS
    Goroutine = {g1, g2}
    Nobody = Nobody
    Legs = 2
    Calls <- AllCalls
    SerialClient = FALSE
    CanFail = TRUE
    StoreFails = TRUE
    KeyMayChange = TRUE
    Monitored = TRUE
    MaxReversals = 1
    MaxCrashes = 1
SPECIFICATION Spec
SYMMETRY Slots
INVARIANTS TypeOK Registry OpenComplete AtMostOneBuilder
CHECK_DEADLOCK FALSE
