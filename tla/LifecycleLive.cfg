CONSTANTS
    Goroutine = {g1, g2}
    Nobody = Nobody
    Legs = 1
    Calls <- ReverseAndRestart
    SerialClient = FALSE
    CanFail = TRUE
    StoreFails = FALSE
    KeyMayChange = TRUE
    Monitored = FALSE
    MaxReversals = 1
    MaxCrashes = 1
SPECIFICATION FairSpec
PROPERTIES CancelHonoured RegistrationReleased RestartFinishesReversal
CHECK_DEADLOCK FALSE
