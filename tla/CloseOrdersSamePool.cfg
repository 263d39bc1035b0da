CONSTANTS
    p1 = p1
    p2 = p2
    Position <- TwoPositions
    PoolName <- TwoPools
    Assignments <- AnyPools
SPECIFICATION Spec
INVARIANT ClosesEverything
CHECK_DEADLOCK FALSE
