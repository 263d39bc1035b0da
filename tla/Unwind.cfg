CONSTANTS
    p1 = p1
    p2 = p2
    Position <- TwoPositions
    PoolName <- TwoPools
    Assignments <- AnyPools
    settleMaxPolls = 7
    Proceeds = Proceeds
SPECIFICATION UnwindSpec
INVARIANTS UnwindTypeOK SweepComplete
PROPERTIES OwnRepayKept AllClosed FundsReturn
CHECK_DEADLOCK FALSE
