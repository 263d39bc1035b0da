CONSTANTS
    s1 = s1
    s2 = s2
    q1 = q1
    q2 = q2
    Loan <- Loans
    Lender <- Lenders
    Pool <- Pools
    TxOf <- Transactions
    New <- JustFilled
    MaxMoves <- Moves
    Coin = {c1}
    Tx = {t1, t2}
    Request = {r1}
    None = None
SPECIFICATION Spec
SYMMETRY Same
INVARIANTS TypeOK SuccessTrue ClosesAsked
PROPERTY DuplicateSucceeds
CHECK_DEADLOCK FALSE
