CONSTANTS
    a = a
    b = b
    Address <- Addresses
    Nonce = {n1, n2}
    Handler = {h1, h2}
    Deposit = {d}
    Withdrawal = {w}
    Owner <- Owners
    Confirm = {1, 2}
    MaxBoots = 1
    None = None
SPECIFICATION Spec
SYMMETRY Same
INVARIANTS TypeOK NonceOnce CredentialLinked HistoryTrue SettledStaysSent
CHECK_DEADLOCK FALSE
