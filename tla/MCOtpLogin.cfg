\* Three calls over an account with phone and email, outside production; codes that
\* expire after one instant of three, one wrong code to exhaust a row.
SPECIFICATION Spec
CONSTANTS
    c1 = c1
    c2 = c2
    c3 = c3
    x = x
    y = y
    Call = {c1, c2, c3}
    Code = {x, y}
    FixedCode = x
    DevCode = y
    Production = FALSE
    HasEmail = TRUE
    MaxAttempts = 1
    Expiry = 1
    MaxTime = 3
    NoOtp = NoOtp
SYMMETRY CallSymmetry
INVARIANTS
    WrongCounted
    TokensSpendARow
    RenewalSupersedes
PROPERTY RowsOnlyWear
CHECK_DEADLOCK FALSE
