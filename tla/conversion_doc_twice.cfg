\* One conversion, two requests with a deposit key each.
SPECIFICATION Spec
CONSTANTS
    Conversions = {c1}
    Deposits = {d1, d2}
    Requests = {r1, r2}
    NoConversion = NoConversion
    NoDeposit = NoDeposit
CHECK_DEADLOCK FALSE
INVARIANT
    OneDepositPerConversion
