\* One request; reads of the balances may fail.
SPECIFICATION Spec
CONSTANTS
    Keys = {k1}
    Handlers = {h1}
    Jobs = {j1}
    MaxAttempts = 1
    ReadsFail = TRUE
    NoKey = NoKey
CHECK_DEADLOCK FALSE
INVARIANT
    OnlyDustIsSwept
