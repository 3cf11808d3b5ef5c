\* One request; balances are read without error.
SPECIFICATION Spec
CONSTANTS
    Keys = {k1}
    Handlers = {h1}
    Jobs = {j1}
    MaxAttempts = 1
    ReadsFail = FALSE
    NoKey = NoKey
CHECK_DEADLOCK FALSE
INVARIANT
    ScrubbedMeansClosed
