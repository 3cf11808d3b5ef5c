\* One event of a user with two devices, two dispatchers and one receipts job; two
\* wallets, one with a trustline, two overlapping requests, one mishap.
SPECIFICATION MCSpec
CONSTANTS
    u1 = u1
    Events = {e1}
    Users = {u1}
    Tokens = {t1, t2}
    UserOf <- MCUserOf
    Target <- MCTarget
    Producers = {p1}
    Registrations = {r1}
    Dispatchers = {h1, h2}
    Checkers = {c1}
    MaxPushAttempts = 2
    MaxDevices = 2
    NoEvent = NoEvent
    NoUser = NoUser
    Wallets = {w1, w2}
    Savers = {w1}
    Calls = {h1, h2}
    MaxTrouble = 1
    NoWallet = NoWallet
SYMMETRY Symmetry
\* The system may stop: nothing is to be sent, the wallets are activated.
CHECK_DEADLOCK FALSE
INVARIANTS
    DuplicateNeedsLostAnswer
    AttemptsStayNearLimit
    ClosedMeansAnswered
    RecordsFollowChain
