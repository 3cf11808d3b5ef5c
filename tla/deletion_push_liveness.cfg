\* One request, one handler and two overlapping runs of the job, which crash and whose
\* partners fail.  One event of a user with one device, two instances' dispatchers, which
\* crash, and an Expo that need not answer; receipts come after the end asked about.
SPECIFICATION MCFairSpec
CONSTANTS
    Keys = {k1}
    Handlers = {h1}
    Jobs = {j1, j2}
    MaxAttempts = 2
    ReadsFail = FALSE
    NoKey = NoKey
    u1 = u1
    Events = {e1}
    Users = {u1}
    Tokens = {t1}
    UserOf <- MCUserOf
    Target <- MCTarget
    Producers = {p1}
    Registrations = {r1}
    Dispatchers = {i1, i2}
    Checkers = {}
    MaxPushAttempts = 2
    MaxDevices = 1
    NoEvent = NoEvent
    NoUser = NoUser
\* The system may stop: the account is gone.
CHECK_DEADLOCK FALSE
PROPERTIES
    CleanupEnds
    OutboxDrains
