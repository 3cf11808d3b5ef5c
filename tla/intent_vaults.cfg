\* Two intents, two handlers and two overlapping job runs, each of which reads one
\* row; one vault and two overlapping calls; three payments, in pages of two, and two
\* instances.
SPECIFICATION MCSpec
CONSTANTS
    Intents = {i1, i2}
    Requests = {r1, r2}
    Jobs = {j1, j2}
    Take = 1
    NoIntent = NoIntent
    Calls = {r1, r2}
    Watchers = {r1, r2}
    MaxPayments = 3
    PageSize = 2
    MaxPages = 2
SYMMETRY Symmetry
\* The system may stop: every intent is settled or forgotten.
CHECK_DEADLOCK FALSE
INVARIANTS
    ConfirmedMeansLanded
    SentIsNeverGivenUp
    EditOutlivesSync
    ConfirmedIsShown
    NoPaymentSkipped
PROPERTIES
    RecordOnlyAdvances
    KeepsPromise
