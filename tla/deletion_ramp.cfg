\* One deletion, opened and confirmed by two overlapping handlers, and one run of the
\* job; an account with one operation, one gift and two vaults, and one check; one
\* order of any kind, two overlapping calls of its owner and two overlapping reports;
\* two customers and two handlers.
SPECIFICATION MCSpec
CONSTANTS
    Keys = {k1}
    Handlers = {h1, h2}
    Jobs = {j1}
    MaxAttempts = 2
    ReadsFail = TRUE
    NoKey = NoKey
    Vaults = {h1, h2}
    Ops = {p1}
    Orders = {o1}
    Askers = {h1, h2}
    Reporters = {h1, h2}
    MaxQuotes = 2
    NoOrder = NoOrder
    Customers = {c1, c2}
    Callers = {h1, h2}
    Judged = {"approved", "rejected", "compliance_request", "proposed", "approved_chain_deploying"}
    NoCustomer = NoCustomer
SYMMETRY Symmetry
\* The system may stop: the account is gone, the order is over, the owner is known.
CHECK_DEADLOCK FALSE
INVARIANTS
    ClosedMeansMerged
    CompletedMeansErased
    EligibleMeansFree
    PayoutIsOfSignedQuote
    RecordedPayoutClosesOrder
    EndIsTold
    
    PushNamesItsCustomer
PROPERTIES
    ClosureComesFirst
