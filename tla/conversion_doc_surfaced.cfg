\* One conversion, one request at a time.
SPECIFICATION FairSpec
CONSTANTS
    Conversions = {c1}
    Deposits = {d1}
    Requests = {r1}
    NoConversion = NoConversion
    NoDeposit = NoDeposit
CHECK_DEADLOCK FALSE
PROPERTY
    LandedIsSurfaced
