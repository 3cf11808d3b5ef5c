\* Two gifts of one sender, two overlapping creations, two overlapping claims; a
\* person with two wallets and two names to choose from, and two requests; two
\* vaults, an asset with a feed and one without, and one valuation at a time.
SPECIFICATION MCFairSpec
CONSTANTS
    Gifts = {g1, g2}
    Creators = {r1, r2}
    Claims = {c1, c2}
    Jobs = {j1}
    MaxPending = 1
    NoGift = NoGift
    NoClaim = NoClaim
    Addresses = {x, y}
    UserNames = {n1, n2}
    Logins = {r1, r2}
    MaxUsers = 2
    MaxWallets = 3
    NoName = NoName
    NoUser = NoUser
    v1 = v1
    v2 = v2
    a1 = a1
    a2 = a2
    Vaults = {v1, v2}
    Assets = {a1, a2}
    AssetOf <- MCAssetOf
    Feeds = {a1}
    Static = {a1}
    PriceTtl = 2
    StaleAfter = 1
    Valuers = {h1}
\* The system may stop: every gift is closed.
CHECK_DEADLOCK FALSE
INVARIANTS
    LockIsExclusive
    ClaimedIsPaidToRecipient
    RefundedLeavesNothing
    TombstoneIsNobody
    TotalIsWhole
    UnflaggedPriceIsRecent
PROPERTIES
    NameIsPermanent
    ExpiredGoneIsClosed
