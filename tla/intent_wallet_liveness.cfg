\* One intent, one handler and two overlapping job runs; two wallets, two overlapping requests,
\* one mishap.  Liveness: no symmetry.
SPECIFICATION MCFairSpec
CONSTANTS
    Intents = {i1}
    Requests = {r1}
    Jobs = {j1, j2}
    Take = 1
    NoIntent = NoIntent
    Wallets = {w1, w2}
    Savers = {}
    Calls = {c1, c2}
    MaxTrouble = 1
    NoWallet = NoWallet
\* The system may stop: every intent is settled, every wallet is activated.
CHECK_DEADLOCK FALSE
PROPERTIES
    LandedRecordSettles
    EveryWalletActivates
