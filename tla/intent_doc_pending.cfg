SPECIFICATION FairSpec
CONSTANTS
    Intents = {i1}
    Requests = {r1}
    Jobs = {j1}
    Take = 1
    NoIntent = NoIntent
CHECK_DEADLOCK FALSE
PROPERTIES
    PendingSettles
