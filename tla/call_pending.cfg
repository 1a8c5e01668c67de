CONSTANTS
    Calls = {c1}
    Faults = TRUE
    EventLoss = FALSE
SPECIFICATION FairSpec
PROPERTY PendingExpires
CHECK_DEADLOCK FALSE
