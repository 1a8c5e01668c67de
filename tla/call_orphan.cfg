CONSTANTS
    Calls = {c1}
    Faults = FALSE
    EventLoss = FALSE
SPECIFICATION FairSpec
PROPERTY AudioChannelReleased
CHECK_DEADLOCK FALSE
