CONSTANTS
    Calls = {c1}
    Faults = FALSE
    EventLoss = FALSE
SPECIFICATION FairSpec
INVARIANT EndedMeansCancelled
CHECK_DEADLOCK FALSE
