CONSTANTS
    Calls = {c1}
    Faults = FALSE
    EventLoss = FALSE
SPECIFICATION DrainedSpec
CHECK_DEADLOCK FALSE
INVARIANT NothingLeft
