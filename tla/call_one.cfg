CONSTANTS
    Calls = {c1}
    Faults = TRUE
    EventLoss = TRUE
SPECIFICATION FairSpec
INVARIANTS TypeOK EndedOnce RegistryExact BindExact
PROPERTIES UuidServesOnce CallerReleased CallEnds ImplementsContract
CHECK_DEADLOCK FALSE
