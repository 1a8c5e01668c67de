CONSTANTS
    Calls = {c1, c2, c3}
SPECIFICATION DrainSpec
INVARIANTS DrainTypeOK ActiveCallsTornDown ForcedCallsEnded
PROPERTIES DrainTerminates
CHECK_DEADLOCK FALSE
