CONSTANTS
    Line = k1
    Conns = {k1, k2}
    StartFrames = 2
    StopFrames = 1
    MaxAudio = 1
    Chunks = 1
SPECIFICATION MediaSpec
INVARIANTS MediaTypeOK BookExact ReportedOnce StopReaches
PROPERTIES BargeInSustained AudioKept AgentReleased StopCompletes
CHECK_DEADLOCK FALSE
