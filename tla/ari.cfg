CONSTANTS
    Nodes = {n1, n2}
SPECIFICATION FairSpec
INVARIANTS TypeOK ConnectedMeansServed StopIsFinal
PROPERTIES Reconnects StopCompletes
CHECK_DEADLOCK FALSE
