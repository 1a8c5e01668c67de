CONSTANTS
    Calls = {c1}
    Documents <- MCDocuments
    Broken = Broken
    Missing = Missing
    None = None
    TenantIds = {"acme", "other"}
    Dids = {"100", "200"}
    MaxEdits = 2
    MaxVersion = 2
SPECIFICATION FairSpec
INVARIANTS TypeOK ServiceRoutes SessionsCoherent
PROPERTIES EditNeverForgotten EditsLoaded
CHECK_DEADLOCK FALSE
