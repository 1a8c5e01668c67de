CONSTANTS
    Calls = {c1}
    MaxTurns = 1
    MaxTexts = 2
SPECIFICATION Spec
PROPERTY CancelStopsText
CHECK_DEADLOCK FALSE
