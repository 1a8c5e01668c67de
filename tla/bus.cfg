CONSTANTS
    Calls = {c1}
    MaxTurns = 1
    MaxTexts = 3
SPECIFICATION FairSpec
INVARIANTS TypeOK SlotExact AnswerWhole
PROPERTIES ImplementsStream TurnEnds
CHECK_DEADLOCK FALSE
