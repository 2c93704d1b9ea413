SPECIFICATION Spec
CONSTANTS
    Modes = {"relay"}
    MaxSpecLen = 3
    MaxTakeoverTokens = 4
    ParagraphsPerTakeover = 2
    MaxTakeovers = 2
    HasStopId = TRUE
    TriggerKinds = {"text", "para"}
    OutOfVocab = {"invalid"}
    MaxTokens = 24
INVARIANT TypeOK
INVARIANT LegBounded
INVARIANT TakeoverBudget
INVARIANT StopEventExact
INVARIANT StopAfterFullLeg
PROPERTY WritesInTurns
CHECK_DEADLOCK FALSE
