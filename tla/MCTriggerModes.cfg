SPECIFICATION Spec
CONSTANTS
    Modes = {"relay", "trigger_stop"}
    MaxSpecLen = 3
    MaxTakeoverTokens = 4
    ParagraphsPerTakeover = 0
    MaxTakeovers = 3
    HasStopId = TRUE
    TriggerKinds = {"text", "para"}
    OutOfVocab = {}
    MaxTokens = 24
INVARIANT StopEventExact
PROPERTY WritesInTurns
PROPERTY StopKeepsDivergentToken
CHECK_DEADLOCK FALSE
