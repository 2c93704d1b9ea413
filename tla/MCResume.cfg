SPECIFICATION Spec
CONSTANTS
    Servers <- TwoServers
    MaxVersion = 3
    Limits <- TrainingAndValidation
    Prompt = 1
    PromptLength = 2
    ResponseLength = 4
    MaxModelLen = 6
    PartialRollout = TRUE
    Labels = FALSE
INVARIANTS
    LimitOverCalls
    VersionsEnclosed
PROPERTIES
    UpdatedWhenIdle
    Returns
    LikeOneCall
CHECK_DEADLOCK FALSE
