SPECIFICATION Spec
CONSTANTS
    Deployments <- OneOrTwo
    Driver = "rank0"
    MaxRow = 2
    MaxTokens = 3
    ExportAction = FALSE
INVARIANTS
    MaskSound
    ResponseExact
    NeverRaises
    StoresDrained
PROPERTY GenerateReturns
CHECK_DEADLOCK FALSE
