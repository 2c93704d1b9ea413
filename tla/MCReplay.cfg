SPECIFICATION Spec
CONSTANTS
    Steps = 1
    ValBatches = 1
    BatchSize = 2
    N = 2
    NVal = 1
    Multiple = 3
    MaxErrors = 1
CHECK_DEADLOCK FALSE
INVARIANTS TypeOK BatchExact QueueDrained
PROPERTIES FitReturns
