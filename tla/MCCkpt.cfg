SPECIFICATION Spec
CONSTANTS
    Retention <- KeepTwoOrMore
    SaveFreq = 2
    LastVersion = 7
    MaxCrashes = 2
CHECK_DEADLOCK FALSE
INVARIANTS TypeOK TrackerSound DiskBounded
PROPERTIES RestartKeepsProgress TrainingCompletes
