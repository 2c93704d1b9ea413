SPECIFICATION Spec
CONSTANTS
    Total = 8
    RequiredSamples = 2
    SyncSteps = 1
    StalenessPct = 100
    Slots = 2
    PendingSize = 1
    TestFreq = 2
    MaxFailures = 1
    MaxQueueSize = 4
    Samples <- PipelineSamples
INVARIANTS
    TypeOK
    StatisticsAddUp
    RunsAheadBounded
PROPERTIES
    TrainingEnds
    DeliversStream
