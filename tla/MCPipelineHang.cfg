SPECIFICATION Spec
CONSTANTS
    Total = 6
    RequiredSamples = 2
    SyncSteps = 1
    StalenessPct = 50
    Slots = 2
    PendingSize = 1
    TestFreq = 2
    MaxFailures = 0
    MaxQueueSize = 3
    Samples <- PipelineSamples
PROPERTY TrainerServed
