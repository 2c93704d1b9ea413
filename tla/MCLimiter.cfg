SPECIFICATION Spec
CONSTANTS
    r1 = r1
    r2 = r2
    Requests = {r1, r2, r3}
    Second = 3
    Configurations <- Limits
    MaxConcurrent = 2
    Threads = 2
    Hangs <- HangSets
INVARIANTS RateKept
PROPERTIES EveryRequestScored
