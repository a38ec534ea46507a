SPECIFICATION Spec
CONSTANTS
    SamplesPerChunk = 2
    Capacity = 9
    PoolSize = 3
    MaxMessage = 8
    MaxSamples = 16
INVARIANTS
    PoolHoldsBurst
CHECK_DEADLOCK FALSE
