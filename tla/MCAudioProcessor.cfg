SPECIFICATION Spec
CONSTANTS
    SamplesPerChunk = 2
    Capacity = 5
    PoolSize = 3
    MaxMessage = 7
    MaxSamples = 14
INVARIANTS
    TypeOK
    RingHoldsNewest
    ResidueShort
PROPERTIES
    ImplementsQueue
CHECK_DEADLOCK FALSE
