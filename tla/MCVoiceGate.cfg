SPECIFICATION Spec
CONSTANTS
    Configs <- MCConfigs
    Sounds <- MCSounds
    EnergyFloor = 15
    FricativeRatio = 18
    FlushSizes = {7}
    MaxFrames = 3
    Loads <- MCLoads
    Rtts = {0}
    RttWindow = 1
    MaxUpdates = 2
    Prime = 7
    CosOf <- MCCosOf
    SinOf <- MCSinOf
    MinFftSize = 4
    FftSizeAsked = 5
    Hann <- MCHann
INVARIANTS
    TypeOK
    FramesAccounted
    SpectrumOfChunk
PROPERTIES
    SilenceAfterHangover
    ParametersConverge
CHECK_DEADLOCK FALSE
