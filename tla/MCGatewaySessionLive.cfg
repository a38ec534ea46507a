SPECIFICATION FairSpec
CONSTANTS
    HighWaterMark = 3
    MaxBuffered = 4
    TransformHwm = 1
    AdaptiveMarks <- MCAdaptiveMarks
    AppendBytes = 2
    ControlBytes = 1
    Residual = 1
    AsyncPlugins = FALSE
    MaxBurst = 2
    ControlCap = 2
    MaxAttempts = 1
PROPERTIES
    PausedResumes
    PressureNoticed
    GoneClientNoticed
CHECK_DEADLOCK FALSE
