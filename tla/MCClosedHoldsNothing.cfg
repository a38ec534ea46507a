SPECIFICATION Spec
CONSTANTS
    HighWaterMark = 4
    MaxBuffered = 6
    TransformHwm = 2
    AdaptiveMarks <- MCAdaptiveMarks
    AppendBytes = 3
    ControlBytes = 1
    Residual = 2
    AsyncPlugins = FALSE
    MaxBurst = 3
    ControlCap = 3
    MaxAttempts = 3
INVARIANTS
    ClosedHoldsNothing
CHECK_DEADLOCK FALSE
