SPECIFICATION FairSpec
CONSTANTS
    w1 = w1
    w2 = w2
    w3 = w3
    s1 = s1
    WsConns = {w1, w2, w3}
    RtcConns = {}
    Subjects = {s1}
    RatePerMinute = 1
    MaxSessions = 2
    AsyncPlugins = TRUE
    Window = 2
    MaxHits = 2
INVARIANTS
    SlidingRate
    GaugeCountsSessions
PROPERTIES
    DrainEnds
CHECK_DEADLOCK FALSE
