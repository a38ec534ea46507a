SPECIFICATION Spec
CONSTANTS
    w1 = w1
    w2 = w2
    w3 = w3
    s1 = s1
    s2 = s2
    WsConns = {w1, w2, w3}
    RtcConns = {}
    Subjects = {s1, s2}
    RatePerMinute = 2
    MaxSessions = 1
    AsyncPlugins = FALSE
    Window = 0
    MaxHits = 4
SYMMETRY Symmetry
INVARIANTS
    QuotaHolds
CHECK_DEADLOCK FALSE
