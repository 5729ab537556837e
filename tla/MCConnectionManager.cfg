SPECIFICATION CMSpec
CONSTANTS
    Conns = {c1, c2, c3}
    NoConn = NoConn
    Forcers = {f1}
    Stoppers = {s1, s2}
    InitBackoff = 1
    MaxBackoff = 3
INVARIANTS
    CMTypeOK
    NoDoubleClose
    ReconnectsOnlyAfterLoss
PROPERTY
    StopEndsWatcher
CHECK_DEADLOCK FALSE
