SPECIFICATION RCSpec
CONSTANTS
    Conns = {c1, c2}
    NoConn = NoConn
    Stoppers = {s1, s2}
    Startup = Startup
    Entries = 2
INVARIANTS
    RCTypeOK
    HealthyVerdictIsFresh
    StopReturnsStopped
    ReadyMeansStarted
PROPERTIES
    OutageReflected
    ShutdownStopsChecker
CHECK_DEADLOCK FALSE
