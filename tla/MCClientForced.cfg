SPECIFICATION Safety
CONSTANTS
    Conns = {c1, c2}
    NoConn = NoConn
    Forcers = {f1}
    Stoppers = {s1}
    InitBackoff = 1
    MaxBackoff = 1
    Startup = Startup
    Watcher = Watcher
    Subs = {u1}
    Producers = {}
    Consumers = {q1}
    NoName = NoName
    Loops = {l1, l2}
SYMMETRY Symmetry
INVARIANTS
    EarlyLoopsDrained
PROPERTY
    ImplementsManager
CHECK_DEADLOCK FALSE
