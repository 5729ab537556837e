SPECIFICATION Safety
CONSTANTS
    Conns = {c1, c2}
    NoConn = NoConn
    Forcers = {}
    Stoppers = {s1}
    InitBackoff = 1
    MaxBackoff = 1
    Startup = Startup
    Watcher = Watcher
    Subs = {u1}
    Producers = {p1}
    Consumers = {q1}
    NoName = NoName
    Loops = {l1, l2}
INVARIANT
    NoNilConnection
CHECK_DEADLOCK FALSE
