SPECIFICATION Spec
CONSTANTS
    Conns = {c1, c2}
    NoConn = NoConn
    Msgs = {m1, m2}
    Own = {m1}
    NoMsg = NoMsg
    Chans = {h1, h2}
    NoChan = NoChan
    Prefetch = 1
INVARIANTS
    DeliveryTypeOK
    SettlesOnlyHeld
    
PROPERTIES
    ImplementsContract
    QueueDrains
    ShutdownReleases
CHECK_DEADLOCK FALSE
