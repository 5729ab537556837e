SPECIFICATION PoolSpec
CONSTANTS
    Tasks = {t1, t2, t3, t4}
    Workers = {w1, w2}
    Closers = {k1, k2}
    NoTask = NoTask
INVARIANTS
    PoolTypeOK
    NoSendOnClosed
    WaitDrains
    
PROPERTIES
    AcceptedTasksRun
    WaitReturns
CHECK_DEADLOCK FALSE
