CONSTANTS
    Workers = {w1, w2}
    Tasks = {t1, t2, t3, t4}
    MaxPanics = 2
    MaxTasks = 3
CHECK_DEADLOCK FALSE
SPECIFICATION ThreadsSpec
INVARIANTS
    ErrorsExact
    InFlightAccounted
    SendSucceeds
    PoolDropped
PROPERTIES
    InterruptStopsTask
    PoolDrains
