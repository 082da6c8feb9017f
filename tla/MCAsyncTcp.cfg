SPECIFICATION FairSpec
CONSTANTS
    Conns = {k1, k2}
    Addrs = {a1, a2}
    NumSlots = 2
    QueueSize = 3
    MaxEvents = 2
    Null = null
INVARIANTS
    TypeOK
    SlotsExclusive
    CallsGuarded
    NoStrayEvent
    OnlyArrivalsSwap
PROPERTIES
    TaskReturns
    StuckUntilRestart
CHECK_DEADLOCK FALSE
