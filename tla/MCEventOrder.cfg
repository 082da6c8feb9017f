SPECIFICATION Spec
CONSTANTS
    Conns = {k1, k2}
    Addrs = {a1, a2}
    NumSlots = 2
    QueueSize = 5
    MaxEvents = 3
    Null = null
INVARIANTS
    KeepsOrder
CHECK_DEADLOCK FALSE
