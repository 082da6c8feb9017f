SPECIFICATION FairSpec
CONSTANTS
    ClockSize = 8
    MinInterval = 2
    ResetSpan = 2
    Boards = {b1, b2}
    None = none
    Period = 2
    Gap = 1
    Pulse = 0
    Pause = 4
    Retry = 1
    MaxFaults = 1
INVARIANTS
    TypeOK
    Fresh
    Resubscribed
PROPERTIES
    BusRested
    SomeoneHeard
