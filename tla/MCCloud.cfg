SPECIFICATION PageSpec
CONSTANTS
    ClockSize = 4
    TimerDelay = 2
    Top = 2
    Owner = owner
    Guests = {guest}
    Nobody = nobody
    MaxFaults = 1
INVARIANTS
    TypeOK
    OnTime
    PairTogether
    OwnReadings
PROPERTIES
    Paced
    CatchesUp
    KeepsUpdating
