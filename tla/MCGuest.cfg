SPECIFICATION Spec
CONSTANTS
    ClockSize = 3
    TimerDelay = 1
    Top = 2
    Owner = owner
    Guests = {guest}
    Nobody = nobody
    MaxFaults = 1
INVARIANT PageUpdated
