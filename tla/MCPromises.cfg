SPECIFICATION FairSpec
CONSTANTS
    ClockSize = 4
    KeepAlive = 1
    SocketTimeout = 1
    MaxGap = 2
    IdSize = 3
    MaxRx = 2
    Inbound = {"QOS1", "PINGREQ", "PINGRESP"}
PROPERTIES
    CallsReturn
    ImplementsLink
