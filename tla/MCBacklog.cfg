SPECIFICATION PromptSpec
CONSTANTS
    ClockSize = 5
    KeepAlive = 2
    SocketTimeout = 1
    MaxGap = 2
    IdSize = 3
    MaxRx = 4
    Inbound = {"QOS0", "PINGRESP"}
PROPERTY KeptAlive
