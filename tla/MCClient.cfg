SPECIFICATION Spec
CONSTANTS
    ClockSize = 5
    KeepAlive = 2
    SocketTimeout = 1
    MaxGap = 2
    IdSize = 3
    MaxRx = 3
    Inbound = {"QOS0", "QOS1", "OVERSIZE", "PINGREQ", "PINGRESP", "BADLEN"}
INVARIANTS
    TypeOK
    BrokerNotStarved
    HungDetected
    ConnectedOnlyAfterConnack
    NoHalfOpenSocket
    PingAccounting
    InStep
    IdsValid
PROPERTIES
    PatientWithBroker
