SPECIFICATION Spec
CONSTANTS
    BufferSizes = {4, 6, 7, 18}
    Radix = 4
    Topics = {1, 4, 9, 10, 11, 12, 13, 14, 20}
    Payloads = {0, 1, 2, 3, 4, 5, 6, 8, 9, 11, 12, 13, 14, 20}
    Others = {0, 2, 14, 15, 16, 17, 30}
INVARIANTS
    TypeOK
    TakesThePacket
    DeliveredAsSent
    WholeOrIgnored
    StreamedAsSent
    AckedAsSent
CHECK_DEADLOCK FALSE
