SPECIFICATION Spec
CONSTANTS
    BufferSizes = {1, 4, 9, 14, 15, 256}
    Strings = {0, 1, 20, 119, 209, 238, 239, 246, 247, 248, 300}
    Payloads = {0, 1, 16, 127, 128, 231, 249, 250, 16381, 65533, 65534, 268435456}
INVARIANTS
    TypeOK
    FitsBuffer
    HeaderFits
    LengthAnnounced
CHECK_DEADLOCK FALSE
