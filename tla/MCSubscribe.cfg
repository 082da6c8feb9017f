SPECIFICATION Spec
CONSTANTS
    BufferSizes = {256}
    Strings = {0, 20, 118, 246, 247, 248, 249}
    Payloads = {0, 1, 127, 128, 16381, 65533, 65534}
INVARIANT SubscribeFits
