SPECIFICATION Spec
CONSTANTS
    Modulus = 11
    FirstIndex = 8
    BehindThreshold = 4
    Window = 4
    Lag = 5
    MaxMessages = 4
    MaxAcks = 1
INVARIANT ListsSorted
PROPERTY ImplementsReliableTranscoder
