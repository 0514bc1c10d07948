SPECIFICATION FairSpec
CONSTANTS
    Modulus = 10
    FirstIndex = 9
    BehindThreshold = 4
    Window = 3
    Lag = 4
    MaxMessages = 3
    MaxAcks = 1
INVARIANT NoSpuriousClose
PROPERTY EventuallyDelivered
PROPERTY EventuallyCleared
