SPECIFICATION Spec
CONSTANTS
    ChunkSize = 2
    CountLimit = 4
    Lengths = {1, 3, 5, 7}
    MaxMessages = 3
    MaxReceived = 3
    Modulus = 32
    FirstUnreliable = 30
    MaxUnreliable = 3
INVARIANT TypeOK
INVARIANT MessagesIntact
INVARIANT AllDeliveredWhenDrained
CHECK_DEADLOCK FALSE
