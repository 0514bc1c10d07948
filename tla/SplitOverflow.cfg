\* Seven bytes are four chunks, and four is 0 in the field of the count.
SPECIFICATION Spec
CONSTANTS
    ChunkSize = 2
    CountLimit = 4
    Lengths = {1, 7}
    MaxMessages = 2
    MaxReceived = 1
    Modulus = 32
    FirstUnreliable = 30
    MaxUnreliable = 1
INVARIANT AdmittedLengthsArrive
CHECK_DEADLOCK FALSE
