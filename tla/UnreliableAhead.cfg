SPECIFICATION UnreliableSpec
CONSTANTS
    Modulus = 16
    FirstUnreliable = 14
    Payloads = {p}
    MaxUnreliable = 3
PROPERTY AheadIsProcessed
CHECK_DEADLOCK FALSE
