SPECIFICATION Spec
CONSTANTS
    Modulus <- MCModulus
    FirstIndex <- MCFirstIndex
    BehindThreshold = 2
    Window = 4
    Lag = 4
    MaxMessages <- MCMaxMessages
    MaxAcks = 1
INVARIANT TypeOK
INVARIANT InOrder
INVARIANT NoMessageLost
INVARIANT NothingStuck
INVARIANT StoredWindow
INVARIANT AcksTruthful
PROPERTY ImplementsOrderedDelivery
