SPECIFICATION FairSpec
CONSTANTS
    friend = friend
    stranger = stranger
    Viewers <- MCTrusted
    NoPeer = NoPeer
    Trusted <- MCTrusted
    ConnectLimit = 2
    ActiveLimit = 1
    MaxGenerations = 2
    Capacity = 2
PROPERTY SlotIsReleased
PROPERTY HalfOpenIsNoticed
CHECK_DEADLOCK FALSE
