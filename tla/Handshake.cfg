SPECIFICATION Spec
CONSTANTS
    friend = friend
    stranger = stranger
    NoPeer = NoPeer
    Viewers <- MCViewers
    Trusted <- MCTrusted
    ConnectLimit = 2
    ActiveLimit = 1
    MaxGenerations = 2
    Capacity = 2
INVARIANT TypeOK
INVARIANT MutualAuthentication
INVARIANT DataMatchesKey
CHECK_DEADLOCK FALSE
