SPECIFICATION MCFairSpec
CONSTANTS
    host = host
    v1 = v1
    v2 = v2
    Host = host
    Viewers <- MCViewers
    Null = null
    Empty = empty
    MaxSockets = 2
    MaxAnswers = 1
    MaxFaults = 2
INVARIANTS
    TypeOK
    NamesItsViewer
PROPERTIES
    PairStays
    FirstViewerConnects
    ProblemIsNoticed
\* Everybody may have made the last of the sockets.
CHECK_DEADLOCK FALSE
