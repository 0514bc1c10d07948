SPECIFICATION FairSpec
CONSTANTS
    Tasks = {t1, t2, t3, t4}
    Producers = {p1, p2}
    Workers = {w1, w2}
    Runner = runner
    None = none
INVARIANTS
    TypeOK
    EachTaskOnce
    NoLostWakeup
    StopIsHeard
PROPERTIES
    ImplementsTaskExecutor
    EveryTaskRuns
    DestructorReturns
\* A destroyed pool stops.
CHECK_DEADLOCK FALSE
