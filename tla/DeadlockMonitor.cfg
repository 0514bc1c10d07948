SPECIFICATION FairSpec
CONSTANTS
    report_ = report
    cleanup_ = cleanup
    Report = report
    Cleanup = cleanup
    Timers <- MCTimers
    Looping <- MCTimers
    Wait <- MCWait
    Cost <- MCCost
    TotalCost <- MCTotalCost
    Granularity = 1
    Overdue = 4
    None = none
    StartTime = 2
    Limit = 16
    Rest = 6
    TagModulus = 4
    MaxFaults = 2
INVARIANTS
    TypeOK
    CrashesAreHandled
PROPERTIES
    NoFalseAlarm
    FaultIsNoticed
\* Memory that is left locked stops everybody.
CHECK_DEADLOCK FALSE
