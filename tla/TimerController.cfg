SPECIFICATION TimerSpec
CONSTANTS
    often = often
    seldom = seldom
    once = once
    Timers <- MCTimers
    Wait <- MCWait
    Looping <- MCLooping
    Cost <- MCCost
    TotalCost <- MCTotalCost
    Granularity = 2
    Overdue = 10
    None = none
INVARIANTS
    SortedWhenFree
    Punctual
PROPERTIES
    EveryTimerRuns
    StopEndsRun
\* A loop that has ended stays so once every timer is as late as it is counted.
CHECK_DEADLOCK FALSE
