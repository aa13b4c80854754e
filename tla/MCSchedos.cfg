SPECIFICATION FairSpec
CONSTANTS
    NPROCS = 4
    RUNCOUNT = 2
    Algorithms = {0, 1, 2}
    StartPriority <- Priorities
    LockMemory = {0}
    Settable = {1, 3}
INVARIANTS TypeOK NoLostOutput
PROPERTIES PicksHighest AllFinishUnlessPriorities
CHECK_DEADLOCK FALSE
