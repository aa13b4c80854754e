SPECIFICATION ASpec
CONSTANTS
    NPROCS = 4
    PROC1_STACK_ADDR = 40
    PROC_STACK_SIZE = 4
    Depths = {1, 2}
    Status = {7, 9}
    MaxForks = 4
    OneRound = TRUE
    Total = 7
    Yields = 20
INVARIANTS ATypeOK ChildrenCounted
PROPERTIES WokenByAwaited RunnableRuns AppsComplete
CHECK_DEADLOCK FALSE
