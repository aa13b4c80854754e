SPECIFICATION Spec
CONSTANTS
    NPROCS = 4
    PROC1_STACK_ADDR = 40
    PROC_STACK_SIZE = 4
    Depths = {1, 2}
    Status = {7}
    MaxForks = 3
    OneRound = FALSE
INVARIANTS ExitIsFinal
CHECK_DEADLOCK FALSE
