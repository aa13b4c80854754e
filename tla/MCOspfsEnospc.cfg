SPECIFICATION Spec
CONSTANTS
    NDIRECT = 2
    NINDIRECT = 2
    NBLOCKS = 7
    FIRSTINOB = 3
    FIRSTDATA = 4
    NINODES = 4
    DirGrow = 2
    Width = 16
    Name = {0, 1, 2}
    Data = {20}
    Mode = {1}
    Text <- OneWord
    Conditional = 30
    Cut = 31
    Room = {3}
    Size = {0, 8}
    Place <- Places
    Appended = {2}
    MaxSize = 8
    MaxCalls = 6
INVARIANTS EnospcRestores
CHECK_DEADLOCK FALSE
