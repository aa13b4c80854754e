SPECIFICATION Spec
CONSTANTS
    NDIRECT = 2
    NINDIRECT = 2
    NBLOCKS = 10
    FIRSTINOB = 3
    FIRSTDATA = 4
    NINODES = 4
    DirGrow = 2
    Width = 16
    Name = {0, 1, 2}
    Data = {20}
    Mode = {1}
    Text <- OneWord
    Conditional = 30
    Cut = 31
    Room = {4}
    Size = {0, 4}
    Place <- Places
    Appended = {2}
    MaxSize = 8
    MaxCalls = 5
INVARIANTS TypeOK BlocksExclusive NamesResolve ListingComplete WriteIsExact
PROPERTIES FilesIsolated
CHECK_DEADLOCK FALSE
