SPECIFICATION Spec
CONSTANTS
    TASKBUFSIZ = 3
    UintMod = 1024
    File = {"f", "g", "h", "o", "x", "z"}
    Scenarios <- MCScenarios
    MaxNames = 2
    MaxSize = 5
    ReplySize = 12
    Sends <- MCSends
    Listed <- MCListed
    Self = "me"
    Ports = {1, 2}
    BusyPorts = {1}
INVARIANTS
    TypeOK
    BytesInOrder
    NothingPartial
    HaveIsTrue
    TriesAllPeers
PROPERTY ComesToServe
CHECK_DEADLOCK FALSE
