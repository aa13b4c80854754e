\* ospfsformat: an image is the tree of the host, through the block cache
SPECIFICATION Spec
CONSTANTS
    Hosts <- MCHosts
    CacheSize = 10
    nblocks = 35
    ninodes = 16
    OSPFS_BLKSIZE = 2
    OSPFS_BLKINODES = 2
    DirEntries = 2
    OSPFS_NDIRECT = 2
    OSPFS_NINDIRECT = 2
    Ignored = {"CVS"}
    LongNames = {"toolong"}
    MaxMissing = 2
INVARIANTS
    ImageIsHostTree
    BlocksAccounted
    RoomSuffices
CHECK_DEADLOCK FALSE
