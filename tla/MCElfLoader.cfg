SPECIFICATION LoaderSpec
CONSTANTS
    AddrLimit = 10
    Chunk = 2
    MainBase = 1
    MainSize = 4
    Byte = {0, 1}
    Undef = Undef
    NoFile = NoFile
    InitialPC = InitialPC
    AccessSizes = {1}
    Segments <- MCSegments
    Files <- MCFiles
    MaxSegments = 3
    OffsetLimit = 32
    GuestAddrs = {0, 1, 7}
CONSTRAINT StillDefined
INVARIANTS LoaderTypeOK NoSegmentReloaded
PROPERTIES LoadedImageVisible PcOfLoadedImage SelfReadsInside
CHECK_DEADLOCK FALSE
