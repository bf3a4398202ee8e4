SPECIFICATION PPUSpec
CONSTANTS
    AddrLimit = 4096
    Chunk = 64
    MainBase = 16
    MainSize = 160
    Byte <- MCByte
    Undef = Undef
    Segments <- MCSegments
    AccessSizes = {1, 2}
    WordBits = 6
    Power <- MCPower
    HalfLimit = 8
    LiLimit = 32
    Fields <- MCFields
    Asm <- MCAsm
    Regs = {0, 1, 3, 5}
    CRBits = 8
    UserBase = 512
    Word32 = 1024
    UserMemory = 256
    Firmware = 1201
    Images <- MCImages
    Observed <- MCObserved
CONSTRAINT StillDefined
CHECK_DEADLOCK FALSE
INVARIANTS PPUTypeOK BlocksApart
PROPERTY ImplementsPowerPC
