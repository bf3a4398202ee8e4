SPECIFICATION Spec
CONSTANTS
    AddrLimit = 10
    Chunk = 2
    MainBase = 1
    MainSize = 4
    Byte = {0, 1}
    Undef = Undef
    Segments <- MCSegments
    AccessSizes = {2}
CONSTRAINT StillDefined
VIEW WithoutLabel
INVARIANTS TypeOK NoTornAccess OverlapsNest
PROPERTY ImplementsFlatMemory
