SPECIFICATION Spec
CONSTANTS
    AddrLimit = 10
    Chunk = 2
    MainBase = 1
    MainSize = 4
    Byte = {0, 1}
    Undef = Undef
    Segments <- MCSegments
    AccessSizes = {1, 2}
INVARIANT AccessesStayBacked

