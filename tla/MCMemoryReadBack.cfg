SPECIFICATION ReadBackSpec
CONSTANTS
    AddrLimit = 8
    Chunk = 2
    MainBase = 1
    MainSize = 4
    Byte = {0, 1}
    Undef = Undef
    Segments = {}
    AccessSizes = {1}
INVARIANT RamReadsBack
