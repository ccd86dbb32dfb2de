\* One file with blocks of two pointers, which does not always fit.
SPECIFICATION Spec
CONSTANTS
    Names = {a}
    MapSize = 12
    Reserved = 2
    Direct = 1
    PerSector = 2
    MaxLength = 6
INVARIANTS NothingLeaks LengthBacked DefragFits
