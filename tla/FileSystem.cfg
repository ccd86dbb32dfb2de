\* Two files, six sectors to share; files use all three levels of blocks.
SPECIFICATION Spec
CONSTANTS
    Names = {a, b}
    MapSize = 8
    Reserved = 2
    Direct = 1
    PerSector = 1
    MaxLength = 3
SYMMETRY Symmetry
INVARIANTS TypeOK NoSharing InUseMarked CopiesAgree
PROPERTY Defragmented
