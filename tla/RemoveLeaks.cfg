\* One file on a small disk.
SPECIFICATION Spec
CONSTANTS
    Names = {a}
    MapSize = 7
    Reserved = 2
    Direct = 2
    PerSector = 2
    MaxLength = 3
PROPERTY RemoveFreesBlocks
