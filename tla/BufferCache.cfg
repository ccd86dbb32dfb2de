\* A cache of two slots under four sectors, the last of them past the end.
SPECIFICATION Spec
CONSTANTS
    CacheSize = 2
    DeviceSize = 3
    LastSector = 3
    Sectors <- MCSectors
    Data = {0, 1}
    Zero = 0
INVARIANTS TypeOK UniqueEntry CleanMatchesDisk
PROPERTIES ImplementsStore SecondChance
