CONSTANTS
    Disks <- MCDisks
    Reads <- MCReads
    SECTOR_SIZE = 2
    COWD_L2_LEN = 2
    SE_L2_LEN = 2
    SE_GRAIN_SIZE = 1
    MAX_GTES = 4
    MAX_SIZE = 64
    Zero = Zero
    Absent = Absent

SPECIFICATION Spec

INVARIANTS
    TypeOK
    UncoveredExact
    SpansTile
    ImagesOnce
    ReadsMatchChain
