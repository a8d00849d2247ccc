CONSTANTS
    Images <- MCImages
    Reads <- MCReads
    RADIX = 2
    MIN_SEGMENT_DIGITS = 2
    U64_MAX = 7
    USIZE = 8
    Flaky = TRUE

SPECIFICATION Spec

INVARIANTS
    OpenedIsImage
    MissingIsUnseen
    ReadsMatchSegments
