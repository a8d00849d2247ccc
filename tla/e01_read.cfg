SPECIFICATION Spec
CONSTANTS
    MAX_TABLE_ENTRIES = 4
    Absent = Absent
    LETTERS = 3
    NUMBERS = 2
    FIRST_LETTER = 2
    PROTO_LETTERS = {2, 3}
    Configs <- MCReadConfigs
    Threads = {t1, t2}
    Reads <- MCReads
    MaxCalls = 3
    DECODED_CHUNK_CACHE_CHUNKS = 1
    Zero = Zero
    Unread = Unread
INVARIANTS
    TypeOK
    ReadsFollowPolicy
    CacheConsistent
    WorkersBounded
    PanicsAreContained
    GlobOpensWhole
SYMMETRY ThreadSymmetry
