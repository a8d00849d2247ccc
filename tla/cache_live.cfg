SPECIFICATION FairSpec
CONSTANTS
    r1 = r1
    r2 = r2
    Readers = {r1, r2}
    Sources = {0}
    End = 3
    Chlen = 2
    FetchSize = 4
    Readahead = 1
    Permits = {p1}
    Dual = FALSE
    Requests <- MCLive
    Faults = {"panic", "lookup"}
    ShortReads = {}
    MayEvict = FALSE
    None = None
INVARIANTS
    TypeOK
    PermitsConserved
    LatchConsistent
PROPERTIES
    ImplementsReadService
    PermitsReturn
