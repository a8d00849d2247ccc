SPECIFICATION Spec
CONSTANTS
    r1 = r1
    r2 = r2
    Readers = {r1, r2}
    Sources = {0}
    End = 6
    Chlen = 2
    FetchSize = 5
    Readahead = 0
    Permits = {p1}
    Dual = TRUE
    Requests <- MCDual
    Faults = {}
    ShortReads = {3}
    MayEvict = TRUE
    None = None
INVARIANTS
    EntriesAreWhole
    ReadsAreExact
PROPERTIES
    MetadataIsRouted
    FailuresHaveCauses
