SPECIFICATION Spec
CONSTANTS
    TotalPages <- MCTotalPages
    Address <- MCAscending
    Requests = {0, 1, 2, 4}
INVARIANTS
    TypeOK
    NoPageLostOrShared
    FreeListSorted
    FreeRunsCoalesced
    OutOfMemoryIsReal
    PageIndexPanicIsTheLastPage
PROPERTIES
    ImplementsPool
