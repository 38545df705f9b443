SPECIFICATION Spec
CONSTANTS
    Id = {1, 2, 3, 4, 5}
    Time = {1, 2, 3}
    File = {"f", "g", "h"}
    Ascending = FALSE
    Dedup = TRUE
    Gated = TRUE
    Carried <- MCCarried
    Filters <- MCFilters
    Limit = 1
    NewRow <- MCNewCopies
    InitialRows <- MCCopies
    None = None
INVARIANTS
    PagesAscend
    WalkIsComplete
    ShowsOriginal
CHECK_DEADLOCK FALSE
