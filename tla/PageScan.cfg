SPECIFICATION FairSpec
CONSTANTS
    BitLen = 2
    NoMapPage = NoMapPage
    BadMapPage = BadMapPage
    NPages = 5
    Files <- AnyFile
    Limits <- AnyLimit
INVARIANTS
    VisitsAscend
    NothingMissed
PROPERTIES
    FetchReturns
    ImplementsScan
\* A query that was closed has stopped.
CHECK_DEADLOCK FALSE
