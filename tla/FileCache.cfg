SPECIFICATION FairSpec
CONSTANTS
    Paths = {p1, p2}
    Openers = {o1, o2}
    Sizes <- FileSizes
    p1 = p1
    p2 = p2
    MaxBytes = 3
    MaxVersion = 2
    MaxOpens = 4
    Free = Free
INVARIANTS
    NeverOlder
    SingleFlight
    WaitersHaveLoader
    WithinBudget
PROPERTY
    OpenReturns
\* Openers may be all idle with no file left to open.
CHECK_DEADLOCK FALSE
