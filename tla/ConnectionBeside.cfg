SPECIFICATION Spec
CONSTANTS
    Queries <- Scans
    Kind <- ScanKind
    Pages <- ScanPages
    Limit <- ScanLimit
    Stray = Stray
    MaxOpens = 3
    MaxBeside = 2
    MaxPlans = 1
INVARIANT OwnRows
\* The Rows of a run are used up.
CHECK_DEADLOCK FALSE
