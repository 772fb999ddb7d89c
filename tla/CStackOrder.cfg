SPECIFICATION Spec
CONSTANTS
    NoCol = NoCol
    Fault = Fault
    Empty = Empty
    MapBits = 4
    TempRows = 2
    Queries <- MCQueries
INVARIANT
    TreeAsWritten
CHECK_DEADLOCK FALSE
