SPECIFICATION Spec
CONSTANTS
    NoCol = NoCol
    Fault = Fault
    Empty = Empty
    MapBits = 4
    TempRows = 2
    Queries <- MCQueries
INVARIANTS
    TreesLive
    TreeAsAsked
    RowsAsAsked
    OpenAnswers
    Released
PROPERTY
    CallsReturn
CHECK_DEADLOCK FALSE
