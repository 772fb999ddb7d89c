SPECIFICATION Spec
CONSTANTS
    Columns = {"n", "x", "b", "t", "m", "z"}
    ColType <- TypeOf
    Chars <- InOrder
    Numerals <- Numbers
    Conds <- AllConds
    Rows <- AllRows
    InMax = 2
INVARIANTS
    SelectsAsMeant
    LikeMatches
\* A query that was refused stops.
CHECK_DEADLOCK FALSE
