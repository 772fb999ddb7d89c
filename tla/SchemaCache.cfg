SPECIFICATION Spec
CONSTANTS
    Handles = {h1, h2}
    Paths = {p1, p2}
    Tables = {t1, t2}
    t1 = t1
    t2 = t2
    Defines <- DefinedTables
    MaxFiles = 1
    MaxVersion = 2
    MaxOpens = 3
SYMMETRY HandleSymmetry
INVARIANTS
    CachedOfKey
    OwnSchema
\* Handles may be all closed with no file left to open.
CHECK_DEADLOCK FALSE
