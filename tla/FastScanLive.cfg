SPECIFICATION FairSpec
CONSTANTS
    Tables <- LiveTables
    Limits <- LiveLimits
    Workers = {w1, w2}
    Batches = {b1, b2}
    BatchRows = 2
    TaskRows = 1
    InFlight = 2
    TaskCap = 1
    QueueCap = 1
    EOF = EOF
    NoTask = NoTask
PROPERTIES
    CloseReturns
    NextReturns
CHECK_DEADLOCK FALSE
