SPECIFICATION Spec
CONSTANTS
    Tables <- ScanTables
    Limits <- ScanLimits
    Workers = {w1, w2}
    Batches = {b1, b2, b3}
    BatchRows = 2
    TaskRows = 1
    InFlight = 2
    TaskCap = 2
    QueueCap = 1
    EOF = EOF
    NoTask = NoTask
SYMMETRY WorkerSymmetry
INVARIANT
    DeliveredOnceProcessed
CHECK_DEADLOCK FALSE
