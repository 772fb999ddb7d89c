SPECIFICATION Spec
CONSTANTS
    Tables <- ScanTables
    Limits <- ScanLimits
    Workers = {w1, w2}
    Batches = {b1, b2, b3}
    BatchRows = 2
    TaskRows = 1
    InFlight = 2
    TaskCap = 2
    QueueCap = 1
    EOF = EOF
    NoTask = NoTask
SYMMETRY WorkerSymmetry
INVARIANTS
    TypeOK
    DeliveryOrder
    SoleOwner
    SlotsAccounted
    DeliveredProcessed
PROPERTY
    ImplementsScan
\* A scan that was closed, and a program that panicked, have stopped.
CHECK_DEADLOCK FALSE
