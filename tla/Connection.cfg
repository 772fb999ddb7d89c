SPECIFICATION Spec
CONSTANTS
    Queries <- AllQueries
    Kind <- KindOf
    Pages <- PagesOf
    Limit <- LimitOf
    Stray = Stray
    MaxOpens = 3
    MaxBeside = 2
    MaxPlans = 1
INVARIANTS
    PlanExclusive
    InUseWhileOpen
    NoStrayProducer
    ReuseAsFresh
\* The Rows of a run are used up.
CHECK_DEADLOCK FALSE
