CONSTANTS
    MaxJobs = 4
    Waiters = {w1, w2}
    Concurrency = 2
SPECIFICATION Spec
\* All jobs settled and reported, and nobody left to call idle().
CHECK_DEADLOCK FALSE
INVARIANTS
    SlotsAreUsed
    StartsInOrder
PROPERTIES
    IdleMeansDrained
    QueueDrains
