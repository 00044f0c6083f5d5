\* TABLE_FULL is reported although slots are empty.
SPECIFICATION Spec
CONSTANTS
    Lcores = {1}
    Keys = {1, 2, 3, 4}
    Lanes = 2
    Buckets = 2
    QueueSize = 4
    MaxBurst = 2
    Home <- AllCollide
    Backend <- BackendOf
    Batches <- RaceBatches
    Garbage <- Stale
INVARIANTS
    TableFullMeansFull
