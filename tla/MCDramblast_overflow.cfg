\* One lcore, bursts that overflow the queue and the table.
SPECIFICATION FairSpec
CONSTANTS
    Lcores = {1}
    Keys = {1, 2, 3, 4, 5, 6}
    Lanes = 2
    Buckets = 2
    QueueSize = 4
    MaxBurst = 5
    Home <- CrowdedLast
    Backend <- BackendOf
    Batches <- OverflowBatches
    Garbage <- Stale
INVARIANTS
    RefusalSubstantiated
    LookupsConserved
    QueueDiscipline
PROPERTIES
    CallsReturn
