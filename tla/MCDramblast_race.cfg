\* Two lcores race on colliding flows that fill a table of two buckets.
SPECIFICATION FairSpec
CONSTANTS
    Lcores = {1, 2}
    Keys = {1, 2, 3, 4}
    Lanes = 2
    Buckets = 2
    QueueSize = 2
    MaxBurst = 2
    Home <- CrowdedLast
    Backend <- BackendOf
    Batches <- RaceBatches
    Garbage <- Stale
INVARIANTS
    TypeOK
    ProbePathUnbroken
    AnswersRight
PROPERTIES
    MissIsGenuine
    SlotsArePermanent
    ImplementsFlowService
    CallsReturn
