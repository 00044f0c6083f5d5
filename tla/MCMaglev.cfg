\* Two lcores, more flows than slots: the table fills up.
SPECIFICATION FairSpec
CONSTANTS
    Lcores = {1, 2}
    Keys = {1, 2, 3, 4, 5}
    Capacity = 4
    Home <- Colliding
    Backend <- BackendOf
INVARIANTS
    ScanPathUnbroken
PROPERTIES
    AffinityKept
    ImplementsFlowService
    FramesAnswered
