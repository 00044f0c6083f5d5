\* Two workers, up to two bursts of up to two packets, a table that may refuse
\* once one flow is bound.
SPECIFICATION FairSpec
CONSTANTS
    FlowHash <- SomeFlowHash
    Workers = {w1, w2}
    Modes = {"maglev", "dramblast", "none"}
    Frames <- SomeFrames
    Backend <- SomeBackends
    RefusalBound = 1
    MaxBurst = 2
    Garbage = {5}
    NoneMac = 6
    MacValues = 16
    MaxRounds = 2
CHECK_DEADLOCK FALSE
INVARIANTS
    RewrittenRight
    ConnectionsStick
PROPERTIES
    BurstsLeave
