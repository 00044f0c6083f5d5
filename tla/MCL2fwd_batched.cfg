\* Two workers that share a port and an idle one, batched lookups.
SPECIFICATION Spec
CONSTANTS
    Workers = {1, 2, 3}
    Ports = {1}
    RxList <- SharedPort
    Modes = {"dramblast"}
    MaxBurst = 2
    Mbufs = {b1, b2}
    Hz = 1
    TotalSamples = 2
    Word = 4
    MaxPeriod = 2
    Periods = {1}
    MaxPackets = 2
    MaxTsc = 2
SYMMETRY MbufSymmetry
CHECK_DEADLOCK FALSE
INVARIANTS
    MbufsConserved
    NoUseAfterTeardown
    RateNeverWraps
