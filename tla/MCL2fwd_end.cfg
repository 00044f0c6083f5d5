\* One worker with queues on two ports, in every mode, to the end of the run;
\* two clock ticks per second, so that the main lcore may poll late.  The word
\* has five values, so that -T 3 wraps to less than a second (6 % 5 = 1).
SPECIFICATION FairSpec
CONSTANTS
    Workers = {1}
    Ports = {1, 2}
    RxList <- TwoQueues
    Modes = {"maglev", "dramblast", "none"}
    MaxBurst = 1
    Mbufs = {b1}
    Hz = 2
    TotalSamples = 2
    Word = 5
    MaxPeriod = 2
    Periods = {0, 1, 3}
    MaxPackets = 2
    MaxTsc = 4
CHECK_DEADLOCK FALSE
INVARIANTS
    PacketsAccounted
    SamplesFit
PROPERTIES
    RunEnds
