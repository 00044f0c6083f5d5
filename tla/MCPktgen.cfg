\* Up to five workers and three ports are set up; a TX and an RX worker on two
\* ports are followed; a pool that a full TX queue exhausts,
\* and one that also has room for a burst.
SPECIFICATION MainSpec
CONSTANTS
    TxLcores = {1}
    RxLcores = {2}
    PortOf <- TwoPorts
    Burst = 2
    PoolSizes = {3, 4}
    TxRing = 2
    RxRing = 2
    MaxPackets = 3
    MaxWorkers = 5
    MaxPorts = 3
    CommandLines <- SomeCommandLines
    MinPayload = 20
    MaxPayload = 1400
CHECK_DEADLOCK FALSE
INVARIANTS
    PoolsConserved
    IdsDense
    NeverStarved
    ReportsHonest
    NoUseAfterClose
    QueuesMatch
PROPERTIES
    SignalEndsProgram
