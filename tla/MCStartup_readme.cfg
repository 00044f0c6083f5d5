\* The README's example: lcores 0 and 1, two ports.
SPECIFICATION Spec
CONSTANTS
    CommandLines <- ReadmeExample
    Devices = {0, 1}
    Enabled = {0, 1}
    MainLcore = 0
    MaxLcore = 4
    MaxRxQueue = 16
    MaxCapacity = 8
    DefaultCapacity = 8
    MaxCpu = 8
    Lanes = 4
    KvSize = 2
    SmallPage = 16
    LargePage = 32
CHECK_DEADLOCK FALSE
INVARIANTS
    LcoresSuffice
