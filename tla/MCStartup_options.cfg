\* Three ports (1 to 3), four workers around the main lcore, the last lcore among them.
SPECIFICATION Spec
CONSTANTS
    CommandLines <- SomeCommandLines
    Devices = {1, 2, 3}
    Enabled = {0, 1, 3, 4, 7}
    MainLcore = 3
    MaxLcore = 8
    MaxRxQueue = 2
    MaxCapacity = 32
    DefaultCapacity = 8
    MaxCpu = 8
    Lanes = 4
    KvSize = 2
    SmallPage = 16
    LargePage = 32
CHECK_DEADLOCK FALSE
INVARIANTS
    QueuesOwnedOnce
    PortsPaired
    LoopTableReady
    LoadsMapped
    MemoryReturned
