\* Two slots of any first contents, three keys that probe through each other,
\* and the zero key.
SPECIFICATION Spec
CONSTANTS
    FlowHash = FlowHash
    Capacity = 2
    Keys = {"a", "b", "c", "zero"}
    ZeroKey = "zero"
    Values = {1, 2}
    Hash <- SomeHash
    Requests <- SomeRequests
    MaxRequests = 6
CHECK_DEADLOCK FALSE
INVARIANTS
    KeysReachable
PROPERTIES
    ImplementsKVStore
