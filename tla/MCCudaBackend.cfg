SPECIFICATION Spec
CONSTANTS
    Requests = {1, 2, 3}
    Capacity = 2
    MaxNew = 2
    MaxFaults = 2
CHECK_DEADLOCK FALSE
INVARIANTS
    KvOutlivesDevice
    ContractKept
