SPECIFICATION Spec
CONSTANTS
    Connections = {c1, c2}
    Workers = {w1, w2}
    QueueCapacity = 1
    None = none
    MaxFaults = 1
INVARIANTS ShutdownSound
PROPERTIES ServiceDrains
