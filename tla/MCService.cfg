SPECIFICATION Spec
CONSTANTS
    Connections = {c1, c2, c3, c4}
    Workers = {w1, w2}
    QueueCapacity = 1
    None = none
    MaxFaults = 0
SYMMETRY ServiceSymmetry
INVARIANTS SlotsSound ShutdownSound
