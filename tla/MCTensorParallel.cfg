SPECIFICATION Spec
CONSTANTS
    Followers = 2
    Iterations <- Steps
    MaxBlocks = 1
    EpochRange = 4
    MaxIterations = 2
    MaxFaults = 2
INVARIANTS AllReduceExact
PROPERTIES LeaderReturns
CHECK_DEADLOCK FALSE
