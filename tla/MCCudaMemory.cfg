SPECIFICATION Spec
CONSTANTS
    Device = {d1, d2}
    Pinned = {h1}
    Streams = {s1, s2}
    Threads = {t1, t2}
    None = none
    LedgerCapacity = 2
    MaxFaults = 2
SYMMETRY ResourceSymmetry
INVARIANTS DeviceOwnsWhatItUses OwnersCanSynchronize ContextReleasedLast
CHECK_DEADLOCK FALSE
