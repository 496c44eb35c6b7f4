CONSTANTS
    Blocks = {b1, b2}
    SequenceIds = {s1, s2}
    None = None
    SharedOwner = SharedOwner
    BlockSize = 2
    MaximumLengths = {3}
    MaxLength = 3
    MaxGeneration = 2
    MaxNonce = 2
SPECIFICATION Spec
SYMMETRY Symmetry
CHECK_DEADLOCK FALSE
INVARIANTS
    FreeListExact
    AccountingExact
    PrivateBlocksExclusive
    ReferencesExact
    TablesSound
    SidecarsDescribeContent
PROPERTIES
    LeaseFencing
    TokensUnforgeable
