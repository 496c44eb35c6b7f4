CONSTANTS
    Capacity = 2
    Vacant = Vacant
    MaxRequests = 3
    Prompts <- MCPrompts
    MaxNewTokens = {2}
    BlockSize = 2
    TotalBlocks = 5
    MaxPromised = 5
    MaxActive = 2
    MaxWaiting = 1
    MaxWaitingTokens = 5
    MaxSequenceTokens = 6
    TokenBudget = 3
    MaxChunk = 2
    Overload = "wait"
    Timeout = TRUE
SPECIFICATION Spec
CHECK_DEADLOCK FALSE
INVARIANTS
    PromisesKept
    AdoptedPrefixesSound
    CacheSound
    NotifiedExactlyOnce
    RequestsConsistent
    NothingLeaks
PROPERTIES
    NoOvertaking
