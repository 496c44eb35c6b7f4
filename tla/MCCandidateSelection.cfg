SPECIFICATION Spec
CONSTANTS
    MaxRequests = 3
    PromptLengths = {1, 3}
    TokenBudget = 4
    MaxChunk = 2
    AgingThreshold = 3
    Policies <- MCPolicies
    NoPolicy = NoPolicy
INVARIANTS
    SelectionSound
PROPERTY
    NoStarvation
