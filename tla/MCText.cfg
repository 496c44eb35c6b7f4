SPECIFICATION Spec
CONSTANTS
    Grammars <- AllGrammars
    Requests = {r1, r2}
    TokenBytes <- TokenTable
    Eos = {6}
    MaxStates = 2
    MaxStackDepth = 3
    MaxStacks = 2
    MaxAutomata = 1
    MaxOutput = 5
    MaxGeneration = 3
    Horizon = 8
    alpha = alpha
    beta = beta
    Ascii = {alpha, beta}
    Lead = lead
    Continuation = cont
    Invalid = invalid
    TokenTexts <- ShortTexts
    GenerationRequests <- StopRequests
    Cases <- AllCases
    Added <- AddedTexts
    MaxScanned = 4
    MaxWord = 6
    NoToken = no_token
    Styles = {"Hermes", "LlamaJson"}
    Chunks <- Deltas
    MaxChunks = 5
    NoCalls = no_calls
INVARIANTS
    OutputIsReference
    EncodeIsReference
    StreamFaithful
    OutputInGrammar
    CachesExact
