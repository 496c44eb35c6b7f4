SPECIFICATION Spec
CONSTANTS
    Requests = {r1, r2}
    Wake = wake
    QueueCapacity = 1
    EventCapacity = 1
    MaxInflight = 2
    PublishAfterSubmit = {FALSE, TRUE}
    CounterRange = 4
    MaxTokens = 1
    MaxFaults = 1
SYMMETRY RequestSymmetry
INVARIANTS BooksAgree
PROPERTIES StreamsImplemented
CHECK_DEADLOCK FALSE
