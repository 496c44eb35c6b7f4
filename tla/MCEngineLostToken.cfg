SPECIFICATION Spec
CONSTANTS
    Requests = {r1}
    Wake = wake
    QueueCapacity = 1
    EventCapacity = 1
    MaxInflight = 1
    PublishAfterSubmit = {FALSE}
    CounterRange = 4
    MaxTokens = 2
    MaxFaults = 0
PROPERTIES SuccessIsComplete
CHECK_DEADLOCK FALSE
