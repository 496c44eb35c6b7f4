SPECIFICATION RequestSpec
CONSTANTS
    Requests = {r1}
    Chosen = r1
    Wake = wake
    QueueCapacity = 1
    EventCapacity = 1
    MaxInflight = 1
    PublishAfterSubmit = {FALSE, TRUE}
    CounterRange = 4
    MaxTokens = 3
    MaxFaults = 1
    Limit = 3
    MaximumOutputTokens = 2
    MaximumBytes = 2
    ProbeInterval = 2
INVARIANTS ResponseFaithful RequestsSettled
PROPERTIES NobodyLeftWaiting ChannelImplemented DeliveryReturns
CHECK_DEADLOCK FALSE
