SPECIFICATION Spec
CONSTANTS
    Consumers = {c1}
    Workers = {w1, w2}
    Default = default
    Queues = {default}
    QueueFor <- OneQueue
    Serves <- EveryQueue
    None = none
    Setting = 1
    Fixed = 1
    MaxTime = 2
    MaxMessages = 1
    JobsMayFail = FALSE
CHECK_DEADLOCK FALSE
INVARIANTS ClosedIsOffline
