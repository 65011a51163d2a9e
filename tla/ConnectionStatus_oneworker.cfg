SPECIFICATION FairSpec
CONSTANTS
    Consumers = {c1, c2}
    Workers = {w1}
    Default = default
    Queues = {default}
    QueueFor <- OneQueue
    Serves <- EveryQueue
    None = none
    Setting = 1
    Fixed = 1
    MaxTime = 2
    MaxMessages = 2
    JobsMayFail = TRUE
CHECK_DEADLOCK FALSE
INVARIANTS TypeOK ClosedIsOffline OnlineHasNoEnd LastActionFresh
PROPERTIES LastActionAdvances ConnectedIsRecorded
