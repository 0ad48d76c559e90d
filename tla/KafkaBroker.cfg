SPECIFICATION FairSpec
CONSTANTS
    Workers = {w1, w2}
    Payloads = {p1, p2, p3}
    Topicless = {p3}
    NoPayload = NoPayload
    MaxFaults = 3
CHECK_DEADLOCK FALSE
INVARIANTS
    TypeOK
    OneProducerTask
    PopFindsPayload
    RunFlagMeansProducer
    
    StopWaitsForQueue
    QueueIsAttended
PROPERTIES
    ChannelSpec
    WorkIsProgress
    StopReturns
    PayloadsHandled
    ProducerReturns
