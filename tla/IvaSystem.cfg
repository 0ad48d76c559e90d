SPECIFICATION FairSpec
CONSTANTS
    Workers = {w1, w2}
    Payloads = {p1, p2}
    Topicless = {}
    NoPayload = NoPayload
    MaxFaults = 2
    PromptMain = TRUE
INVARIANTS
    TypeOK
    RefusedHasReason
    NothingWithoutLicense
    StopMeetsNoPublish
    MetaQueueHandedOver
    ExitLosesAtMostOne
PROPERTIES
    LifeSpec
    RefusedMeansExit
    EndOfStreamMeansExit
    NotifyReturns
