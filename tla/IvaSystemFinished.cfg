SPECIFICATION FairSpec
CONSTANTS
    Workers = {w1, w2}
    Payloads = {p1}
    Topicless = {}
    NoPayload = NoPayload
    MaxFaults = 0
    PromptMain = FALSE
CHECK_DEADLOCK FALSE
PROPERTIES
    FinishedMeansExit
