SPECIFICATION Spec
CONSTANTS
    Workers = {w1, w2}
    Payloads = {p1, p2}
    Topicless = {}
    NoPayload = NoPayload
    MaxFaults = 1
CHECK_DEADLOCK FALSE
PROPERTIES
    StopIsFinal
