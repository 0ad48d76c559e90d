SPECIFICATION Spec
CONSTANTS
    Sources = {0}
    MaxFrames = 2
    MaxBatch = 1
    Faults = {"drop"}
    MaxUnwritten = 0
CHECK_DEADLOCK FALSE
INVARIANTS
    OverlayOwnFrame
