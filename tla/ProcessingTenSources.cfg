SPECIFICATION Spec
CONSTANTS
    Sources = {0, 10}
    MaxFrames = 2
    MaxBatch = 2
    Faults = {}
    MaxUnwritten = 0
CHECK_DEADLOCK FALSE
INVARIANTS
    OverlayOwnSource
