SPECIFICATION Spec
CONSTANTS
    Sources = {0, 1}
    MaxFrames = 3
    MaxBatch = 2
    Faults = {"drop", "unmap"}
    MaxUnwritten = 1
CHECK_DEADLOCK FALSE
INVARIANTS
    TypeOK
    OverlayOwnSource
    OverlayInOrder
    OverlayLateByDrops
    BacklogFromDrops
    LossIsExplained
