CONSTANTS
    Budget = 8
    Overlap = 2
    MaxChunks = 4
    Sizes = {1, 2, 4, 8, 9, 17}
    MaxLines = 4
SPECIFICATION PlanSpec
INVARIANTS
    RangesSound
    PlanComplete
CHECK_DEADLOCK FALSE
