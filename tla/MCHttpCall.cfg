SPECIFICATION FairSpec
CONSTANTS
    TicksPerSecond = 2
    Limits = {0, 3}
    Totals = {1, 3}
    TotalFactor = 3
    MaxChunks = 4
    Sizes = {2, 5, 10}
    Room = 15
    Base = 6
    Header = 1
    Reserve = 2
    MaxDepth = 2
    KeyTime = 1
    MaxClock = 7
INVARIANTS
    OutcomeHonest
    RequestInTime
    AnswerComplete
    MergeBounded
PROPERTIES
    CallEnds
CHECK_DEADLOCK FALSE
