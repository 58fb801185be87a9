CONSTANTS
    Call = {c1, c2}
    Model = {m1}
    Readers = {m1}
    Writers = {m1}
    HealthChecked = {m1}
    Threshold = 2
    Cooldown = 2
    UnreachCool = 1
    Retry = 1
    TTL = 1
    Seeds <- AllSeeds
    MaxParts = 1
    MaxEdits = 0
    MaxClock = 1
    NoModel = NoModel
SPECIFICATION Spec
SYMMETRY CallSymmetry
INVARIANT ConsecutiveFailuresPause
CHECK_DEADLOCK FALSE
