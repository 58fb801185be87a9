CONSTANTS
    Call = {c1, c2}
    Model = {m1, m2}
    Readers = {m1, m2}
    Writers = {m1, m2}
    HealthChecked = {m2}
    Threshold = 2
    Cooldown = 2
    UnreachCool = 1
    Retry = 1
    TTL = 1
    Seeds <- AllSeeds
    MaxParts = 2
    MaxEdits = 0
    MaxClock = 1
    NoModel = NoModel
SPECIFICATION Spec
SYMMETRY CallSymmetry
INVARIANTS
    FailuresPause
PROPERTY RolesApart
CHECK_DEADLOCK FALSE
