CONSTANTS
    m1 = m1
    m2 = m2
    Call = {c1}
    Model = {m1, m2}
    Readers = {m1, m2}
    Writers = {m2}
    HealthChecked = {m2}
    Threshold = 1
    Cooldown = 2
    UnreachCool = 1
    Retry = 1
    TTL = 1
    Seeds <- MCSeeds
    MaxParts = 1
    MaxEdits = 1
    MaxClock = 1
    NoModel = NoModel
SPECIFICATION GateSpec
INVARIANTS
    CountsAreEarned
    ReasonHonest
    DeniedHasDelegate
PROPERTIES
    NotStranded
    EveryCallEnds
CHECK_DEADLOCK FALSE
