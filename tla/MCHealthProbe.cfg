CONSTANTS
    Model = {m1, m2}
    Caller = {p1, p2}
    Call = {c1}
    Cap = 1
    Prompt = TRUE
    Verdict = {"unhealthy"}
    MaxKills = 1
    MaxEdits = 1
    MaxClock = 3
    NoLock = NoLock
SPECIFICATION Spec
SYMMETRY ProcessSymmetry
INVARIANTS
    LocksAreKept
    ProbedOnce
    StatusGenuine
CHECK_DEADLOCK FALSE
