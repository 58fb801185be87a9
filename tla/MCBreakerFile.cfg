CONSTANTS
    Proc = {p1, p2}
    Model = {m1, m2}
    Role = {bulk}
    Cooldown = 2
    UnreachCool = 1
    Threshold = {1, 2}
    MaxClock = 1
    LockTimeout = 1
    NoProc = NoProc
    Absent = Absent
SPECIFICATION FairSpec
INVARIANTS
    SnapshotFresh
    PauseBounded
PROPERTIES
    Atomic
    EveryCallEnds
CHECK_DEADLOCK FALSE
