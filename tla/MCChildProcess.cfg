CONSTANTS
    Helper = {h1, h2}
    Leader = Leader
    TimeLimits = {"some", "none", "invalid"}
    MaxSignals = 2
SPECIFICATION FairInvokeSpec
INVARIANTS
    LeavesNothing
PROPERTY CallReturns
CHECK_DEADLOCK FALSE
