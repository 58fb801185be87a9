SPECIFICATION FairRequestSpec
CONSTANTS
    RequestLimits = {0, 2}
    ConnectLimits = {0, 1, 2, 3}
    MaxAddresses = 2
    MaxBytes = 2
INVARIANTS
    RequestHonest
PROPERTIES
    UnreachableIsUnsent
    MainReturns
    CancelledCloses
