CONSTANTS
    alpha = alpha
    beta = beta
    Provider = {alpha, beta}
    Ref = {"K1", "K2", "K3"}
    Settings <- MCSettings
    OpenCode <- MCOpenCode
    Seeds <- MCSeeds
    DefaultRef <- MCDefaultRef
    Backend = TRUE
    MaxEdits = 2
    MaxRuns = 2
    Nil = Nil
    NoProc = NoProc
SPECIFICATION Spec
INVARIANTS
    EntriesSound
    KeyBeforeHttp
    RerunFindsNothing
PROPERTIES
    KeysRecoverable
    ChoicesKept
CHECK_DEADLOCK FALSE
