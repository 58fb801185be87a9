CONSTANTS
    a = a
    b = b
    c = c
    o = o
    Id = {a, b, c}
    Option = {o}
    Value = {1}
    Core <- MCCore
    Commands <- MCCommands
    Seeds <- MCSeeds
    Proc = {p1, p2}
    MaxCommands = 2
    MaxCalls = 1
    NoRegistry = NoRegistry
    Nil = Nil
    NoProc = NoProc
SPECIFICATION Spec
INVARIANTS
    FilesFollowRegistry
    NothingOutlivesRemove
PROPERTIES
    EditsAreSerial
    OthersKeepTheirFiles
CHECK_DEADLOCK FALSE
