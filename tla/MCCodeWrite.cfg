CONSTANTS
    Publisher = {p1, p2}
    Depth = 2
    MaxSignals = 2
    MaxUser = 1
    Answers <- MCAnswers
    Candidates = 1
    User = User
    Nobody = Nobody
SPECIFICATION CallSpec
SYMMETRY PublisherSymmetry
INVARIANTS
    ExitTrue
    AnswerWhole
    CallLeavesNothing
PROPERTIES
    OthersUntouched
CHECK_DEADLOCK FALSE
