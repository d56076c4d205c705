CONSTANTS
    u1 = u1
    u2 = u2
    w1 = w1
    w2 = w2
    User = {u1, u2}
    Worker = {w1, w2}
    MaxNode = 2
    Faults = 1
    Crashes = 1
SPECIFICATION Spec
INVARIANTS
    TypeOK
    StatusIsTrue
    OneConversation
    AnswersHold
SYMMETRY Symmetry
CHECK_DEADLOCK FALSE
