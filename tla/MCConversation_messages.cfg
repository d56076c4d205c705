CONSTANTS
    u1 = u1
    u2 = u2
    w1 = w1
    w2 = w2
    n1 = n1
    User = {u1, u2}
    Node = {n1}
    Worker = {w1, w2}
    Members <- MembersDef
    MaxMessage = 3
    MaxQuery = 2
    Faults = 1
    Crashes = 1
SPECIFICATION Spec
INVARIANTS
    TypeOK
    UnreadCovers
PROPERTIES
    ServiceSpec
SYMMETRY Symmetry
CHECK_DEADLOCK FALSE
