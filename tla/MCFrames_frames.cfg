CONSTANTS
    c1 = c1
    c2 = c2
    c3 = c3
    NoConn = NoConn
    Conn = {c1, c2, c3}
    Sizes = {0, 3, 4, 5}
    AnswerSizes = {5}
    NotiSizes = {5}
    Capacity = 8
    CodeBase = 3
    MaxRequests = 2
    MaxFailures = 1
SPECIFICATION FairSpec
INVARIANTS
    TypeOK
    WholeRequests
    Framed
    DropHasCause
PROPERTIES
    EveryRequestAnswered
CHECK_DEADLOCK FALSE
