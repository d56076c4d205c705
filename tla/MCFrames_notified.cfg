CONSTANTS
    c1 = c1
    c2 = c2
    c3 = c3
    NoConn = NoConn
    Conn = {c1, c2, c3}
    Sizes = {2}
    AnswerSizes = {2}
    NotiSizes = {2}
    Capacity = 8
    CodeBase = 3
    MaxRequests = 1
    MaxFailures = 1
SPECIFICATION Spec
INVARIANTS
    EachDeviceNotified
CHECK_DEADLOCK FALSE
