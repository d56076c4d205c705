CONSTANTS
    Kinds = {"request", "message", "query", "leave", "onunread"}
    MaxCalls = 3
    MaxNoti = 1
    MaxAnswers = 2
    MaxRestarts = 1
SPECIFICATION Spec
INVARIANTS
    TypeOK
    
    KeptOnce
PROPERTIES
    OwnAnswer
CHECK_DEADLOCK FALSE
