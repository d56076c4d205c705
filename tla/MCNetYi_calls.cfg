CONSTANTS
    a1 = a1
    Loop = Loop
    NoThread = NoThread
    App = {a1}
    Kinds = {"connect", "request", "query", "onuser"}
    MaxCalls = 3
    MaxNoti = 1
    MaxAnswers = 2
SPECIFICATION FairSpec
INVARIANTS
    TypeOK
    OwnAnswer
    InStep
PROPERTIES
    StopIsFinal
    EveryRequestCalled
CHECK_DEADLOCK FALSE
