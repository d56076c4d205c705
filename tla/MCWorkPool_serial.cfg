CONSTANTS
    ThreadNum = 1
    Cap = 2
    MaxJobs = 5
SPECIFICATION Spec
INVARIANTS
    PopFindsJob
PROPERTIES
    SerialSpec
    SentWorkReturns
CHECK_DEADLOCK TRUE
