CONSTANTS
    ThreadNum = 2
    Cap = 1
    MaxJobs = 4
SPECIFICATION Spec
INVARIANTS
    TypeOK
    ThreadWakeup
    SubmitWakeup
    ExactlyOnce
PROPERTIES
    EveryJobRuns
CHECK_DEADLOCK TRUE
