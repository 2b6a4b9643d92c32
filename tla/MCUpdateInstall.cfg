CONSTANTS
    Worker = {w1, w2}
    Latest = {1, 2, 3}
    Installed = 1
    MaxInstalls = 2
    MaxJobs = 4
SPECIFICATION Spec
INVARIANTS
    TypeOK
    OneJobAtATime
    ExecutorHasVerified
PROPERTY
    UpdatesEnd
CHECK_DEADLOCK FALSE
