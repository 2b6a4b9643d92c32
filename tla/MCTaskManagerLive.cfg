\* Runs, installations and shutdowns end, under the fairness of FairSpec.
SPECIFICATION FairSpec
CONSTANTS
    a1 = a1
    Account <- OneAccount
    TaskType <- ChainTypes
    MaxRuns = 2
    MaxAttempts = 2
PROPERTIES
    RunsEnd
    MaintenanceEnds
CHECK_DEADLOCK FALSE
