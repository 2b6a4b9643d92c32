\* Every interleaving of loops, starts, updates, tasks and Close.
SPECIFICATION Spec
CONSTANTS
    a1 = a1
    web = web
    Account <- OneAccount
    WebCaller <- OneHandler
    MaxSessions = 2
    Desktops = 1
    MaxChanges = 3
INVARIANTS
    TypeOK
    ClosedIsSilent
PROPERTIES
    LoopsKeepSessions
    UpdateSparesUsage
CHECK_DEADLOCK FALSE
