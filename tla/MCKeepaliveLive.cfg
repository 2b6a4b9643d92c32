\* Keepalive follows what the account wants, under the fairness of FairSpec.
SPECIFICATION FairSpec
CONSTANTS
    a1 = a1
    web = web
    Account <- OneAccount
    WebCaller <- OneHandler
    MaxSessions = 3
    Desktops = 1
    MaxChanges = 1
PROPERTIES
    WantedRuns
    UnwantedStops
CHECK_DEADLOCK FALSE
