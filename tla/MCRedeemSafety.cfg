\* Every overlap of schedule, tasks, user, midnight and crashes.
SPECIFICATION Spec
CONSTANTS
    t1 = t1
    web = web
    Target <- OneTarget
    Handler <- OneHandler
    Interval = 2
    MaxDays = 3
INVARIANTS
    TypeOK
PROPERTIES
    OrdersWait
    AutomaticOncePerDate
    
CHECK_DEADLOCK FALSE
