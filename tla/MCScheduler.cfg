\* Every phase of the ticker around a midnight from Sunday to Monday, with
\* updates, manual runs and restarts in between.
SPECIFICATION Spec
CONSTANTS
    Weekday = 7
    Occurrence <- AtMidnightAndLater
    Origin <- TwoMinutesBefore
    Horizon <- FourMinutesAfter
    Form <- Forms
    MaxChanges = 1
INVARIANTS
    TypeOK
    OccurrencesServed
    OneRunPerMinute
    WindowsBelongToTheirDay
CHECK_DEADLOCK FALSE
