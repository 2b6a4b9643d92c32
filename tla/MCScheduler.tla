---------------------------- MODULE MCScheduler -----------------------------
(* A small instance of Scheduler for TLC: the minutes around a midnight.   *)
EXTENDS Scheduler

Midnight == 86400
AtMidnightAndLater == {Midnight, Midnight + 120}
TwoMinutesBefore == Midnight - 90
FourMinutesAfter == Midnight + 210

\* A window that ends at, or crosses, midnight, in the days around it.
Forms ==
    [enabled : {TRUE}, mode : {"scheduled"}, start : {1439, 1}, end : {1439, 1, 2}, days : {{6}, {7}, {1, 7}}]
    \cup [enabled : {TRUE, FALSE}, mode : {"always", "off"}, start : {1440}, end : {1440}, days : {{}}]

NoForms == [enabled : {TRUE}, mode : {"off"}, start : {1440}, end : {1440}, days : {{}}]
=============================================================================
