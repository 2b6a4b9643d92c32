----------------------------- MODULE Scheduler ------------------------------
(***************************************************************************)
(* The scheduler of internal/service/manager.go for one account and one of *)
(* its daily tasks: a tick every 20 seconds compares the Cron plan and the *)
(* keepalive window with the clock, claims the minute in scheduler_claims  *)
(* and launches startScheduledTask, which asks the platform before it      *)
(* starts the task.  TaskManager has what happens to a started task, and   *)
(* Keepalive what follows from the wish for a connection.                  *)
(*                                                                         *)
(* Time is counted in seconds from the midnight that begins Weekday.  A    *)
(* Cron plan is the set of seconds it names; a ticker does not drift, and  *)
(* a tick takes no time.                                                   *)
(***************************************************************************)
EXTENDS Naturals, FiniteSets

CONSTANTS
    Weekday,        \* the day that time 0 begins: Monday is 1
    Occurrence,     \* the seconds the Cron plan names
    Origin,         \* the first tick comes in the 20 seconds after it
    Horizon,        \* bound on time
    Form,           \* keepalive settings as they may be sent
    MaxChanges      \* bound on updates, manual runs and restarts

ASSUME TimeAssumption ==
    /\ Weekday \in 1..7
    /\ Occurrence \subseteq Nat
    /\ Origin \in Nat /\ Horizon \in Nat /\ MaxChanges \in Nat
    /\ Origin + 20 <= Horizon

\* A Cron plan has no field for seconds, and is looked at from Origin on.
ASSUME PlanAssumption == \A o \in Occurrence : o % 60 = 0 /\ o >= Origin

\* Times are minutes of the day, or 1440 for text that is no time.
ASSUME FormAssumption ==
    Form \subseteq [enabled : BOOLEAN, mode : {"off", "always", "scheduled"},
                     start : 0..1440, end : 0..1440, days : SUBSET Nat]

VARIABLES
    settings,       \* the keepalive columns of the account
    now, up,        \* the clock at the last tick or start; the process
    want,           \* whether the account is to be connected
    claims,         \* scheduler_claims: minutes
    starter,        \* the startScheduledTask goroutine of a minute
    run,            \* the task is in active
    credited,       \* the platform counts the task as done today
    maintenance,
    served,         \* for the properties: occurrences a goroutine was launched for,
    excused,        \* those that met maintenance or a stopped program,
    runs, begun,    \* how many scheduled runs an occurrence and a minute had
    changes

history == <<served, excused, runs, begun>>
vars == <<settings, now, up, want, claims, starter, run, credited, maintenance, history, changes>>

Period == 20
MinuteOf(t) == t \div 60
Minute == MinuteOf(Origin)..MinuteOf(Horizon)
NoStarter == [stage |-> "none", occurrence |-> 0]

Change == changes < MaxChanges /\ changes' = changes + 1

-----------------------------------------------------------------------------
(* Keepalive windows.  Minutes of the day, 1440 for text that is no time.  *)

NoTime == 1440
WeekdayAt(t) == ((Weekday - 1 + (t \div 86400)) % 7) + 1
MinuteOfDay(t) == (t \div 60) % 1440

\* validateKeepaliveSettings.
Accepted(f) ==
    f.mode = "scheduled" =>
        /\ NoTime \notin {f.start, f.end} /\ f.start # f.end
        /\ f.days # {} /\ f.days \subseteq 1..7

\* Mutant: what is sent is stored.
SavedAsSent(f) == f

\* The normalizations of SaveAccount.
Saved(f) ==
    [enabled |-> f.enabled, mode |-> f.mode,
     start |-> IF f.start = NoTime THEN 480 ELSE f.start,
     end |-> IF f.end = NoTime THEN 1380 ELSE f.end,
     days |-> IF f.days = {} THEN 1..7 ELSE f.days]

Previous(day) == IF day = 1 THEN 7 ELSE day - 1

\* Mutant: the morning of a window belongs to the day it ends on.
ActiveOnDay(a, day, minute) ==
    /\ a.enabled /\ a.mode # "off"
    /\ a.mode = "scheduled" =>
         IF a.start < a.end THEN day \in a.days /\ minute >= a.start /\ minute < a.end
         ELSE day \in a.days /\ (minute >= a.start \/ minute < a.end)

KeepaliveActiveAt(a, day, minute) ==
    /\ a.enabled /\ a.mode # "off"
    /\ a.mode = "scheduled" =>
         \/ a.start < a.end /\ day \in a.days /\ minute >= a.start /\ minute < a.end
         \/ a.start > a.end /\ minute >= a.start /\ day \in a.days
         \/ a.start > a.end /\ minute < a.start /\ minute < a.end /\ Previous(day) \in a.days

Wanted(t) == KeepaliveActiveAt(settings, WeekdayAt(t), MinuteOfDay(t))

-----------------------------------------------------------------------------

Init ==
    /\ settings \in {Saved(f) : f \in {g \in Form : Accepted(g)}}
    /\ now \in Origin..(Origin + Period - 1) /\ up = TRUE
    /\ want = Wanted(now)
    /\ claims = {}
    /\ starter = [m \in Minute |-> NoStarter]
    /\ run = FALSE /\ credited = FALSE /\ maintenance = FALSE
    /\ served = {} /\ excused = {}
    /\ runs = [o \in Occurrence |-> 0] /\ begun = [m \in Minute |-> 0]
    /\ changes = 0

\* Next(now - 1 min - 1 s) of the Cron library: the first one strictly later.
First(S) == CHOOSE o \in S : \A p \in S : o <= p

\* Mutant: the window is shorter than the ticker's period.
DueWithin10(t) == {o \in Occurrence : o + 10 > t /\ o <= t}

Due(t) ==
    LET later == {o \in Occurrence : o + 61 > t} IN
    IF later # {} /\ First(later) <= t THEN {First(later)} ELSE {}

\* Mutant: whoever asks gets the minute.
ClaimAgain(m) == ~maintenance

\* INSERT OR IGNORE of the minute.
Claim(m) == ~maintenance /\ m \notin claims

\* reconcileKeepalive, then the task; the minute claimed is that of the tick.
Tick ==
    LET t == now + Period
        m == MinuteOf(t)
    IN /\ up /\ t <= Horizon
       /\ now' = t
       /\ want' = IF maintenance THEN want ELSE Wanted(t)
       /\ IF Due(t) # {} /\ Claim(m)
          THEN /\ claims' = claims \cup {m}
               /\ starter' = [starter EXCEPT ![m] = [stage |-> "asking", occurrence |-> First(Due(t))]]
               /\ served' = served \cup Due(t)
          ELSE UNCHANGED <<claims, starter, served>>
       /\ excused' = IF maintenance THEN excused \cup Due(t) ELSE excused
       /\ UNCHANGED <<settings, up, run, credited, maintenance, runs, begun, changes>>

End(m) == starter' = [starter EXCEPT ![m] = NoStarter]

Confirmed == credited

\* RefreshStatus, which may fail.
AskPlatform(m) ==
    /\ starter[m].stage = "asking"
    /\ \/ Confirmed /\ End(m)
       \/ ~Confirmed /\ starter' = [starter EXCEPT ![m].stage = "starting"]
    /\ UNCHANGED <<settings, now, up, want, claims, run, credited, maintenance, history, changes>>

AskFails(m) ==
    /\ starter[m].stage = "asking"
    /\ starter' = [starter EXCEPT ![m].stage = "starting"]
    /\ UNCHANGED <<settings, now, up, want, claims, run, credited, maintenance, history, changes>>

\* A refusal because the task runs already keeps the claim; every other error of
\* StartTask, an update's or a failed AddRun, gives it back.
Released(m) == IF run /\ ~maintenance THEN claims ELSE claims \ {m}

StartTask(m) ==
    /\ starter[m].stage = "starting"
    /\ End(m)
    /\ \/ claims' = Released(m) /\ UNCHANGED <<run, runs, begun>>
       \/ /\ ~maintenance /\ ~run
          /\ run' = TRUE /\ UNCHANGED claims
          /\ runs' = [runs EXCEPT ![starter[m].occurrence] = @ + 1]
          /\ begun' = [begun EXCEPT ![m] = @ + 1]
    /\ UNCHANGED <<settings, now, up, want, credited, maintenance, served, excused, changes>>

-----------------------------------------------------------------------------
(* The task, the user, updates and the process.                            *)

StartManually ==
    /\ up /\ ~run /\ ~maintenance /\ Change
    /\ run' = TRUE
    /\ UNCHANGED <<settings, now, up, want, claims, starter, credited, maintenance, history>>

RunEnds ==
    /\ run /\ run' = FALSE
    /\ credited' \in {credited, TRUE}
    /\ UNCHANGED <<settings, now, up, want, claims, starter, maintenance, history, changes>>

MaintenanceBegins ==
    /\ up /\ ~maintenance /\ Change
    /\ maintenance' = TRUE /\ want' = FALSE
    /\ UNCHANGED <<settings, now, up, claims, starter, run, credited, history>>

MaintenanceEnds ==
    /\ maintenance /\ maintenance' = FALSE
    /\ want' = Wanted(now)
    /\ UNCHANGED <<settings, now, up, claims, starter, run, credited, history, changes>>

ProgramEnds ==
    /\ up /\ Change
    /\ up' = FALSE /\ want' = FALSE /\ run' = FALSE /\ maintenance' = FALSE
    /\ starter' = [m \in Minute |-> NoStarter]
    /\ UNCHANGED <<settings, now, claims, credited, history>>

\* Start connects at once and ticks after the period.
ProgramStarts ==
    /\ ~up /\ up' = TRUE
    /\ now' \in (now + 1)..(now + 2 * Period) /\ now' <= Horizon
    /\ want' = Wanted(now')
    /\ excused' = excused \cup {o \in Occurrence : o > now - 61 /\ o <= now'}
    /\ UNCHANGED <<settings, claims, starter, run, credited, maintenance, served, runs, begun, changes>>

Next ==
    \/ Tick
    \/ \E m \in Minute : AskPlatform(m) \/ AskFails(m) \/ StartTask(m)
    \/ StartManually \/ RunEnds \/ MaintenanceBegins \/ MaintenanceEnds
    \/ ProgramEnds \/ ProgramStarts

Spec == Init /\ [][Next]_vars

-----------------------------------------------------------------------------

TypeOK ==
    /\ settings \in [enabled : BOOLEAN, mode : {"off", "always", "scheduled"},
                     start : 0..1439, end : 0..1439, days : SUBSET Nat]
    /\ now \in Origin..Horizon /\ up \in BOOLEAN /\ want \in BOOLEAN
    /\ claims \subseteq Minute
    /\ starter \in [Minute -> [stage : {"none", "asking", "starting"},
                               occurrence : Occurrence \cup {0}]]
    /\ run \in BOOLEAN /\ credited \in BOOLEAN /\ maintenance \in BOOLEAN
    /\ served \subseteq Occurrence /\ excused \subseteq Occurrence
    /\ runs \in [Occurrence -> Nat] /\ begun \in [Minute -> Nat]
    /\ changes \in 0..MaxChanges

\* No occurrence passes between two ticks: whatever second the program was
\* started at, each one launches its task, unless an update or a stopped
\* program was in the way.
OccurrencesServed ==
    \A o \in Occurrence : now >= o + 61 /\ o \notin excused => o \in served

\* The ticks of a minute share its claim: they start the task once, even when
\* its first run has ended by the second tick and is not yet credited.
OneRunPerMinute == \A m \in Minute : begun[m] <= 1

\* The connection follows the clock: a window belongs to the day it begins on,
\* also after midnight and from Sunday to Monday.
InWindow(t) ==
    LET week == 7 * 1440
        length == (settings.end + 1440 - settings.start) % 1440
        minute == (Weekday - 1) * 1440 + t \div 60
        since(d) == (minute + week - ((d - 1) * 1440 + settings.start)) % week
    IN /\ settings.enabled
       /\ \/ settings.mode = "always"
          \/ settings.mode = "scheduled" /\ \E d \in settings.days : since(d) < length

WindowsBelongToTheirDay == up /\ ~maintenance => (want <=> InWindow(now))

\* README.md:97: each task has the Cron plan of a daily task.  An occurrence
\* starts it once.
OccurrenceOnce == \A o \in Occurrence : runs[o] <= 1
=============================================================================
