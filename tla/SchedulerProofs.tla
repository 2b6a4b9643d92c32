--------------------------- MODULE SchedulerProofs ---------------------------
(***************************************************************************)
(* Theorems about Scheduler for every Cron plan, every phase of the ticker,*)
(* all settings and every bound.                                           *)
(***************************************************************************)
EXTENDS Scheduler, WellFoundedInduction, TLAPS

----------------------------------------------------------------------------
(* Clock and calendar                                                       *)

LEMMA MinuteBounds ==
  ASSUME NEW t \in Nat
  PROVE  MinuteOf(t) \in Nat /\ 60 * MinuteOf(t) <= t /\ t < 60 * MinuteOf(t) + 60
BY DEF MinuteOf

LEMMA MinutesTyped ==
  ASSUME NEW t \in Origin..Horizon
  PROVE  MinuteOf(t) \in Minute
BY TimeAssumption DEF MinuteOf, Minute

\* First is what it is meant to be, since the numbers are well-founded.
LEMMA FirstIsLeast ==
  ASSUME NEW S, S \subseteq Nat, S # {}
  PROVE  First(S) \in S /\ \A p \in S : First(S) <= p
<1>1. PICK o \in S : \A p \in S : <<p, o>> \notin OpToRel(<, Nat)
  BY NatLessThanWellFounded, WFMin, Zenon
<1>2. \A p \in S : ~(p < o)
  BY <1>1, Zenon DEF OpToRel
<1>3. \A p \in S : o <= p
  BY <1>2
<1> QED
  BY <1>3 DEF First

LEMMA DueTyped ==
  ASSUME NEW t \in Nat
  PROVE  /\ Due(t) \subseteq Occurrence
         /\ Due(t) # {} => First(Due(t)) \in Due(t)
         /\ \A o \in Due(t) : o <= t /\ t < o + 61
<1> DEFINE later == {o \in Occurrence : o + 61 > t}
<1>1. later \subseteq Nat /\ later \subseteq Occurrence
  BY TimeAssumption
<1>2. later # {} => First(later) \in later
  BY <1>1, FirstIsLeast
<1>3. Due(t) = IF later # {} /\ First(later) <= t THEN {First(later)} ELSE {}
  BY DEF Due
<1>4. Due(t) \subseteq later
  BY <1>2, <1>3
<1>5. Due(t) # {} => First(Due(t)) \in Due(t)
  BY <1>1, <1>4, FirstIsLeast
<1>6. \A o \in Due(t) : o <= t
  BY <1>3
<1>7. \A o \in later : o \in Nat /\ t < o + 61
  BY <1>1
<1> QED
  BY <1>1, <1>4, <1>5, <1>6, <1>7

\* For a minute after its second an occurrence is the one that is due, since
\* the ones before it are a minute or more away.
LEMMA DueAfter ==
  ASSUME NEW o \in Occurrence, NEW t \in Nat, o < t, t <= o + 60
  PROVE  Due(t) = {o}
<1> DEFINE later == {p \in Occurrence : p + 61 > t}
<1>1. \A p \in Occurrence : p \in Nat /\ p % 60 = 0
  BY TimeAssumption, PlanAssumption
<1>2. o \in later /\ later \subseteq Nat
  BY <1>1
<1>3. ASSUME NEW p \in later PROVE o <= p
  <2>1. p \in Nat /\ p % 60 = 0 /\ o \in Nat /\ o % 60 = 0 /\ t < p + 61
    BY <1>1
  <2>2. o < p + 60
    BY <2>1
  <2> QED
    BY <2>1, <2>2
<1>4. First(later) \in later /\ First(later) <= o
  BY <1>2, FirstIsLeast
<1>5. First(later) = o
  BY <1>1, <1>2, <1>3, <1>4
<1>6. Due(t) = IF later # {} /\ First(later) <= t THEN {First(later)} ELSE {}
  BY DEF Due
<1>7. o <= t
  BY <1>1
<1> QED
  BY <1>2, <1>5, <1>6, <1>7

\* What SaveAccount stores of settings that were accepted.
SettingsInv ==
    settings.mode = "scheduled" => settings.start # settings.end /\ settings.days \subseteq 1..7

SettingsT == [enabled : BOOLEAN, mode : {"off", "always", "scheduled"},
              start : 0..1439, end : 0..1439, days : SUBSET Nat]

LEMMA SavedTyped ==
  ASSUME NEW f \in Form, Accepted(f)
  PROVE  /\ Saved(f) \in SettingsT
         /\ Saved(f).mode = "scheduled" =>
               Saved(f).start # Saved(f).end /\ Saved(f).days \subseteq 1..7
<1>1. /\ f.enabled \in BOOLEAN /\ f.mode \in {"off", "always", "scheduled"}
      /\ f.start \in 0..1440 /\ f.end \in 0..1440 /\ f.days \in SUBSET Nat
  BY FormAssumption
<1> DEFINE start == IF f.start = NoTime THEN 480 ELSE f.start
           end == IF f.end = NoTime THEN 1380 ELSE f.end
           days == IF f.days = {} THEN 1..7 ELSE f.days
<1>2. start \in 0..1439 /\ end \in 0..1439
  BY <1>1 DEF NoTime
<1>3. days \in SUBSET Nat
  BY <1>1
<1>4. f.mode = "scheduled" => start = f.start /\ end = f.end /\ start # end /\ days \subseteq 1..7
  BY <1>1 DEF Accepted
<1>5. Saved(f) = [enabled |-> f.enabled, mode |-> f.mode, start |-> start, end |-> end,
                  days |-> days]
  BY DEF Saved
<1> HIDE DEF start, end, days
<1>6. Saved(f) \in SettingsT
  <2>1. /\ f.enabled \in BOOLEAN /\ f.mode \in {"off", "always", "scheduled"}
    BY <1>1
  <2> QED
    BY <2>1, <1>2, <1>3, <1>5 DEF SettingsT
<1>7. Saved(f).mode = f.mode /\ Saved(f).start = start /\ Saved(f).end = end /\ Saved(f).days = days
  BY <1>5
<1> QED
  BY <1>4, <1>6, <1>7

\* The weeks from the first Monday, and the minutes of them.
WeekAt(t) == (Weekday - 1 + t \div 86400) \div 7
MinuteFromMonday(t) == (Weekday - 1) * 1440 + t \div 60

\* The day and the minute of a time, without a quotient.
LEMMA CalendarOf ==
  ASSUME NEW t \in Nat
  PROVE  /\ WeekdayAt(t) \in 1..7 /\ MinuteOfDay(t) \in 0..1439
         /\ WeekAt(t) \in Nat /\ MinuteFromMonday(t) \in Nat
         /\ MinuteFromMonday(t) = 10080 * WeekAt(t) + 1440 * (WeekdayAt(t) - 1) + MinuteOfDay(t)
<1> DEFINE m == t \div 60
           day == t \div 86400
           rest == m % 1440
           shifted == Weekday - 1 + day
           week == shifted \div 7
           gone == shifted % 7
<1>1. m \in Nat /\ 60 * m <= t /\ t < 60 * m + 60
  OBVIOUS
<1>2. day \in Nat /\ 86400 * day <= t /\ t < 86400 * day + 86400
  OBVIOUS
<1>3. /\ WeekdayAt(t) = gone + 1 /\ MinuteOfDay(t) = rest /\ WeekAt(t) = week
      /\ MinuteFromMonday(t) = (Weekday - 1) * 1440 + m
  BY DEF WeekdayAt, MinuteOfDay, WeekAt, MinuteFromMonday
<1> HIDE DEF m, day
<1>4. 1440 * day <= m /\ m < 1440 * day + 1440
  BY <1>1, <1>2
<1>5. rest \in 0..1439 /\ m = 1440 * day + rest
  BY <1>1, <1>2, <1>4
<1>6. Weekday \in 1..7 /\ shifted \in Nat
  BY <1>2, TimeAssumption
<1> HIDE DEF shifted, rest
<1>7. week \in Nat /\ gone \in 0..6 /\ shifted = 7 * week + gone
  BY <1>6
<1> HIDE DEF week, gone
<1>8. Weekday - 1 + day = 7 * week + gone
  BY <1>7 DEF shifted
<1>9. (Weekday - 1) * 1440 + m = 10080 * week + 1440 * gone + rest
  BY <1>1, <1>2, <1>5, <1>6, <1>7, <1>8
<1> QED
  BY <1>1, <1>3, <1>5, <1>6, <1>7, <1>9

LEMMA RestOfWeek ==
  ASSUME NEW k \in Nat, NEW x \in Int, -10080 < x, x < 10080
  PROVE  (10080 * (k + 1) + x) % 10080 = IF x >= 0 THEN x ELSE x + 10080
OBVIOUS

\* The window of the code, which looks at two days, is the one that counts
\* minutes from its start.
LEMMA WindowIsWanted ==
  ASSUME settings \in SettingsT, SettingsInv, NEW t \in Nat
  PROVE  Wanted(t) <=> InWindow(t)
<1> DEFINE day == WeekdayAt(t)
           q == MinuteOfDay(t)
           start == settings.start
           end == settings.end
           k == WeekAt(t)
           minute == MinuteFromMonday(t)
           length == (end + 1440 - start) % 1440
           since(d) == (minute + 7 * 1440 - ((d - 1) * 1440 + start)) % (7 * 1440)
<1>1. settings.mode # "scheduled" => (Wanted(t) <=> InWindow(t))
  BY DEF Wanted, KeepaliveActiveAt, InWindow, SettingsT
<1>2. ASSUME settings.mode = "scheduled"
      PROVE  Wanted(t) <=> InWindow(t)
  <2>1. InWindow(t) <=> settings.enabled /\ \E d \in settings.days : since(d) < length
    BY <1>2 DEF InWindow, MinuteFromMonday
  <2>2. Wanted(t) <=> /\ settings.enabled
                      /\ \/ start < end /\ day \in settings.days /\ q >= start /\ q < end
                         \/ start > end /\ q >= start /\ day \in settings.days
                         \/ start > end /\ q < start /\ q < end /\ Previous(day) \in settings.days
    BY <1>2 DEF Wanted, KeepaliveActiveAt
  <2>3. start \in 0..1439 /\ end \in 0..1439 /\ start # end
    BY <1>2 DEF SettingsT, SettingsInv
  <2>4. day \in 1..7 /\ q \in 0..1439 /\ k \in Nat
    BY CalendarOf
  <2>5. minute \in Nat /\ minute = 10080 * k + 1440 * (day - 1) + q
    BY CalendarOf
  <2>6. settings.days \subseteq 1..7
    BY <1>2 DEF SettingsInv
  <2> HIDE DEF day, q, start, end, k, minute
  <2>7. length = IF start < end THEN end - start ELSE end + 1440 - start
    BY <2>3
  <2>8. Previous(day) = IF day = 1 THEN 7 ELSE day - 1
    BY DEF Previous
  <2> HIDE DEF length
  <2>9. ASSUME NEW d \in 1..7
        PROVE  since(d) < length <=> \/ d = day /\ q >= start /\ (start < end => q < end)
                                     \/ d = Previous(day) /\ q < start /\ start > end /\ q < end
    <3> DEFINE x == 1440 * (day - d) + q - start
               rest == (10080 * (k + 1) + x) % 10080
    <3>1. minute + 10080 - ((d - 1) * 1440 + start) = 10080 * (k + 1) + x
      BY <2>3, <2>4, <2>5
    <3>2. x \in Int /\ -10080 < x /\ x < 10080
      BY <2>3, <2>4
    <3>3. rest = IF x >= 0 THEN x ELSE x + 10080
      BY <2>4, <3>2, RestOfWeek
    <3>4. since(d) = rest
      BY <3>1
    <3> HIDE DEF rest, since
    <3> QED
      BY <2>3, <2>4, <2>7, <2>8, <3>3, <3>4
  <2> HIDE DEF since
  <2> QED
    BY <2>1, <2>2, <2>3, <2>4, <2>6, <2>8, <2>9
<1> QED
  BY <1>1, <1>2

----------------------------------------------------------------------------
(* Claims and runs                                                          *)

\* What the claim of a minute says of its goroutine and its runs.
Tidy ==
    /\ \A m \in Minute : begun[m] \in {0, 1}
    /\ DOMAIN starter = Minute /\ DOMAIN begun = Minute

\* A goroutine holds the claim of its minute and has started nothing yet; a
\* claim whose run was started is never released.
ClaimInv ==
    \A m \in Minute :
        /\ starter[m].stage # "none" => m \in claims /\ begun[m] = 0
        /\ begun[m] = 1 => m \in claims

RunInv == Tidy /\ ClaimInv

LEMMA InitRunInv == Init => RunInv
BY DEF Init, RunInv, Tidy, ClaimInv, NoStarter

LEMMA TickRunInv == RunInv /\ Tick => RunInv'
<1> SUFFICES ASSUME RunInv, Tick
             PROVE  RunInv'
  OBVIOUS
<1> USE DEF RunInv, Tidy, ClaimInv
<1> DEFINE t == now + Period
           m == MinuteOf(t)
<1>1. begun' = begun
  BY DEF Tick
<1>2. CASE Due(t) # {} /\ Claim(m)
  <2>1. /\ claims' = claims \cup {m}
        /\ starter' = [starter EXCEPT ![m] = [stage |-> "asking", occurrence |-> First(Due(t))]]
        /\ m \notin claims
    BY <1>2 DEF Tick, Claim
  <2> QED
    BY <1>1, <2>1
<1>3. CASE ~(Due(t) # {} /\ Claim(m))
  BY <1>1, <1>3 DEF Tick
<1> QED
  BY <1>2, <1>3

LEMMA StarterRunInv ==
  ASSUME RunInv, NEW m \in Minute, AskPlatform(m) \/ AskFails(m) \/ StartTask(m)
  PROVE  RunInv'
<1> USE DEF RunInv, Tidy, ClaimInv
<1>1. CASE AskPlatform(m)
  BY <1>1 DEF AskPlatform, End, NoStarter, history
<1>2. CASE AskFails(m)
  BY <1>2 DEF AskFails, history
<1>3. CASE StartTask(m)
  <2>1. /\ starter' = [starter EXCEPT ![m] = NoStarter]
        /\ m \in claims /\ begun[m] = 0
    BY <1>3 DEF StartTask, End
  <2>2. CASE claims' = Released(m) /\ begun' = begun
    BY <2>1, <2>2 DEF Released, NoStarter
  <2>3. CASE claims' = claims /\ begun' = [begun EXCEPT ![m] = @ + 1]
    BY <2>1, <2>3 DEF NoStarter
  <2> QED
    BY <1>3, <2>2, <2>3 DEF StartTask
<1> QED
  BY <1>1, <1>2, <1>3

LEMMA StepRunInv == RunInv /\ [Next]_vars => RunInv'
<1> SUFFICES ASSUME RunInv, [Next]_vars
             PROVE  RunInv'
  OBVIOUS
<1>1. CASE \E m \in Minute : AskPlatform(m) \/ AskFails(m) \/ StartTask(m)
  BY <1>1, StarterRunInv
<1>2. CASE Tick
  BY <1>2, TickRunInv
<1> USE DEF RunInv, Tidy, ClaimInv
<1>3. CASE StartManually \/ RunEnds \/ MaintenanceBegins \/ MaintenanceEnds \/ ProgramStarts
  BY <1>3 DEF StartManually, RunEnds, MaintenanceBegins, MaintenanceEnds, ProgramStarts, history
<1>4. CASE ProgramEnds
  BY <1>4 DEF ProgramEnds, NoStarter, history
<1>5. CASE UNCHANGED vars
  BY <1>5 DEF vars, history
<1> QED
  BY <1>1, <1>2, <1>3, <1>4, <1>5 DEF Next

----------------------------------------------------------------------------
(* The connection, and the occurrences that are served                      *)

WantInv == up /\ ~maintenance => (want <=> Wanted(now))

\* No minute is claimed ahead.  An occurrence that waits is in the first two
\* ticks of its minute, or at its very second: a claim that the occurrence
\* before it made there leaves it the first tick of the next minute.
ServedInv ==
    /\ \A m \in claims : m <= MinuteOf(now)
    /\ \A o \in Occurrence \ (served \cup excused) :
          /\ now <= o + 20 \/ now = o + 40
          /\ MinuteOf(o) \in claims => now \in {o, o + 20, o + 40}

IInv == TypeOK /\ SettingsInv /\ RunInv /\ WantInv /\ ServedInv

LEMMA InitIInv == Init => IInv
<1> SUFFICES ASSUME Init
             PROVE  IInv
  OBVIOUS
<1>1. settings \in SettingsT /\ SettingsInv
  <2>1. PICK f \in Form : Accepted(f) /\ settings = Saved(f)
    BY DEF Init
  <2> QED
    BY <2>1, SavedTyped DEF SettingsInv
<1>2. now \in Nat /\ now \in Origin..Horizon /\ now < Origin + 20
  BY TimeAssumption DEF Init, Period
<1>3. up \in BOOLEAN /\ want \in BOOLEAN /\ run \in BOOLEAN /\ credited \in BOOLEAN
      /\ maintenance \in BOOLEAN
  BY DEF Init, Wanted, KeepaliveActiveAt
<1>4. starter \in [Minute -> [stage : {"none", "asking", "starting"},
                              occurrence : Occurrence \cup {0}]]
  BY DEF Init, NoStarter
<1>5. TypeOK
  BY <1>1, <1>2, <1>3, <1>4, TimeAssumption DEF Init, TypeOK, SettingsT
<1>6. ServedInv
  <2>1. ASSUME NEW o \in Occurrence PROVE now <= o + 20
    BY <1>2, TimeAssumption, PlanAssumption
  <2> QED
    BY <2>1 DEF Init, ServedInv
<1> QED
  BY <1>1, <1>5, <1>6, InitRunInv DEF IInv, Init, WantInv

LEMMA WantedTyped ==
  ASSUME NEW t
  PROVE  Wanted(t) \in BOOLEAN
BY DEF Wanted, KeepaliveActiveAt

LEMMA TickTyped ==
  ASSUME TypeOK, Tick
  PROVE  TypeOK'
<1> DEFINE t == now + Period
           m == MinuteOf(t)
<1>1. t \in Nat /\ t \in Origin..Horizon /\ m \in Minute
  BY TimeAssumption, MinutesTyped DEF TypeOK, Tick, Period
<1>2. Due(t) \subseteq Occurrence /\ (Due(t) # {} => First(Due(t)) \in Occurrence)
  BY <1>1, DueTyped
<1> HIDE DEF m, t
<1>3. want' \in BOOLEAN
  <2>1. want' = IF maintenance THEN want ELSE Wanted(t)
    BY DEF Tick, t
  <2> QED
    BY <2>1, WantedTyped DEF TypeOK
<1>4. /\ claims' \subseteq Minute /\ served' \subseteq Occurrence
      /\ starter' \in [Minute -> [stage : {"none", "asking", "starting"},
                                  occurrence : Occurrence \cup {0}]]
  <2>1. CASE Due(t) # {} /\ Claim(m)
    <3>1. /\ claims' = claims \cup {m} /\ served' = served \cup Due(t)
          /\ starter' = [starter EXCEPT ![m] = [stage |-> "asking", occurrence |-> First(Due(t))]]
      BY <2>1 DEF Tick, m, t
    <3> QED
      BY <1>1, <1>2, <2>1, <3>1 DEF TypeOK
  <2>2. CASE ~(Due(t) # {} /\ Claim(m))
    BY <2>2 DEF Tick, TypeOK, m, t
  <2> QED
    BY <2>1, <2>2
<1>5. now' \in Origin..Horizon
  BY <1>1 DEF Tick, t
<1>6. excused' \subseteq Occurrence
  BY <1>2 DEF Tick, TypeOK, t
<1>7. UNCHANGED <<settings, up, run, credited, maintenance, runs, begun, changes>>
  BY DEF Tick
<1> QED
  BY <1>3, <1>4, <1>5, <1>6, <1>7 DEF TypeOK

LEMMA StarterTyped ==
  ASSUME TypeOK, NEW m \in Minute, AskPlatform(m) \/ AskFails(m) \/ StartTask(m)
  PROVE  TypeOK'
<1> DEFINE Starter == [stage : {"none", "asking", "starting"}, occurrence : Occurrence \cup {0}]
<1>1. \A r \in Starter : [r EXCEPT !.stage = "starting"] \in Starter
  OBVIOUS
<1>2. starter' \in [Minute -> Starter]
  BY <1>1 DEF TypeOK, AskPlatform, AskFails, StartTask, End, NoStarter
<1>3. CASE AskPlatform(m) \/ AskFails(m)
  BY <1>2, <1>3 DEF AskPlatform, AskFails, TypeOK, history
<1>4. CASE StartTask(m)
  <2>1. claims' \subseteq Minute
    BY <1>4 DEF StartTask, Released, TypeOK
  <2>2. run' \in BOOLEAN
    <3>1. run' \in {run, TRUE}
      BY <1>4 DEF StartTask
    <3>2. run \in BOOLEAN
      BY DEF TypeOK
    <3> QED
      BY <3>1, <3>2
  <2>3. runs' \in [Occurrence -> Nat] /\ begun' \in [Minute -> Nat]
    BY <1>4 DEF StartTask, TypeOK
  <2>4. UNCHANGED <<settings, now, up, want, credited, maintenance, served, excused, changes>>
    BY <1>4 DEF StartTask
  <2> QED
    BY <1>2, <2>1, <2>2, <2>3, <2>4 DEF TypeOK
<1> QED
  BY <1>3, <1>4

LEMMA OtherTyped ==
  ASSUME TypeOK, StartManually \/ RunEnds \/ MaintenanceBegins \/ MaintenanceEnds
                 \/ ProgramEnds \/ ProgramStarts
  PROVE  TypeOK'
<1>1. /\ Wanted(now) \in BOOLEAN /\ Wanted(now') \in BOOLEAN
      /\ up \in BOOLEAN /\ want \in BOOLEAN /\ run \in BOOLEAN /\ credited \in BOOLEAN
      /\ maintenance \in BOOLEAN
  BY WantedTyped DEF TypeOK
<1>2. /\ now \in Origin..Horizon /\ now \in Nat /\ changes \in 0..MaxChanges
      /\ Origin \in Nat /\ Horizon \in Nat /\ MaxChanges \in Nat
  BY TimeAssumption DEF TypeOK
<1>3. starter \in [Minute -> [stage : {"none", "asking", "starting"},
                              occurrence : Occurrence \cup {0}]]
      /\ NoStarter \in [stage : {"none", "asking", "starting"}, occurrence : Occurrence \cup {0}]
  BY DEF TypeOK, NoStarter
<1>4. CASE StartManually
  <2>1. up' \in BOOLEAN /\ want' \in BOOLEAN /\ run' \in BOOLEAN /\ credited' \in BOOLEAN
        /\ maintenance' \in BOOLEAN
    BY <1>1, <1>4 DEF StartManually
  <2>2. now' \in Origin..Horizon /\ changes' \in 0..MaxChanges
    BY <1>2, <1>4 DEF StartManually, Change, history
  <2> QED
    BY <1>4, <2>1, <2>2 DEF StartManually, TypeOK, history
<1>5. CASE RunEnds
  <2>1. up' \in BOOLEAN /\ want' \in BOOLEAN /\ run' \in BOOLEAN /\ credited' \in BOOLEAN
        /\ maintenance' \in BOOLEAN
    BY <1>1, <1>5 DEF RunEnds
  <2>2. now' \in Origin..Horizon /\ changes' \in 0..MaxChanges
    BY <1>2, <1>5 DEF RunEnds, history
  <2> QED
    BY <1>5, <2>1, <2>2 DEF RunEnds, TypeOK, history
<1>6. CASE MaintenanceBegins
  <2>1. up' \in BOOLEAN /\ want' \in BOOLEAN /\ run' \in BOOLEAN /\ credited' \in BOOLEAN
        /\ maintenance' \in BOOLEAN
    BY <1>1, <1>6 DEF MaintenanceBegins
  <2>2. now' \in Origin..Horizon /\ changes' \in 0..MaxChanges
    BY <1>2, <1>6 DEF MaintenanceBegins, Change, history
  <2> QED
    BY <1>6, <2>1, <2>2 DEF MaintenanceBegins, TypeOK, history
<1>7. CASE MaintenanceEnds
  <2>1. up' \in BOOLEAN /\ want' \in BOOLEAN /\ run' \in BOOLEAN /\ credited' \in BOOLEAN
        /\ maintenance' \in BOOLEAN
    BY <1>1, <1>7 DEF MaintenanceEnds
  <2>2. now' \in Origin..Horizon /\ changes' \in 0..MaxChanges
    BY <1>2, <1>7 DEF MaintenanceEnds, history
  <2> QED
    BY <1>7, <2>1, <2>2 DEF MaintenanceEnds, TypeOK, history
<1>8. CASE ProgramEnds
  <2>1. up' \in BOOLEAN /\ want' \in BOOLEAN /\ run' \in BOOLEAN /\ credited' \in BOOLEAN
        /\ maintenance' \in BOOLEAN
    BY <1>1, <1>8 DEF ProgramEnds
  <2>2. now' \in Origin..Horizon /\ changes' \in 0..MaxChanges
    BY <1>2, <1>8 DEF ProgramEnds, Change, history
  <2>3. starter' \in [Minute -> [stage : {"none", "asking", "starting"},
                                 occurrence : Occurrence \cup {0}]]
    BY <1>3, <1>8 DEF ProgramEnds
  <2> QED
    BY <1>8, <2>1, <2>2, <2>3 DEF ProgramEnds, TypeOK, history
<1>9. CASE ProgramStarts
  <2>1. up' \in BOOLEAN /\ want' \in BOOLEAN /\ run' \in BOOLEAN /\ credited' \in BOOLEAN
        /\ maintenance' \in BOOLEAN
    BY <1>1, <1>9 DEF ProgramStarts
  <2>2. now' \in Origin..Horizon /\ changes' \in 0..MaxChanges
    BY <1>2, <1>9 DEF ProgramStarts, history, Period
  <2> QED
    BY <1>9, <2>1, <2>2 DEF ProgramStarts, TypeOK, history
<1> QED
  BY <1>4, <1>5, <1>6, <1>7, <1>8, <1>9

LEMMA TickServes ==
  ASSUME TypeOK, ServedInv, Tick
  PROVE  ServedInv'
<1> DEFINE t == now + Period
           m == MinuteOf(t)
<1>1. t \in Nat /\ now \in Nat /\ t = now + 20 /\ m \in Nat /\ MinuteOf(now) \in Nat
      /\ MinuteOf(now) <= m
  <2>1. now \in Nat /\ now \in Origin..Horizon
    BY TimeAssumption DEF TypeOK
  <2>2. t \in Nat /\ t = now + 20
    BY <2>1 DEF Period
  <2>3. MinuteOf(now) \in Nat /\ 60 * MinuteOf(now) <= now
    BY <2>1, MinuteBounds
  <2>4. m \in Nat /\ t < 60 * m + 60
    BY <2>2, MinuteBounds
  <2> QED
    BY <2>1, <2>2, <2>3, <2>4
<1>2. /\ now' = t /\ (claims' = claims \/ claims' = claims \cup {m})
      /\ served \subseteq served' /\ excused \subseteq excused'
      /\ maintenance => excused' = excused \cup Due(t)
      /\ Due(t) # {} /\ ~maintenance /\ m \notin claims =>
            claims' = claims \cup {m} /\ served' = served \cup Due(t)
  BY DEF Tick, Claim
<1> HIDE DEF t, m
<1>3. \A n \in claims' : n <= MinuteOf(now')
  <2>1. MinuteOf(now') = m
    BY <1>2 DEF m
  <2>2. \A n \in claims : n \in Nat /\ n <= MinuteOf(now)
    BY TimeAssumption, MinuteBounds DEF ServedInv, TypeOK, Minute
  <2> QED
    BY <1>1, <1>2, <2>1, <2>2
<1>4. ASSUME NEW o \in Occurrence \ (served' \cup excused')
      PROVE  /\ now' <= o + 20 \/ now' = o + 40
             /\ MinuteOf(o) \in claims' => now' \in {o, o + 20, o + 40}
  <2>1. /\ o \in Nat /\ o % 60 = 0 /\ (now <= o + 20 \/ now = o + 40)
        /\ MinuteOf(o) \in claims => now \in {o, o + 20, o + 40}
    BY <1>2, TimeAssumption, PlanAssumption DEF ServedInv
  <2>2. o = 60 * MinuteOf(o) /\ MinuteOf(o) \in Nat
    BY <2>1 DEF MinuteOf
  <2>3. CASE t <= o
    <3>1. MinuteOf(o) \in claims' => t = o
      <4>1. MinuteOf(o) \notin claims
        BY <1>1, <2>1, <2>3
      <4>2. 60 * m <= t
        BY <1>1, MinuteBounds DEF m
      <4> QED
        BY <1>1, <1>2, <2>1, <2>2, <2>3, <4>1, <4>2
    <3> QED
      BY <1>1, <1>2, <2>1, <2>3, <3>1
  <2>4. CASE o < t
    <3>1. Due(t) = {o} /\ ~maintenance
      BY <1>1, <1>2, <2>1, <2>4, DueAfter
    <3>2. m \in claims
      BY <1>2, <3>1
    <3>3. m = MinuteOf(o)
      <4>1. m <= MinuteOf(now)
        BY <3>2 DEF ServedInv
      <4>2. 60 * MinuteOf(now) <= now /\ t < 60 * m + 60 /\ 60 * m <= t
        BY <1>1, MinuteBounds DEF m
      <4> QED
        BY <1>1, <2>1, <2>2, <2>4, <4>1, <4>2
    <3>4. now \in {o, o + 20, o + 40} /\ o < now + 20 /\ now + 20 < o + 60
      <4>1. 60 * m <= t /\ t < 60 * m + 60
        BY <1>1, MinuteBounds DEF m
      <4> QED
        BY <1>1, <2>1, <2>2, <2>4, <3>2, <3>3, <4>1
    <3>5. now' = now + 20
      BY <1>1, <1>2
    <3> QED
      BY <1>1, <2>1, <3>4, <3>5
  <2> QED
    BY <1>1, <2>1, <2>3, <2>4
<1> QED
  BY <1>3, <1>4 DEF ServedInv

LEMMA StepIInv == IInv /\ [Next]_vars => IInv'
<1> SUFFICES ASSUME IInv, [Next]_vars
             PROVE  IInv'
  OBVIOUS
<1> USE DEF IInv
<1>1. RunInv'
  BY StepRunInv
<1>2. settings' = settings
  BY DEF Next, vars, Tick, AskPlatform, AskFails, StartTask, StartManually, RunEnds,
     MaintenanceBegins, MaintenanceEnds, ProgramEnds, ProgramStarts
<1>3. SettingsInv'
  BY <1>2 DEF SettingsInv
<1>4. \A t : Wanted(t)' <=> Wanted(t)
  BY <1>2 DEF Wanted
<1>5. CASE Tick
  BY <1>1, <1>3, <1>5, TickTyped, TickServes DEF Tick, WantInv, Wanted
<1>6. CASE \E m \in Minute : AskPlatform(m) \/ AskFails(m) \/ StartTask(m)
  <2> PICK m \in Minute : AskPlatform(m) \/ AskFails(m) \/ StartTask(m)
    BY <1>6
  <2>1. claims' \subseteq claims /\ UNCHANGED <<settings, now, up, want, maintenance, served, excused>>
    BY DEF AskPlatform, AskFails, StartTask, Released, history
  <2> QED
    BY <1>1, <1>3, <2>1, StarterTyped DEF WantInv, Wanted, ServedInv
<1>7. CASE StartManually \/ RunEnds \/ MaintenanceBegins \/ MaintenanceEnds \/ ProgramEnds
  <2>1. UNCHANGED <<now, claims, served, excused>>
    BY <1>7 DEF StartManually, RunEnds, MaintenanceBegins, MaintenanceEnds, ProgramEnds, history
  <2>2. ServedInv'
    BY <2>1 DEF ServedInv
  <2>3. WantInv'
    BY <1>2, <1>7 DEF StartManually, RunEnds, MaintenanceBegins, MaintenanceEnds, ProgramEnds,
            WantInv, Wanted
  <2> QED
    BY <1>1, <1>3, <1>7, <2>2, <2>3, OtherTyped
<1>8. CASE ProgramStarts
  <2>1. /\ now' \in Nat /\ now \in Nat /\ now < now'
        /\ claims' = claims /\ served' = served
        /\ excused' = excused \cup {o \in Occurrence : o > now - 61 /\ o <= now'}
    BY <1>8, TimeAssumption DEF ProgramStarts, TypeOK, Period
  <2>2. ASSUME NEW o \in Occurrence \ (served' \cup excused')
        PROVE  now' < o /\ MinuteOf(o) \notin claims
    <3>1. o \in Nat /\ (now <= o + 20 \/ now = o + 40)
      BY <2>1, TimeAssumption DEF ServedInv
    <3>2. now' < o
      BY <2>1, <3>1
    <3> QED
      BY <2>1, <3>1, <3>2 DEF ServedInv
  <2>3. MinuteOf(now) <= MinuteOf(now') /\ MinuteOf(now) \in Nat /\ MinuteOf(now') \in Nat
    <3>1. MinuteOf(now) \in Nat /\ 60 * MinuteOf(now) <= now
      BY <2>1, MinuteBounds
    <3>2. MinuteOf(now') \in Nat /\ now' < 60 * MinuteOf(now') + 60
      BY <2>1, MinuteBounds
    <3> QED
      BY <2>1, <3>1, <3>2
  <2>4. \A n \in claims : n \in Nat
    BY TimeAssumption DEF TypeOK, Minute, MinuteOf
  <2>5. ServedInv'
    BY <2>1, <2>2, <2>3, <2>4, TimeAssumption DEF ServedInv
  <2> QED
    BY <1>1, <1>2, <1>3, <1>8, <2>5, OtherTyped DEF ProgramStarts, WantInv, Wanted
<1>9. CASE UNCHANGED vars
  BY <1>9 DEF vars, history, TypeOK, SettingsInv, RunInv, Tidy, ClaimInv, WantInv, Wanted, ServedInv
<1> QED
  BY <1>5, <1>6, <1>7, <1>8, <1>9 DEF Next

LEMMA Invariance == Spec => []IInv
BY InitIInv, StepIInv, PTL DEF Spec

----------------------------------------------------------------------------

\* The state of the scheduler has the types of its variables.
THEOREM TypeCorrect == Spec => []TypeOK
BY Invariance, PTL DEF IInv

\* The ticks of one minute never start the task twice (manager.go:1697), though
\* the claim is given back when an update refuses the task.
THEOREM OneRun == Spec => []OneRunPerMinute
<1>1. IInv => OneRunPerMinute
  BY DEF IInv, RunInv, Tidy, OneRunPerMinute
<1> QED
  BY <1>1, Invariance, PTL

\* Whatever second the program was started at, an occurrence of the Cron plan
\* launches its task within a minute (runDueTasks of manager.go), unless an update
\* or a stopped program was in the way.
THEOREM EveryOccurrenceServed == Spec => []OccurrencesServed
<1>1. IInv => OccurrencesServed
  <2> SUFFICES ASSUME IInv, NEW o \in Occurrence, now >= o + 61, o \notin excused, o \notin served
               PROVE  FALSE
    BY DEF OccurrencesServed
  <2>1. o \in Nat /\ now \in Nat /\ (now <= o + 20 \/ now = o + 40)
    BY TimeAssumption DEF IInv, ServedInv, TypeOK
  <2> QED
    BY <2>1
<1> QED
  BY <1>1, Invariance, PTL

\* The account is connected exactly within its keepalive window, counted from
\* where that begins, whatever day of the week it crosses (KeepaliveActiveAt).
THEOREM ConnectedInWindow == Spec => []WindowsBelongToTheirDay
<1>1. IInv => WindowsBelongToTheirDay
  <2> SUFFICES ASSUME IInv, up, ~maintenance
               PROVE  want <=> InWindow(now)
    BY DEF WindowsBelongToTheirDay
  <2>1. now \in Nat /\ settings \in SettingsT
    BY TimeAssumption DEF IInv, TypeOK, SettingsT
  <2> QED
    BY <2>1, WindowIsWanted DEF IInv, WantInv
<1> QED
  BY <1>1, Invariance, PTL
===============================================================================
