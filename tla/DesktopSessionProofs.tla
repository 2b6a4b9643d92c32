------------------------ MODULE DesktopSessionProofs ------------------------
(***************************************************************************)
(* Theorems about DesktopSession for any number of keepalive loops and any *)
(* delays and deadlines.                                                   *)
(***************************************************************************)
EXTENDS DesktopSession, TLAPS

State == [pc : Place, first : BOOLEAN, left : 0..Longest, silent : 0..ReadDeadline,
          activated : BOOLEAN, beats : 0..2, since : 0..YieldTime, over : 0..Overstay]

Bound == ConnectionLife + ReadDeadline

\* The time since a context was cancelled is made of what the connection had
\* left and of the silence since.
Timely(k, r, on) ==
    /\ r.over <= Bound
    /\ k \in on \/ r.pc \in {"off", "refreshing", "dialing"} => r.over = 0
    /\ r.pc = "open" /\ r.left > 0 => r.over + r.left <= ConnectionLife
    /\ r.pc = "open" /\ r.left = 0 => r.over <= ConnectionLife + r.silent

\* What holds of a loop k in state r when the contexts of the loops on are not
\* cancelled; a handshake ends before it is activated.
Fine(k, r, on) ==
    /\ r.beats = IF r.pc = "open" /\ k \in on /\ r.activated THEN 1 ELSE 0
    /\ k = "once" => ~r.activated
    /\ Timely(k, r, on)

LoopInv ==
    /\ loop \in [Loop -> State]
    /\ \A k \in Loop : Fine(k, loop[k], alive)

RestOK ==
    /\ alive \subseteq Loop
    /\ session \in Keeper \cup {"none"} /\ workers \in BOOLEAN
    /\ usage \in [at : {"none", "connecting", "counting"}, on : {"none", "keep", "temp"}, left : 0..Longest]
    /\ login \in 0..HandshakeLimit
    /\ TemporaryIsTemporary

IInv == LoopInv /\ RestOK

----------------------------------------------------------------------------

\* Longest bounds every delay and deadline.
LEMMA LongestBounds == Longest \in Nat /\ \A n \in Limits : n <= Longest
<1>1. \E n \in Limits : \A m \in Limits : m <= n
  <2> DEFINE Greater(a, b) == IF a >= b THEN a ELSE b
             n1 == Greater(RetryDelay, ReadDeadline)
             n2 == Greater(n1, ConnectionLife)
             n3 == Greater(n2, YieldTime)
             n4 == Greater(n3, RefreshLimit)
             n5 == Greater(n4, HandshakeLimit)
             n6 == Greater(n5, ActivationLimit)
             n7 == Greater(n6, UsageLimit)
  <2>1. /\ RetryDelay \in Nat /\ ReadDeadline \in Nat /\ ConnectionLife \in Nat /\ YieldTime \in Nat
        /\ RefreshLimit \in Nat /\ HandshakeLimit \in Nat /\ ActivationLimit \in Nat /\ UsageLimit \in Nat
    BY LimitsAssumption DEF Limits
  <2>2. n1 \in {RetryDelay, ReadDeadline} /\ n1 >= RetryDelay /\ n1 >= ReadDeadline /\ n1 \in Nat
    BY <2>1
  <2> HIDE DEF n1
  <2>3. n2 \in {n1, ConnectionLife} /\ n2 >= n1 /\ n2 >= ConnectionLife /\ n2 \in Nat
    BY <2>1, <2>2
  <2> HIDE DEF n2
  <2>4. n3 \in {n2, YieldTime} /\ n3 >= n2 /\ n3 >= YieldTime /\ n3 \in Nat
    BY <2>1, <2>3
  <2> HIDE DEF n3
  <2>5. n4 \in {n3, RefreshLimit} /\ n4 >= n3 /\ n4 >= RefreshLimit /\ n4 \in Nat
    BY <2>1, <2>4
  <2> HIDE DEF n4
  <2>6. n5 \in {n4, HandshakeLimit} /\ n5 >= n4 /\ n5 >= HandshakeLimit /\ n5 \in Nat
    BY <2>1, <2>5
  <2> HIDE DEF n5
  <2>7. n6 \in {n5, ActivationLimit} /\ n6 >= n5 /\ n6 >= ActivationLimit /\ n6 \in Nat
    BY <2>1, <2>6
  <2> HIDE DEF n6
  <2>8. n7 \in {n6, UsageLimit} /\ n7 >= n6 /\ n7 >= UsageLimit /\ n7 \in Nat
    BY <2>1, <2>7
  <2> HIDE DEF n7
  <2>9. n7 \in Limits
    BY <2>2, <2>3, <2>4, <2>5, <2>6, <2>7, <2>8 DEF Limits
  <2>10. \A m \in Limits : m <= n7
    BY <2>1, <2>2, <2>3, <2>4, <2>5, <2>6, <2>7, <2>8 DEF Limits
  <2> QED
    BY <2>9, <2>10
<1>2. Longest \in Limits /\ \A n \in Limits : n <= Longest
  <2> DEFINE Top(n) == n \in Limits /\ \A m \in Limits : m <= n
  <2>1. \E n : Top(n)
    BY <1>1
  <2>2. Longest = CHOOSE n : Top(n)
    BY DEF Longest
  <2> QED
    BY <2>1, <2>2
<1> QED
  BY <1>2, LimitsAssumption

\* The delays one by one.
LEMMA Delays ==
  /\ RetryDelay \in 1..Longest /\ ReadDeadline \in 1..Longest /\ ConnectionLife \in 1..Longest
  /\ YieldTime \in 1..Longest /\ RefreshLimit \in 1..Longest /\ HandshakeLimit \in 1..Longest
  /\ ActivationLimit \in 1..Longest /\ UsageLimit \in 1..Longest
  /\ Longest \in Nat
BY LongestBounds, LimitsAssumption DEF Limits

LEMMA Zeros ==
  0 \in 0..Longest /\ 0 \in 0..ReadDeadline /\ 0 \in 0..HandshakeLimit /\ 0 \in 0..YieldTime
BY Delays

\* A loop that is off is fine, whoever it belongs to.
LEMMA OffIsFine == Off \in State /\ \A k, on : Fine(k, Off, on)
BY Delays DEF Fine, Off, State, Timely, Bound, Place, Overstay

\* One loop changes.
LEMMA OneChanges ==
  ASSUME LoopInv, NEW k \in Loop, NEW r \in State, loop' = Becomes(k, r),
         Fine(k, r, alive'), \A j \in Loop \ {k} : j \in alive' <=> j \in alive
  PROVE  LoopInv'
<1>1. loop' \in [Loop -> State]
  BY DEF Becomes, LoopInv
<1>2. ASSUME NEW j \in Loop
      PROVE  Fine(j, loop'[j], alive')
  <2>1. CASE j = k
    BY <2>1 DEF Becomes, LoopInv
  <2>2. CASE j # k
    <3>1. loop'[j] = loop[j] /\ (j \in alive' <=> j \in alive) /\ Fine(j, loop[j], alive)
      BY <2>2 DEF Becomes, LoopInv
    <3> QED
      BY <3>1 DEF Fine, Timely
  <2> QED
    BY <2>1, <2>2
<1> QED
  BY <1>1, <1>2 DEF LoopInv

----------------------------------------------------------------------------

LEMMA InitIInv == Init => IInv
<1> SUFFICES ASSUME Init
             PROVE  IInv
  OBVIOUS
<1>1. \A k \in Loop : Fine(k, loop[k], alive)
  BY OffIsFine DEF Init
<1>2. LoopInv
  BY <1>1, OffIsFine DEF Init, LoopInv
<1>3. usage \in [at : {"none", "connecting", "counting"}, on : {"none", "keep", "temp"}, left : 0..Longest]
  BY Zeros DEF Init, NoUsage
<1>4. login \in 0..HandshakeLimit
  BY Zeros DEF Init
<1> QED
  BY <1>2, <1>3, <1>4 DEF Init, IInv, RestOK, TemporaryIsTemporary

\* The records that the turns of a loop make.
LEMMA Turns ==
  ASSUME NEW k, NEW on, NEW r \in State, Fine(k, r, on), NEW n \in 0..Longest
  PROVE  /\ k \in on /\ r.pc = "cycle" => Fine(k, [r EXCEPT !.pc = "dialing", !.first = FALSE], on)
         /\ k \in on /\ r.pc = "cycle" => Fine(k, [r EXCEPT !.pc = "refreshing", !.left = n], on)
         /\ r.pc = "refreshing" => Fine(k, [r EXCEPT !.pc = "dialing", !.left = 0], on)
         /\ k \in on /\ r.pc = "dialing" =>
               Fine(k, [Closed(r) EXCEPT !.pc = "open", !.left = ConnectionLife], on)
         /\ Fine(k, Paused(k, r, n), on)
         /\ r.pc = "pausing" => Fine(k, [r EXCEPT !.pc = "cycle"], on)
         /\ r.pc = "open" => Fine(k, NextRead(k, r), on)
<1> USE Delays DEF Fine, State, Timely, Bound, Place, Overstay
<1>1. k \in on /\ r.pc = "cycle" => Fine(k, [r EXCEPT !.pc = "dialing", !.first = FALSE], on)
  OBVIOUS
<1>2. k \in on /\ r.pc = "cycle" => Fine(k, [r EXCEPT !.pc = "refreshing", !.left = n], on)
  OBVIOUS
<1>3. r.pc = "refreshing" => Fine(k, [r EXCEPT !.pc = "dialing", !.left = 0], on)
  OBVIOUS
<1>4. k \in on /\ r.pc = "dialing" =>
         Fine(k, [Closed(r) EXCEPT !.pc = "open", !.left = ConnectionLife], on)
  BY DEF Closed
<1>5. Fine(k, Paused(k, r, n), on)
  BY DEF Paused, Closed
<1>6. r.pc = "pausing" => Fine(k, [r EXCEPT !.pc = "cycle"], on)
  OBVIOUS
<1>7. r.pc = "open" => Fine(k, NextRead(k, r), on)
  BY DEF NextRead, Closed
<1> QED
  BY <1>1, <1>2, <1>3, <1>4, <1>5, <1>6, <1>7

\* They are states.
LEMMA TurnsTyped ==
  ASSUME NEW r \in State, NEW n \in 0..Longest, NEW k
  PROVE  /\ [r EXCEPT !.pc = "dialing", !.first = FALSE] \in State
         /\ [r EXCEPT !.pc = "refreshing", !.left = n] \in State
         /\ [r EXCEPT !.pc = "dialing", !.left = 0] \in State
         /\ [r EXCEPT !.pc = "cycle"] \in State
         /\ [r EXCEPT !.since = 0] \in State
         /\ Closed(r) \in State
         /\ [Closed(r) EXCEPT !.pc = "open", !.left = n] \in State
         /\ Paused(k, r, n) \in State
         /\ NextRead(k, r) \in State
<1> USE Delays, Zeros DEF State, Place
<1>1. [r EXCEPT !.pc = "dialing", !.first = FALSE] \in State
  OBVIOUS
<1>2. [r EXCEPT !.pc = "refreshing", !.left = n] \in State
  OBVIOUS
<1>3. \A i \in 0..Longest : [r EXCEPT !.pc = "dialing", !.left = i] \in State
  OBVIOUS
<1>4. [r EXCEPT !.pc = "cycle"] \in State
  OBVIOUS
<1>5. [r EXCEPT !.since = 0] \in State
  OBVIOUS
<1>6. \A c \in State, i \in 0..Longest : [c EXCEPT !.left = i] \in State
  OBVIOUS
<1>16. \A c \in State, j \in 0..ReadDeadline : [c EXCEPT !.silent = j] \in State
  OBVIOUS
<1>17. \A c \in State : [c EXCEPT !.activated = FALSE] \in State
  OBVIOUS
<1>18. \A c \in State : [c EXCEPT !.beats = 0] \in State
  OBVIOUS
<1>7. \A c \in State : [c EXCEPT !.pc = "open", !.left = n] \in State
  OBVIOUS
<1>8. \A c \in State : [c EXCEPT !.pc = "pausing", !.left = n] \in State
  OBVIOUS
<1>9. \A c \in State : [c EXCEPT !.pc = "cycle"] \in State
  OBVIOUS
<1>10. [r EXCEPT !.silent = 0] \in State
  OBVIOUS
<1>11. Closed(r) \in State
  BY <1>6, <1>16, <1>17, <1>18, Zeros DEF Closed
<1>12. Paused(k, r, n) \in State
  BY <1>8, <1>11 DEF Paused
<1>13. NextRead(k, r) \in State
  BY <1>9, <1>10, <1>11 DEF NextRead
<1>14. [r EXCEPT !.pc = "dialing", !.left = 0] \in State
  BY <1>3, Zeros
<1>15. [Closed(r) EXCEPT !.pc = "open", !.left = n] \in State
  BY <1>7, <1>11
<1> QED
  BY <1>1, <1>2, <1>4, <1>5, <1>11, <1>12, <1>13, <1>14, <1>15

\* One turn of a loop.
LEMMA LoopIInv ==
  ASSUME IInv, NEW k \in Loop, LoopStep(k)
  PROVE  IInv'
<1> DEFINE r == loop[k]
<1>0. /\ r \in State /\ Fine(k, r, alive) /\ LoopInv /\ RestOK
  BY DEF IInv, LoopInv
<1>r. \A n \in 0..Longest :
         /\ Paused(k, r, n) \in State /\ Fine(k, Paused(k, r, n), alive)
         /\ Paused(k, [r EXCEPT !.since = 0], n) \in State
         /\ Fine(k, Paused(k, [r EXCEPT !.since = 0], n), alive)
  <2>1. [r EXCEPT !.since = 0] \in State
    BY <1>0, TurnsTyped, Zeros
  <2>2. Fine(k, [r EXCEPT !.since = 0], alive)
    BY <1>0 DEF Fine, Timely, State
  <2> QED
    BY <1>0, <2>1, <2>2, Turns, TurnsTyped
<1>s. RetryDelay \in 0..Longest /\ YieldTime \in 0..Longest /\ ConnectionLife \in 0..Longest
      /\ RefreshLimit \in 0..Longest
  BY Delays
<1>t. ASSUME NEW x \in State, Fine(k, x, alive), loop' = Becomes(k, x), UNCHANGED <<alive, tasks>>
      PROVE  IInv'
  <2>1. LoopInv'
    BY <1>0, <1>t, OneChanges
  <2> QED
    BY <1>0, <1>t, <2>1 DEF IInv, RestOK, TemporaryIsTemporary, tasks
<1> HIDE DEF r
<1>1. CASE Cycle(k)
  <2>1. CASE k \notin alive
    BY <1>1, <2>1, <1>t, OffIsFine DEF Cycle
  <2>2. CASE k \in alive /\ (r.first \/ k = "once")
    BY <1>0, <1>1, <2>2, <1>t, <1>s, Turns, TurnsTyped DEF Cycle, At, r
  <2>3. CASE k \in alive /\ ~(r.first \/ k = "once")
    BY <1>0, <1>1, <2>3, <1>t, <1>s, Turns, TurnsTyped DEF Cycle, At, r
  <2> QED
    BY <2>1, <2>2, <2>3
<1>2. CASE Refresh(k)
  BY <1>0, <1>2, <1>r, <1>s, <1>t, Turns, TurnsTyped, Zeros DEF Refresh, At, r
<1>3. CASE Dial(k)
  BY <1>0, <1>3, <1>s, <1>t, Turns, TurnsTyped DEF Dial, At, r
<1>10. CASE InfoIncomplete(k)
  BY <1>10, <1>t, OffIsFine DEF InfoIncomplete
<1>4. CASE DialFails(k)
  BY <1>4, <1>r, <1>s, <1>t DEF DialFails, r
<1>5. CASE Message(k)
  BY <1>0, <1>5, <1>s, <1>t, Turns, TurnsTyped, OffIsFine DEF Message, At, r
<1>7. CASE Preempt(k)
  BY <1>7, <1>r, <1>s, <1>t, OffIsFine DEF Preempt, r
<1>8. CASE ReadFails(k)
  BY <1>8, <1>r, <1>s, <1>t, OffIsFine DEF ReadFails, r
<1>9. CASE PauseEnds(k)
  BY <1>0, <1>9, <1>s, <1>t, Turns, TurnsTyped, OffIsFine DEF PauseEnds, At, r
<1>6. CASE Activate(k)
  <2>1. /\ Activated(k, r) \in State
        /\ r.pc = "open" /\ k # "once" => Fine(k, Activated(k, r), alive)
        /\ Activated(k, r).pc = r.pc
    <3> DEFINE b == IF r.activated \/ k \notin alive THEN r.beats ELSE r.beats + 1
               a == Activated(k, r)
    <3>1. r.pc = "open" /\ r.beats \in {0, 1} /\ (~r.activated => r.beats = 0)
      BY <1>0, <1>6 DEF Fine, Activate, At, r
    <3>2. b \in 0..2
      BY <3>1
    <3>3. a = [r EXCEPT !.activated = TRUE, !.beats = b]
      BY DEF Activated
    <3>4. \A n \in 0..2 : [r EXCEPT !.activated = TRUE, !.beats = n] \in State
      BY <1>0 DEF State
    <3>5. a \in State
      BY <3>2, <3>3, <3>4
    <3>6. /\ a.pc = r.pc /\ a.left = r.left /\ a.silent = r.silent /\ a.over = r.over
          /\ a.activated = TRUE /\ a.beats = b
      BY <1>0, <3>3 DEF State
    <3> HIDE DEF a
    <3>7. b = IF k \in alive THEN 1 ELSE 0
      BY <1>0, <3>1 DEF Fine
    <3>8. k # "once" => Fine(k, a, alive)
      BY <1>0, <3>1, <3>6, <3>7 DEF Fine, Timely
    <3> QED
      BY <3>5, <3>6, <3>8 DEF a
  <2>2. /\ NextRead(k, Activated(k, r)) \in State
        /\ k # "once" => Fine(k, NextRead(k, Activated(k, r)), alive)
    BY <1>6, <2>1, Zeros, Turns, TurnsTyped DEF Activate, At, r
  <2>3. LoopInv'
    <3>1. UNCHANGED alive
      BY <1>6 DEF Activate
    <3>2. CASE k = "once"
      BY <1>0, <1>6, <3>1, <3>2, OffIsFine, OneChanges DEF Activate
    <3>3. CASE k # "once"
      BY <1>0, <1>6, <3>1, <3>3, <2>2, OneChanges DEF Activate, r
    <3> QED
      BY <3>2, <3>3
  <2>4. /\ UNCHANGED <<alive, session, workers, login>>
        /\ usage' = usage \/ usage' = [usage EXCEPT !.at = "counting", !.left = UsageLimit]
    BY <1>6 DEF Activate
  <2>5. UsageLimit \in 0..Longest
    BY Delays
  <2>6. ASSUME NEW u \in [at : {"none", "connecting", "counting"}, on : {"none", "keep", "temp"}, left : 0..Longest],
               NEW n \in 0..Longest
        PROVE  /\ [u EXCEPT !.at = "counting", !.left = n] \in
                     [at : {"none", "connecting", "counting"}, on : {"none", "keep", "temp"}, left : 0..Longest]
               /\ [u EXCEPT !.at = "counting", !.left = n].on = u.on
    OBVIOUS
  <2>7. RestOK'
    BY <1>0, <2>4, <2>5, <2>6 DEF RestOK, TemporaryIsTemporary
  <2> QED
    BY <2>3, <2>7 DEF IInv
<1> QED
  BY <1>1, <1>2, <1>3, <1>4, <1>5, <1>6, <1>7, <1>8, <1>9, <1>10 DEF LoopStep

\* The loops whose contexts are cancelled stay fine once they are hushed.
LEMMA Cancelled ==
  ASSUME LoopInv, NEW k \in Loop, loop' = Hushed(k), Cancel(k)
  PROVE  LoopInv'
<1> DEFINE r == loop[k]
<1>1. r \in State /\ Fine(k, r, alive)
  BY DEF LoopInv
<1>2. [r EXCEPT !.beats = 0] \in State
  BY <1>1 DEF State
<1>3. Fine(k, [r EXCEPT !.beats = 0], alive')
  BY <1>1 DEF Cancel, Fine, Timely, State
<1>4. loop' = Becomes(k, [r EXCEPT !.beats = 0])
  BY DEF Hushed, Becomes, LoopInv
<1>5. \A j \in Loop \ {k} : j \in alive' <=> j \in alive
  BY DEF Cancel
<1> QED
  BY <1>2, <1>3, <1>4, <1>5, OneChanges

\* A loop that is started is fine.
LEMMA Started ==
  ASSUME LoopInv, NEW k \in Loop, Run(k)
  PROVE  LoopInv'
<1> DEFINE r == [Off EXCEPT !.pc = "cycle"]
<1>0. Off \in State /\ Fine(k, Off, {})
  BY OffIsFine
<1>1. r \in State /\ Fine(k, r, alive')
  <2>1. r \in State
    BY <1>0, TurnsTyped, Zeros DEF State, Place
  <2>2. /\ r.pc = "cycle" /\ r.over = 0 /\ r.activated = FALSE /\ r.beats = 0
    BY DEF Off
  <2> QED
    BY <2>1, <2>2, Delays DEF Fine, Timely, Bound
<1>2. loop' = Becomes(k, r) /\ \A j \in Loop \ {k} : j \in alive' <=> j \in alive
  BY DEF Run
<1> HIDE DEF r
<1> QED
  BY <1>1, <1>2, OneChanges

\* Keepalive sessions, usage tasks and handshakes begin and end.
LEMMA TaskIInv ==
  ASSUME IInv,
         \/ \E k \in Keeper : KeepStarts(k)
         \/ KeepCounts \/ KeepStops \/ KeepCancelled
         \/ UsageReuses \/ UsageConnects \/ UsageEnds
         \/ LoginConnects \/ LoginReturns
  PROVE  IInv'
<1> USE DEF IInv, RestOK
<1>0. Keeper \subseteq Loop /\ "temp" \in Loop /\ "once" \in Loop
      /\ "temp" \notin Keeper /\ "once" \notin Keeper /\ "none" \notin Keeper
  BY KeeperAssumption DEF Loop
<1>1. CASE \E k \in Keeper : KeepStarts(k)
  <2>1. PICK k \in Keeper : KeepStarts(k)
    BY <1>1
  <2>2. LoopInv'
    BY <1>0, <2>1, Started DEF KeepStarts
  <2> QED
    BY <1>0, <2>1, <2>2 DEF KeepStarts, Run, TemporaryIsTemporary
<1>2. CASE KeepCounts
  BY <1>2 DEF KeepCounts, LoopInv, TemporaryIsTemporary
<1>3. CASE KeepStops
  <2>1. LoopInv'
    BY <1>0, <1>3, Cancelled DEF KeepStops
  <2> QED
    BY <1>3, <2>1 DEF KeepStops, Cancel, TemporaryIsTemporary
<1>4. CASE KeepCancelled
  <2>1. session \in Loop
    BY <1>4 DEF KeepCancelled
  <2>2. LoopInv'
    BY <1>4, <2>1, Cancelled DEF KeepCancelled
  <2> QED
    BY <1>4, <2>2 DEF KeepCancelled, Cancel, tasks, TemporaryIsTemporary
<1>5. CASE UsageReuses
  <2>1. LoopInv' /\ "temp" \notin alive
    BY <1>5 DEF UsageReuses, LoopInv, TemporaryIsTemporary, NoUsage
  <2> QED
    BY <1>5, <2>1, Delays DEF UsageReuses, TemporaryIsTemporary
<1>6. CASE UsageConnects
  <2>1. LoopInv'
    BY <1>0, <1>6, Started DEF UsageConnects
  <2> QED
    BY <1>0, <1>6, <2>1, Delays DEF UsageConnects, Run, TemporaryIsTemporary
<1>7. CASE UsageEnds
  <2>1. NoUsage \in [at : {"none", "connecting", "counting"}, on : {"none", "keep", "temp"}, left : 0..Longest]
    BY Zeros DEF NoUsage
  <2>2. CASE usage.on = "temp"
    <3>1. LoopInv'
      BY <1>0, <1>7, <2>2, Cancelled DEF UsageEnds, UsageReturns
    <3> QED
      BY <1>7, <2>1, <2>2, <3>1 DEF UsageEnds, UsageReturns, Cancel, TemporaryIsTemporary
  <2>3. CASE usage.on # "temp"
    BY <1>7, <2>1, <2>3 DEF UsageEnds, UsageReturns, TemporaryIsTemporary, LoopInv
  <2> QED
    BY <2>2, <2>3
<1>8. CASE LoginConnects
  <2>1. LoopInv'
    BY <1>0, <1>8, Started DEF LoginConnects
  <2> QED
    BY <1>0, <1>8, <2>1, Delays DEF LoginConnects, Run, TemporaryIsTemporary
<1>9. CASE LoginReturns
  <2>1. alive' = alive \ {"once"} /\ UNCHANGED <<loop, session, workers, usage>> /\ login' = 0
    BY <1>9 DEF LoginReturns, Cancel
  <2>2. \A j \in Loop : Fine(j, loop[j], alive')
    BY <2>1 DEF LoopInv, Fine, Timely
  <2>3. LoopInv'
    BY <2>1, <2>2 DEF LoopInv
  <2> QED
    BY <2>1, <2>3, Zeros DEF TemporaryIsTemporary
<1> QED
  BY <1>1, <1>2, <1>3, <1>4, <1>5, <1>6, <1>7, <1>8, <1>9

----------------------------------------------------------------------------

\* A tick that nothing urgent holds up leaves a loop fine.
LEMMA AgedIsFine ==
  ASSUME NEW k \in Loop, loop[k] \in State, Fine(k, loop[k], alive), ~Urgent(k)
  PROVE  Aged(k) \in State /\ Fine(k, Aged(k), alive)
<1> DEFINE r == loop[k]
           a == Aged(k)
           left == Down(r.left)
           silent == IF r.pc = "open" THEN r.silent + 1 ELSE 0
           since == IF r.since < YieldTime THEN r.since + 1 ELSE r.since
           over == IF k \in alive \/ r.pc = "off" THEN 0 ELSE IF r.over < Overstay THEN r.over + 1 ELSE r.over
<1>1. /\ r.pc \in Place /\ r.first \in BOOLEAN /\ r.left \in 0..Longest /\ r.silent \in 0..ReadDeadline
      /\ r.activated \in BOOLEAN /\ r.beats \in 0..2 /\ r.since \in 0..YieldTime /\ r.over \in 0..Overstay
  BY DEF State
<1>2. a = [r EXCEPT !.left = left, !.silent = silent, !.since = since, !.over = over]
  BY DEF Aged, At
<1>3. /\ r.pc = "open" => r.silent < ReadDeadline
      /\ r.pc = "pausing" => k \in alive
      /\ r.pc # "cycle"
      /\ r.pc \in {"refreshing", "dialing"} => k \in alive
  BY <1>1, Delays DEF Urgent, At, Wakes
<1>4. left \in 0..Longest /\ silent \in 0..ReadDeadline
  BY <1>1, <1>3, Delays DEF Down
<1>5. since \in 0..YieldTime /\ over \in 0..Overstay
  BY <1>1, Delays DEF Overstay
<1>6. /\ a.pc = r.pc /\ a.activated = r.activated /\ a.beats = r.beats
      /\ a.left = left /\ a.silent = silent /\ a.over = over
  BY <1>2 DEF State
<1>7. a \in State
  <2>1. \A c \in State, n \in 0..Longest : [c EXCEPT !.left = n] \in State
    BY DEF State
  <2>2. \A c \in State, n \in 0..ReadDeadline : [c EXCEPT !.silent = n] \in State
    BY DEF State
  <2>3. \A c \in State, n \in 0..YieldTime : [c EXCEPT !.since = n] \in State
    BY DEF State
  <2>4. \A c \in State, n \in 0..Overstay : [c EXCEPT !.over = n] \in State
    BY DEF State
  <2> HIDE DEF a, left, silent, since, over
  <2> QED
    BY <1>2, <1>4, <1>5, <2>1, <2>2, <2>3, <2>4
<1>8. Timely(k, a, alive)
  <2>1. CASE k \in alive \/ r.pc = "off"
    BY <1>1, <1>3, <1>4, <1>6, <2>1, Delays DEF Timely, Bound, Fine, Down
  <2>2. CASE k \notin alive /\ r.pc # "off"
    <3>1. r.pc = "open"
      BY <1>1, <1>3, <2>2 DEF Place
    <3>2. /\ r.left > 0 => r.over + r.left <= ConnectionLife
          /\ r.left = 0 => r.over <= ConnectionLife + r.silent
      BY <3>1 DEF Fine, Timely
    <3>3. over = r.over + 1
      BY <1>1, <1>3, <2>2, <3>1, <3>2, Delays DEF Overstay
    <3>4. silent = r.silent + 1 /\ left = (IF r.left = 0 THEN 0 ELSE r.left - 1)
      BY <3>1 DEF Down
    <3> HIDE DEF left, silent, over
    <3> QED
      BY <1>1, <1>3, <1>6, <2>2, <3>1, <3>2, <3>3, <3>4, Delays DEF Timely, Bound
  <2> QED
    BY <2>1, <2>2
<1> QED
  BY <1>6, <1>7, <1>8 DEF Fine

LEMMA TickIInv ==
  ASSUME IInv, Tick
  PROVE  IInv'
<1>1. LoopInv'
  <2>1. \A k \in Loop : Aged(k) \in State /\ Fine(k, Aged(k), alive)
    BY AgedIsFine DEF IInv, LoopInv, Tick
  <2>2. loop' = [k \in Loop |-> Aged(k)] /\ alive' = alive
    BY DEF Tick
  <2>3. loop' \in [Loop -> State]
    BY <2>1, <2>2
  <2>4. \A k \in Loop : Fine(k, loop'[k], alive)
    BY <2>1, <2>2
  <2> QED
    BY <2>2, <2>3, <2>4 DEF LoopInv
<1>2. \A n \in 0..Longest : Down(n) \in 0..Longest
  BY Delays DEF Down
<1>3. Down(login) \in 0..HandshakeLimit
  BY Delays DEF Down, IInv, RestOK
<1>4. /\ usage' \in [at : {"none", "connecting", "counting"}, on : {"none", "keep", "temp"}, left : 0..Longest]
      /\ usage'.on = usage.on
  <2>1. usage' = [usage EXCEPT !.left = Down(usage.left)]
    BY DEF Tick
  <2> QED
    BY <1>2, <2>1 DEF IInv, RestOK
<1> QED
  BY <1>1, <1>3, <1>4 DEF IInv, RestOK, Tick, TemporaryIsTemporary

LEMMA StepIInv == IInv /\ [Next]_vars => IInv'
<1> SUFFICES ASSUME IInv, [Next]_vars
             PROVE  IInv'
  OBVIOUS
<1>1. CASE \E k \in Loop : LoopStep(k)
  BY <1>1, LoopIInv
<1>2. CASE Tick
  BY <1>2, TickIInv
<1>3. CASE UNCHANGED vars
  BY <1>3 DEF vars, IInv, LoopInv, RestOK, Fine, Timely, TemporaryIsTemporary
<1> QED
  BY <1>1, <1>2, <1>3, TaskIInv DEF Next

LEMMA Invariance == Spec => []IInv
BY InitIInv, StepIInv, PTL DEF Spec

\* The loops, the tasks and the timers have their types in every state: no
\* timer runs past its delay, and no connection has a second heartbeat.
THEOREM TypeCorrect == Spec => []TypeOK
<1>1. IInv => TypeOK
  BY DEF IInv, LoopInv, RestOK, TypeOK, State
<1> QED
  BY <1>1, Invariance, PTL

\* For all delays and any number of loops: a connection has one heartbeat while
\* it is activated and wanted, a cancelled loop is off within a connection's
\* life and a read, and a temporary connection goes with its usage task
\* (runClink and runUsage).
THEOREM NothingIsLeft == Spec => []NothingOutlives
<1>1. IInv => NothingOutlives
  <2> SUFFICES ASSUME IInv
               PROVE  NothingOutlives
    OBVIOUS
  <2>1. OneHeartbeat
    BY DEF IInv, LoopInv, Fine, OneHeartbeat, At
  <2>2. CancelledEnds
    BY DEF IInv, LoopInv, Fine, Timely, Bound, CancelledEnds
  <2> QED
    BY <2>1, <2>2 DEF IInv, RestOK, NothingOutlives
<1> QED
  BY <1>1, Invariance, PTL

----------------------------------------------------------------------------

\* Since a preemption the yielding time has passed, or the loop still waits for
\* what is left of it.
Waited(k, r, on) ==
    /\ r.pc \in {"cycle", "refreshing", "dialing", "open"} => r.since = YieldTime
    /\ r.pc = "pausing" /\ k \in on => r.since + r.left >= YieldTime

WaitInv == \A k \in Loop : Waited(k, loop[k], alive)

\* One loop changes, or is started.
LEMMA OneWaits ==
  ASSUME LoopInv, WaitInv, NEW k \in Loop, NEW r, loop' = Becomes(k, r),
         Waited(k, r, alive'), alive' \subseteq alive \cup {k}
  PROVE  WaitInv'
<1> SUFFICES ASSUME NEW j \in Loop
             PROVE  Waited(j, loop'[j], alive')
  BY DEF WaitInv
<1>1. CASE j = k
  BY <1>1 DEF Becomes, LoopInv
<1>2. CASE j # k
  <2>1. loop'[j] = loop[j] /\ (j \in alive' => j \in alive) /\ Waited(j, loop[j], alive)
    BY <1>2 DEF Becomes, LoopInv, WaitInv
  <2> QED
    BY <2>1 DEF Waited
<1> QED
  BY <1>1, <1>2

\* The records that the turns of a loop make.
LEMMA TurnsWait ==
  ASSUME NEW k, NEW on, NEW r \in State, Waited(k, r, on)
  PROVE  /\ Waited(k, Off, on)
         /\ r.pc = "cycle" => Waited(k, [r EXCEPT !.pc = "dialing", !.first = FALSE], on)
         /\ r.pc = "cycle" => Waited(k, [r EXCEPT !.pc = "refreshing", !.left = RefreshLimit], on)
         /\ r.pc = "refreshing" => Waited(k, [r EXCEPT !.pc = "dialing", !.left = 0], on)
         /\ r.pc = "dialing" => Waited(k, [Closed(r) EXCEPT !.pc = "open", !.left = ConnectionLife], on)
         /\ r.pc \in {"refreshing", "dialing", "open"} => Waited(k, Paused(k, r, RetryDelay), on)
         /\ Waited(k, Paused(k, [r EXCEPT !.since = 0], YieldTime), on)
         /\ r.pc = "pausing" /\ r.left = 0 /\ k \in on => Waited(k, [r EXCEPT !.pc = "cycle"], on)
         /\ r.pc = "open" => Waited(k, NextRead(k, r), on)
<1> USE Delays DEF State, Place, Waited
<1>1. Waited(k, Off, on)
  BY DEF Off
<1>2. r.pc = "cycle" => Waited(k, [r EXCEPT !.pc = "dialing", !.first = FALSE], on)
  OBVIOUS
<1>3. r.pc = "cycle" => Waited(k, [r EXCEPT !.pc = "refreshing", !.left = RefreshLimit], on)
  OBVIOUS
<1>4. r.pc = "refreshing" => Waited(k, [r EXCEPT !.pc = "dialing", !.left = 0], on)
  OBVIOUS
<1>5. r.pc = "dialing" => Waited(k, [Closed(r) EXCEPT !.pc = "open", !.left = ConnectionLife], on)
  BY DEF Closed
<1>6. r.pc \in {"refreshing", "dialing", "open"} => Waited(k, Paused(k, r, RetryDelay), on)
  BY DEF Paused, Closed
<1>7. Waited(k, Paused(k, [r EXCEPT !.since = 0], YieldTime), on)
  BY DEF Paused, Closed
<1>8. r.pc = "pausing" /\ r.left = 0 /\ k \in on => Waited(k, [r EXCEPT !.pc = "cycle"], on)
  OBVIOUS
<1>9. r.pc = "open" => Waited(k, NextRead(k, r), on)
  BY DEF NextRead, Closed
<1> QED
  BY <1>1, <1>2, <1>3, <1>4, <1>5, <1>6, <1>7, <1>8, <1>9

LEMMA LoopWaits ==
  ASSUME IInv, WaitInv, NEW k \in Loop, LoopStep(k)
  PROVE  WaitInv'
<1> DEFINE r == loop[k]
<1>0. r \in State /\ LoopInv /\ Waited(k, r, alive)
  BY DEF IInv, LoopInv, WaitInv
<1>t. ASSUME NEW x, Waited(k, x, alive), loop' = Becomes(k, x), UNCHANGED alive
      PROVE  WaitInv'
  BY <1>0, <1>t, OneWaits
<1> HIDE DEF r
<1>1. CASE Cycle(k)
  <2>1. CASE k \notin alive
    BY <1>0, <1>1, <2>1, <1>t, TurnsWait DEF Cycle
  <2>2. CASE k \in alive /\ (r.first \/ k = "once")
    BY <1>0, <1>1, <2>2, <1>t, TurnsWait DEF Cycle, At, r
  <2>3. CASE k \in alive /\ ~(r.first \/ k = "once")
    BY <1>0, <1>1, <2>3, <1>t, TurnsWait DEF Cycle, At, r
  <2> QED
    BY <2>1, <2>2, <2>3
<1>2. CASE Refresh(k)
  BY <1>0, <1>2, <1>t, TurnsWait DEF Refresh, At, r
<1>3. CASE Dial(k)
  BY <1>0, <1>3, <1>t, TurnsWait DEF Dial, At, r
<1>10. CASE InfoIncomplete(k)
  BY <1>0, <1>10, <1>t, TurnsWait DEF InfoIncomplete
<1>4. CASE DialFails(k)
  BY <1>0, <1>4, <1>t, TurnsWait DEF DialFails, At, r
<1>5. CASE Message(k)
  BY <1>0, <1>5, <1>t, TurnsWait DEF Message, At, r
<1>6. CASE Activate(k)
  <2>1. Activated(k, r) \in State /\ Waited(k, Activated(k, r), alive) /\ Activated(k, r).pc = "open"
    <3> DEFINE b == IF r.activated \/ k \notin alive THEN r.beats ELSE r.beats + 1
    <3>1. r.pc = "open" /\ b \in 0..2
      BY <1>6 DEF Activate, At, r, IInv, LoopInv, Fine
    <3>2. Activated(k, r) = [r EXCEPT !.activated = TRUE, !.beats = b]
      BY DEF Activated
    <3>3. \A n \in 0..2 : [r EXCEPT !.activated = TRUE, !.beats = n] \in State
      BY <1>0 DEF State
    <3> HIDE DEF b
    <3> QED
      BY <1>0, <3>1, <3>2, <3>3 DEF State, Waited
  <2>2. Waited(k, Off, alive) /\ Waited(k, NextRead(k, Activated(k, r)), alive)
    BY <2>1, TurnsWait
  <2> QED
    BY <1>6, <1>t, <2>2 DEF Activate, r
<1>7. CASE Preempt(k)
  BY <1>0, <1>7, <1>t, TurnsWait DEF Preempt, r
<1>8. CASE ReadFails(k)
  BY <1>0, <1>8, <1>t, TurnsWait DEF ReadFails, At, r
<1>9. CASE PauseEnds(k)
  <2>1. CASE k \in alive
    BY <1>0, <1>9, <1>t, <2>1, TurnsWait DEF PauseEnds, At, Wakes, r
  <2>2. CASE k \notin alive
    BY <1>0, <1>9, <1>t, <2>2, TurnsWait DEF PauseEnds
  <2> QED
    BY <2>1, <2>2
<1> QED
  BY <1>1, <1>2, <1>3, <1>4, <1>5, <1>6, <1>7, <1>8, <1>9, <1>10 DEF LoopStep

\* Loops that are hushed, cancelled or left alone.
LEMMA QuietWaits ==
  ASSUME LoopInv, WaitInv, alive' \subseteq alive,
         \/ loop' = loop
         \/ \E k \in Loop : loop' = Hushed(k)
  PROVE  WaitInv'
<1> SUFFICES ASSUME NEW j \in Loop
             PROVE  Waited(j, loop'[j], alive')
  BY DEF WaitInv
<1>1. \A c \in State : /\ [c EXCEPT !.beats = 0].pc = c.pc
                        /\ [c EXCEPT !.beats = 0].left = c.left
                        /\ [c EXCEPT !.beats = 0].since = c.since
  BY DEF State
<1>2. loop'[j].pc = loop[j].pc /\ loop'[j].left = loop[j].left /\ loop'[j].since = loop[j].since
  <2>1. CASE \E k \in Loop : loop' = Hushed(k)
    <3>1. loop'[j] \in {loop[j], [loop[j] EXCEPT !.beats = 0]} /\ loop[j] \in State
      BY <2>1 DEF Hushed, LoopInv
    <3> QED
      BY <1>1, <3>1
  <2> QED
    BY <2>1
<1> QED
  BY <1>2 DEF Waited, WaitInv

LEMMA TickWaits ==
  ASSUME IInv, WaitInv, Tick
  PROVE  WaitInv'
<1> SUFFICES ASSUME NEW k \in Loop
             PROVE  Waited(k, loop'[k], alive')
  BY DEF WaitInv
<1> DEFINE r == loop[k]
<1>1. r \in State /\ Waited(k, r, alive) /\ ~Urgent(k) /\ loop'[k] = Aged(k) /\ alive' = alive
  BY DEF IInv, LoopInv, WaitInv, Tick
<1>2. /\ Aged(k).pc = r.pc /\ Aged(k).left = Down(r.left)
      /\ Aged(k).since = IF r.since < YieldTime THEN r.since + 1 ELSE r.since
  BY <1>1 DEF Aged, State
<1>3. r.left \in Nat /\ r.since \in 0..YieldTime /\ r.pc \in Place
  BY <1>1, Delays DEF State
<1>4. r.pc = "pausing" => r.left > 0
  BY <1>1, <1>3 DEF Urgent, At, Wakes
<1> HIDE DEF r
<1> QED
  BY <1>1, <1>2, <1>3, <1>4, Delays DEF Waited, Down

LEMMA StepWaits == IInv /\ WaitInv /\ [Next]_vars => WaitInv'
<1> SUFFICES ASSUME IInv, WaitInv, [Next]_vars
             PROVE  WaitInv'
  OBVIOUS
<1>0. LoopInv /\ Keeper \subseteq Loop /\ "temp" \in Loop /\ "once" \in Loop
  BY DEF IInv, Loop
<1>1. ASSUME NEW k \in Loop, Run(k)
      PROVE  WaitInv'
  <2>1. Waited(k, [Off EXCEPT !.pc = "cycle"], alive')
    BY DEF Off, Waited
  <2> QED
    BY <1>0, <1>1, <2>1, OneWaits DEF Run
<1>2. CASE \E k \in Loop : LoopStep(k)
  BY <1>2, LoopWaits
<1>3. CASE (\E k \in Keeper : KeepStarts(k)) \/ UsageConnects \/ LoginConnects
  BY <1>0, <1>1, <1>3 DEF KeepStarts, UsageConnects, LoginConnects
<1>4. CASE KeepCounts \/ UsageReuses \/ LoginReturns \/ UNCHANGED vars
  BY <1>0, <1>4, QuietWaits DEF KeepCounts, UsageReuses, LoginReturns, Cancel, vars
<1>5. CASE KeepStops
  BY <1>0, <1>5, QuietWaits DEF KeepStops, Cancel, IInv, RestOK
<1>6. CASE KeepCancelled
  BY <1>0, <1>6, QuietWaits DEF KeepCancelled, Cancel, IInv, RestOK
<1>7. CASE UsageEnds
  BY <1>0, <1>7, QuietWaits DEF UsageEnds, UsageReturns, Cancel
<1>8. CASE Tick
  BY <1>8, TickWaits
<1> QED
  BY <1>2, <1>3, <1>4, <1>5, <1>6, <1>7, <1>8 DEF Next

\* Whatever the delays: a loop that another client has preempted does not
\* connect before the yielding time has passed since (the preemption wait of
\* runClink).
THEOREM PreemptionYields == Spec => Yields
<1>1. Init => WaitInv
  BY DEF Init, WaitInv, Waited, Off
<1>2. LoopInv /\ WaitInv =>
         [ \A k \in Loop : loop[k].pc = "dialing" /\ loop'[k].pc = "open" => loop[k].since = YieldTime ]_vars
  BY DEF WaitInv, Waited
<1>3. IInv => LoopInv
  BY DEF IInv
<1> QED
  BY <1>1, <1>2, <1>3, Invariance, StepWaits, PTL DEF Spec, Yields
=============================================================================
