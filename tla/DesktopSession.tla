--------------------------- MODULE DesktopSession ---------------------------
(***************************************************************************)
(* The connections to one desktop of one account: the loop of runClink in  *)
(* internal/ctyun/clink.go, and the three who run it.  Keepalive runs it   *)
(* until its session is cancelled; a usage task without keepalive runs a   *)
(* temporary one until the platform has counted its hour; a login task     *)
(* without keepalive runs it for one handshake.                            *)
(*                                                                         *)
(* Time passes in ticks, and no tick passes while a loop has something to  *)
(* do at once.  What the platform sends, and when a connection breaks, is  *)
(* open.  The bodies of messages and certificates are left out.  Keepalive *)
(* models how sessions are started and stopped; here that may happen at    *)
(* any time it happens there.                                              *)
(***************************************************************************)
EXTENDS Naturals, FiniteSets

CONSTANTS
    Keeper,             \* loops that keepalive sessions may run at a time
    RetryDelay,         \* 5 s between attempts
    ReadDeadline,       \* 15 s without a message break a connection
    ConnectionLife,     \* after 60 s a connection is made anew
    YieldTime,          \* 20 min for another client
    RefreshLimit,       \* 30 s for new parameters
    HandshakeLimit,     \* 45 s for a login task's handshake
    ActivationLimit,    \* 60 s until a temporary connection is activated
    UsageLimit          \* 80 min for a usage task

Limits == {RetryDelay, ReadDeadline, ConnectionLife, YieldTime, RefreshLimit,
           HandshakeLimit, ActivationLimit, UsageLimit}

ASSUME LimitsAssumption == Limits \subseteq Nat \ {0}
ASSUME KeeperAssumption == Keeper \cap {"temp", "once", "none"} = {}

VARIABLES
    loop,       \* the runClink goroutines
    alive,      \* the loops whose context is not cancelled
    session,    \* the loop of the account's keepalive session
    workers,    \* clients[id].workers > 0
    usage,      \* the usage task: where it is, the loop it counts on, its timer
    login       \* the ticks a login task's handshake has left

vars == <<loop, alive, session, workers, usage, login>>

\* A keepalive session may begin while the one before it is still reading.
Loop == Keeper \cup {"temp", "once"}
Place == {"off", "cycle", "refreshing", "dialing", "open", "pausing"}
Longest == CHOOSE n \in Limits : \A m \in Limits : m <= n
Overstay == ConnectionLife + ReadDeadline + 1

\* first: no cycle yet; left, silent: ticks until the deadline, without a
\* message; activated, beats: of this connection.  since: ticks since another
\* client preempted the loop; over: ticks since its context was cancelled.
Off == [pc |-> "off", first |-> TRUE, left |-> 0, silent |-> 0, activated |-> FALSE,
        beats |-> 0, since |-> YieldTime, over |-> 0]
NoUsage == [at |-> "none", on |-> "none", left |-> 0]

Init ==
    /\ loop = [k \in Loop |-> Off]
    /\ alive = {} /\ session = "none" /\ workers = FALSE
    /\ usage = NoUsage /\ login = 0

At(k, pc) == loop[k].pc = pc
Becomes(k, r) == [loop EXCEPT ![k] = r]
Closed(r) == [r EXCEPT !.left = 0, !.silent = 0, !.activated = FALSE, !.beats = 0]

\* Mutant: the wait sleeps through a cancellation.
SleepsOn(k) == loop[k].left = 0

\* waitClink returns when its time is over, and at once when the context is
\* cancelled.
Wakes(k) == loop[k].left = 0 \/ k \notin alive

Paused(k, r, ticks) == [Closed(r) EXCEPT !.pc = "pausing", !.left = ticks]

Cancel(k) == alive' = alive \ {k}

\* The heartbeat looks at the context too; the loop does not while it reads.
Hushed(k) == [loop EXCEPT ![k].beats = 0]

tasks == <<session, workers, usage, login>>

-----------------------------------------------------------------------------
(* The loop of runClink.                                                   *)

\* The context is looked at here; a handshake has no way to refresh.
Cycle(k) ==
    /\ At(k, "cycle")
    /\ loop' = Becomes(k,
          IF k \notin alive THEN Off
          ELSE IF loop[k].first \/ k = "once"
          THEN [loop[k] EXCEPT !.pc = "dialing", !.first = FALSE]
          ELSE [loop[k] EXCEPT !.pc = "refreshing", !.left = RefreshLimit])
    /\ UNCHANGED <<alive, tasks>>

Refresh(k) ==
    /\ At(k, "refreshing")
    /\ \/ k \in alive /\ loop' = Becomes(k, [loop[k] EXCEPT !.pc = "dialing", !.left = 0])
       \/ loop' = Becomes(k, Paused(k, loop[k], RetryDelay))
    /\ UNCHANGED <<alive, tasks>>

\* The connection information names no desktop or no host: the loop ends with an
\* error, and its context is left as it is.
InfoIncomplete(k) ==
    /\ At(k, "dialing")
    /\ loop' = Becomes(k, Off)
    /\ UNCHANGED <<alive, tasks>>

Dial(k) ==
    /\ At(k, "dialing") /\ k \in alive
    /\ loop' = Becomes(k, [Closed(loop[k]) EXCEPT !.pc = "open", !.left = ConnectionLife])
    /\ UNCHANGED <<alive, tasks>>

DialFails(k) ==
    /\ At(k, "dialing")
    /\ loop' = Becomes(k, Paused(k, loop[k], RetryDelay))
    /\ UNCHANGED <<alive, tasks>>

\* The loop looks at its deadline between two messages.
NextRead(k, r) ==
    IF r.left = 0 THEN [Closed(r) EXCEPT !.pc = "cycle"] ELSE [r EXCEPT !.silent = 0]

\* Answers, and the messages the loop passes over.
Message(k) ==
    /\ At(k, "open")
    /\ loop' = IF k = "once" /\ loop[k].left = 0 THEN Becomes(k, Off) ELSE Becomes(k, NextRead(k, loop[k]))
    /\ UNCHANGED <<alive, tasks>>

\* Mutant: every activation starts a heartbeat.
ActivatedAgain(k, r) ==
    [r EXCEPT !.activated = TRUE, !.beats = IF k \in alive THEN @ + 1 ELSE @]

\* Type 103: the credentials are sent; the first time a heartbeat begins.
Activated(k, r) ==
    [r EXCEPT !.activated = TRUE,
              !.beats = IF r.activated \/ k \notin alive THEN @ ELSE @ + 1]

Activate(k) ==
    /\ At(k, "open")
    /\ loop' = IF k = "once" THEN Becomes(k, Off) ELSE Becomes(k, NextRead(k, Activated(k, loop[k])))
    /\ usage' = IF k = "temp" /\ usage.at = "connecting"
                THEN [usage EXCEPT !.at = "counting", !.left = UsageLimit] ELSE usage
    /\ UNCHANGED <<alive, session, workers, login>>

\* Mutant: a preemption is taken for a broken connection.
PreemptRetries(k) ==
    /\ At(k, "open")
    /\ loop' = IF k = "once" THEN Becomes(k, Off)
               ELSE Becomes(k, Paused(k, [loop[k] EXCEPT !.since = 0], RetryDelay))
    /\ UNCHANGED <<alive, tasks>>

\* Types 119, 120 and 137, or a close code or reason that says so.
Preempt(k) ==
    /\ At(k, "open")
    /\ loop' = IF k = "once" THEN Becomes(k, Off)
               ELSE Becomes(k, Paused(k, [loop[k] EXCEPT !.since = 0], YieldTime))
    /\ UNCHANGED <<alive, tasks>>

ReadFails(k) ==
    /\ At(k, "open")
    /\ loop' = IF k = "once" THEN Becomes(k, Off) ELSE Becomes(k, Paused(k, loop[k], RetryDelay))
    /\ UNCHANGED <<alive, tasks>>

PauseEnds(k) ==
    /\ At(k, "pausing") /\ Wakes(k)
    /\ loop' = Becomes(k, IF k \in alive THEN [loop[k] EXCEPT !.pc = "cycle"] ELSE Off)
    /\ UNCHANGED <<alive, tasks>>

LoopStep(k) ==
    \/ Cycle(k) \/ Refresh(k) \/ InfoIncomplete(k) \/ Dial(k) \/ DialFails(k) \/ Message(k)
    \/ Activate(k) \/ Preempt(k) \/ ReadFails(k) \/ PauseEnds(k)

Run(k) == loop' = Becomes(k, [Off EXCEPT !.pc = "cycle"]) /\ alive' = alive \cup {k}

-----------------------------------------------------------------------------
(* Keepalive.                                                              *)

\* startAccount registers the session, connects the desktop, and writes the
\* number of workers afterwards.
KeepStarts(k) ==
    /\ session \notin alive /\ At(k, "off")
    /\ Run(k) /\ session' = k /\ workers' = FALSE
    /\ UNCHANGED <<usage, login>>

KeepCounts ==
    /\ session \in alive
    /\ workers' = TRUE
    /\ UNCHANGED <<loop, alive, session, usage, login>>

\* RestartKeepalive and the end of a window replace the entry as they cancel.
KeepStops ==
    /\ session # "none"
    /\ loop' = Hushed(session) /\ Cancel(session)
    /\ session' = "none" /\ workers' = FALSE
    /\ UNCHANGED <<usage, login>>

\* PrepareForUpdate cancels the session and leaves its entry; usage forbids it.
KeepCancelled ==
    /\ session \in alive /\ usage = NoUsage
    /\ loop' = Hushed(session) /\ Cancel(session)
    /\ UNCHANGED tasks

-----------------------------------------------------------------------------
(* A usage task: runUsage and waitUsage.                                   *)

\* An hour already confirmed ends the task before this.
UsageReuses ==
    /\ usage = NoUsage /\ workers
    /\ usage' = [at |-> "counting", on |-> "keep", left |-> UsageLimit]
    /\ UNCHANGED <<loop, alive, session, workers, login>>

\* One that is still letting go of an earlier temporary connection is left out.
UsageConnects ==
    /\ usage = NoUsage /\ ~workers /\ At("temp", "off")
    /\ Run("temp")
    /\ usage' = [at |-> "connecting", on |-> "temp", left |-> ActivationLimit]
    /\ UNCHANGED <<session, workers, login>>

\* Confirmed, stopped, failed, or too late: the deferred cancel ends a
\* temporary connection in every case.
UsageReturns ==
    /\ usage' = NoUsage
    /\ IF usage.on = "temp" THEN Cancel("temp") /\ loop' = Hushed("temp") ELSE UNCHANGED <<alive, loop>>

UsageEnds ==
    /\ usage # NoUsage
    /\ UsageReturns
    /\ UNCHANGED <<session, workers, login>>

-----------------------------------------------------------------------------
(* A login task's handshake: activateDesktopLogin.                         *)

LoginConnects ==
    /\ login = 0 /\ ~workers /\ At("once", "off")
    /\ Run("once")
    /\ login' = HandshakeLimit
    /\ UNCHANGED <<session, workers, usage>>

\* Its context ends after the limit, with the task, or with the handshake.
LoginReturns ==
    /\ "once" \in alive
    /\ Cancel("once") /\ login' = 0
    /\ UNCHANGED <<loop, session, workers, usage>>

-----------------------------------------------------------------------------
(* Time.                                                                   *)

\* What happens before any time passes.
Urgent(k) ==
    \/ At(k, "cycle")
    \/ loop[k].pc \in {"refreshing", "dialing"} /\ k \notin alive
    \/ loop[k].pc = "refreshing" /\ loop[k].left = 0
    \/ At(k, "pausing") /\ Wakes(k)
    \/ At(k, "open") /\ loop[k].silent = ReadDeadline

Down(n) == IF n = 0 THEN 0 ELSE n - 1

Aged(k) ==
    [loop[k] EXCEPT
        !.left = Down(@),
        !.silent = IF At(k, "open") THEN @ + 1 ELSE 0,
        !.since = IF @ < YieldTime THEN @ + 1 ELSE @,
        !.over = IF k \in alive \/ At(k, "off") THEN 0 ELSE IF @ < Overstay THEN @ + 1 ELSE @]

\* A wait that has passed its deadline, or whose connection has ended, returns
\* first; once the platform counts, nobody looks at the connection any more.
Tick ==
    /\ \A k \in Loop : ~Urgent(k)
    /\ usage # NoUsage => usage.left > 0
    /\ usage.at = "connecting" => ~At("temp", "off")
    /\ "once" \in alive => login > 0 /\ ~At("once", "off")
    /\ loop' = [k \in Loop |-> Aged(k)]
    /\ usage' = [usage EXCEPT !.left = Down(@)]
    /\ login' = Down(login)
    /\ UNCHANGED <<alive, session, workers>>

Next ==
    \/ \E k \in Loop : LoopStep(k)
    \/ \E k \in Keeper : KeepStarts(k)
    \/ KeepCounts \/ KeepStops \/ KeepCancelled
    \/ UsageReuses \/ UsageConnects \/ UsageEnds
    \/ LoginConnects \/ LoginReturns
    \/ Tick

Spec == Init /\ [][Next]_vars

-----------------------------------------------------------------------------

TypeOK ==
    /\ loop \in [Loop -> [pc : Place, first : BOOLEAN, left : 0..Longest, silent : 0..ReadDeadline,
                          activated : BOOLEAN, beats : 0..2, since : 0..YieldTime, over : 0..Overstay]]
    /\ alive \subseteq Loop
    /\ session \in Keeper \cup {"none"} /\ workers \in BOOLEAN
    /\ usage \in [at : {"none", "connecting", "counting"}, on : {"none", "keep", "temp"}, left : 0..Longest]
    /\ login \in 0..HandshakeLimit

\* A connection has one heartbeat, however often it is activated, and none
\* once it is closed or its context is cancelled.
OneHeartbeat ==
    \A k \in Loop : loop[k].beats = IF At(k, "open") /\ k \in alive /\ loop[k].activated THEN 1 ELSE 0

\* A cancelled loop lets go of the desktop: at once while it waits or connects,
\* and within one connection's life and one read while it reads.
CancelledEnds ==
    \A k \in Loop : loop[k].over <= ConnectionLife + ReadDeadline

\* "Closes it as soon as the platform confirms" (manager.go:1114): no temporary
\* connection is wanted without the usage task that made it.
TemporaryIsTemporary ==
    "temp" \in alive => usage.on = "temp"

\* No heartbeat outlives its connection, no connection its context by more than
\* a life and a read, and no context the task that made it.
NothingOutlives == OneHeartbeat /\ CancelledEnds /\ TemporaryIsTemporary

\* Another client keeps the desktop for the yielding time: a preempted loop
\* does not connect before.
Yields ==
    [][ \A k \in Loop : loop[k].pc = "dialing" /\ loop'[k].pc = "open" => loop[k].since = YieldTime ]_vars
=============================================================================
