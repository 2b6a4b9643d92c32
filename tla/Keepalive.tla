----------------------------- MODULE Keepalive -----------------------------
(***************************************************************************)
(* The keepalive side of internal/service/manager.go: the clients map, the *)
(* startAccount goroutines and the connections they open, and everybody    *)
(* who starts and stops them: the scheduler's tick (reconcileKeepalive),   *)
(* RestartKeepalive called by the web handlers, the update's maintenance   *)
(* mode, and Close.  A session stands for one startAccount call and the    *)
(* context it makes; clients[id] refers to the session it was written by.  *)
(*                                                                         *)
(* Whether an account wants keepalive (its mode, its window, its device    *)
(* status) is one set; the platform's answers are outcomes.  A usage task  *)
(* (type pc) is what TaskManager.tla models in detail: here its key is in  *)
(* Manager.starting, its run is in Manager.active with or without (dropped *)
(* by launch) a goroutine, or neither.                                     *)
(***************************************************************************)
EXTENDS Naturals, FiniteSets

CONSTANTS Account,      \* accounts stored at the start
          WebCaller,    \* web handlers that may call RestartKeepalive
          MaxSessions,  \* bound on the sessions that exist at one time
          Desktops,     \* desktops of an account
          MaxChanges    \* bound on what users, clock and updates do

ASSUME MaxSessionsAssumption == MaxSessions \in Nat
ASSUME DesktopsAssumption == Desktops \in Nat
ASSUME MaxChangesAssumption == MaxChanges \in Nat
ASSUME WebCallerAssumption == WebCaller \cap {"tick", "update"} = {}

Session == 1..MaxSessions
NoSession == 0
Caller == {"tick", "update"} \cup WebCaller

\* startAccount: launched and not yet registered, logging in, connecting the
\* desktops (awake: the current one was woken up), or about to write clients in
\* setState (start, wake, fail and run are the kinds of its calls).
WriteStage == {"start", "wake", "fail", "run"}
SessionStage == {"free", "launched", "login", "connecting", "awake", "done"} \cup WriteStage
CallStage == {"idle", "loaded", "stopping", "idling"}

VARIABLES
    life, scheduling,    \* Manager.ctx and closing; the scheduler's loop
    stored, wanted,      \* the accounts table; accounts that want keepalive
    entry,               \* clients: the session and its number of workers
    stage, who, alive, left, workers,  \* the sessions; alive: contexts not cancelled
    conn,                \* the RunClink goroutines of a session
    call, todo, wants, at,  \* a reconcile loop: stage, accounts still to do, current one
    usage,               \* the account's usage task
    prep,                \* PrepareForUpdate; maintenance is on unless idle
    changes

sessionVars == <<stage, who, alive, left, workers, conn>>
callVars == <<call, todo, wants, at>>
accountVars == <<stored, wanted>>
lifeVars == <<life, scheduling>>
vars == <<lifeVars, accountVars, entry, sessionVars, callVars, usage, prep, changes>>

NoEntry == [session |-> NoSession, workers |-> 0]
NoAccount == "none"

TypeOK ==
    /\ life \in {"up", "cancelled", "latched", "closed"}
    /\ scheduling \in BOOLEAN
    /\ stored \subseteq Account /\ wanted \subseteq Account
    /\ entry \in [Account -> [session : Session \cup {NoSession}, workers : 0..Desktops]]
    /\ stage \in [Session -> SessionStage]
    /\ who \in [Session -> Account \cup {NoAccount}]
    /\ alive \subseteq Session
    /\ left \in [Session -> 0..Desktops]
    /\ workers \in [Session -> 0..Desktops]
    /\ conn \in [Session -> 0..Desktops]
    /\ call \in [Caller -> CallStage]
    /\ todo \in [Caller -> SUBSET Account] /\ wants \in [Caller -> SUBSET Account]
    /\ at \in [Caller -> Account \cup {NoAccount}]
    /\ usage \in [Account -> {"none", "starting", "active", "dropped"}]
    /\ prep \in {"idle", "preparing", "clear", "prepared"}
    /\ changes \in 0..MaxChanges

Init ==
    /\ life = "up" /\ scheduling = TRUE
    /\ stored = Account /\ wanted \in SUBSET Account
    /\ entry = [a \in Account |-> NoEntry]
    /\ stage = [s \in Session |-> "free"]
    /\ who = [s \in Session |-> NoAccount]
    /\ alive = {}
    /\ left = [s \in Session |-> 0]
    /\ workers = [s \in Session |-> 0]
    /\ conn = [s \in Session |-> 0]
    /\ call = [c \in Caller |-> "idle"]
    /\ todo = [c \in Caller |-> {}]
    /\ wants = [c \in Caller |-> {}]
    /\ at = [c \in Caller |-> NoAccount]
    /\ usage = [a \in Account |-> "none"]
    /\ prep = "idle"
    /\ changes = 0

----------------------------------------------------------------------------
(* Helpers                                                                  *)

Closing == life \in {"latched", "closed"}
Maintenance == prep # "idle"

\* ctx.Err() # nil, for the context of session s.
Cancelled(s) == life # "up" \/ s \notin alive

\* clients[a] holds a context that is not cancelled.
Running(a) == entry[a].session # NoSession /\ ~Cancelled(entry[a].session)

\* accountUsageActiveLocked: Manager.active holds a pc run of a.
UsageActive(a) == usage[a] \in {"active", "dropped"}

\* No reconcile loop of c is on its way.
Idle(c) == call[c] = "idle" /\ todo[c] = {}

\* The sessions that the entries of the accounts in A hold.
Held(A) == {entry[a].session : a \in A} \ {NoSession}

Unused(s) == /\ stage[s] \in {"free", "done"} /\ conn[s] = 0
             /\ s \notin Held(Account)

Change == changes < MaxChanges /\ changes' = changes + 1

SetStage(s, v) == stage' = [stage EXCEPT ![s] = v]

\* startAccount returns.
End(s) == /\ SetStage(s, "done")
          /\ who' = [who EXCEPT ![s] = NoAccount]
          /\ left' = [left EXCEPT ![s] = 0]
          /\ workers' = [workers EXCEPT ![s] = 0]

----------------------------------------------------------------------------
(* Reconciling                                                              *)

\* Mutant: launch does not look at closing.
LaunchAlways(a) ==
    \E s \in Session :
        /\ Unused(s) /\ \A r \in 1..(s - 1) : ~Unused(r)
        /\ SetStage(s, "launched")
        /\ who' = [who EXCEPT ![s] = a]

\* launch(startAccount): dropped once closing is latched.
Launch(a) ==
    IF Closing THEN UNCHANGED <<stage, who>>
    ELSE \E s \in Session :
            /\ Unused(s) /\ \A r \in 1..(s - 1) : ~Unused(r)
            /\ SetStage(s, "launched")
            /\ who' = [who EXCEPT ![s] = a]

\* reconcileKeepalive and RestartKeepalive read the accounts first.
Load(c, next) ==
    /\ Idle(c)
    /\ call' = [call EXCEPT ![c] = next]
    /\ todo' = [todo EXCEPT ![c] = stored]
    /\ wants' = [wants EXCEPT ![c] = wanted \cap stored]
    /\ UNCHANGED at

\* Every 20 seconds.  A goroutine launched by the tick before has run up to its
\* first critical section by then: nothing in between waits.
TickKeepalive ==
    /\ scheduling
    /\ \A s \in Session : stage[s] # "launched"
    /\ Load("tick", "idle")
    /\ UNCHANGED <<lifeVars, accountVars, entry, sessionVars, usage, prep, changes>>

RestartKeepalive(c) ==
    /\ Change
    /\ Load(c, "loaded")
    /\ UNCHANGED <<lifeVars, accountVars, entry, sessionVars, usage, prep>>

\* RestartKeepalive's critical section.
ClearClients(c) ==
    /\ call[c] = "loaded"
    /\ call' = [call EXCEPT ![c] = "idle"]
    /\ alive' = alive \ Held(Account)
    /\ entry' = [a \in Account |-> NoEntry]
    /\ UNCHANGED <<lifeVars, accountVars, stage, who, left, workers, conn, todo, wants, at,
                   usage, prep, changes>>

\* The part of reconcileAccountKeepalive under the read lock and the launch
\* that follows it.  Stopping and idling take the lock again later.
ReconcileRunning(c, a, running) ==
    /\ call[c] = "idle" /\ a \in todo[c]
    /\ todo' = [todo EXCEPT ![c] = @ \ {a}]
    /\ wants' = [wants EXCEPT ![c] = @ \ {a}]
    /\ IF ~Maintenance /\ a \in wants[c] /\ ~running
       THEN Launch(a) ELSE UNCHANGED <<stage, who>>
    /\ IF ~Maintenance /\ a \notin wants[c] /\ (running => ~UsageActive(a))
       THEN /\ call' = [call EXCEPT ![c] = IF running THEN "stopping" ELSE "idling"]
            /\ at' = [at EXCEPT ![c] = a]
       ELSE UNCHANGED <<call, at>>
    /\ UNCHANGED <<lifeVars, accountVars, entry, alive, left, workers, conn, usage, prep,
                   changes>>

\* Mutant: an entry counts as running whatever became of its context.
ReconcileIgnoresContext(c, a) == ReconcileRunning(c, a, entry[a].session # NoSession)

\* Mutant: only a session with workers counts as running.
ReconcileByWorkers(c, a) == ReconcileRunning(c, a, Running(a) /\ entry[a].workers > 0)

Reconcile(c, a) == ReconcileRunning(c, a, Running(a))

\* Mutant: the running test is not repeated under the write lock.
WriteIdleUnchecked(c) ==
    /\ call[c] = "idling"
    /\ entry' = [entry EXCEPT ![at[c]] = NoEntry]
    /\ call' = [call EXCEPT ![c] = "idle"]
    /\ at' = [at EXCEPT ![c] = NoAccount]
    /\ UNCHANGED <<lifeVars, accountVars, sessionVars, todo, wants, usage, prep, changes>>

\* The idle status replaces an entry that still is not running.
WriteIdle(c) ==
    /\ call[c] = "idling"
    /\ entry' = IF Running(at[c]) THEN entry ELSE [entry EXCEPT ![at[c]] = NoEntry]
    /\ call' = [call EXCEPT ![c] = "idle"]
    /\ at' = [at EXCEPT ![c] = NoAccount]
    /\ UNCHANGED <<lifeVars, accountVars, sessionVars, todo, wants, usage, prep, changes>>

\* stopAccountKeepalive.
StopKeepalive(c) ==
    /\ call[c] = "stopping"
    /\ alive' = alive \ Held({at[c]})
    /\ entry' = [entry EXCEPT ![at[c]] = NoEntry]
    /\ call' = [call EXCEPT ![c] = "idle"]
    /\ at' = [at EXCEPT ![c] = NoAccount]
    /\ UNCHANGED <<lifeVars, accountVars, stage, who, left, workers, conn, todo, wants,
                   usage, prep, changes>>

----------------------------------------------------------------------------
(* startAccount                                                             *)

StartUnchanged == UNCHANGED <<lifeVars, stored, callVars, usage, prep, changes>>

\* The first critical section gives way to a session that already runs.
Register(s) ==
    /\ stage[s] = "launched"
    /\ IF Running(who[s])
       THEN End(s) /\ UNCHANGED <<entry, alive>>
       ELSE /\ SetStage(s, "login")
            /\ alive' = alive \cup {s}
            /\ entry' = [entry EXCEPT ![who[s]] = [session |-> s, workers |-> 0]]
            /\ UNCHANGED <<who, left, workers>>
    /\ StartUnchanged /\ UNCHANGED <<wanted, conn>>

\* setState's test of the context, before it takes the lock: without it the
\* goroutine goes on (or ends) and writes nothing.
CheckContext(s, write, skip) ==
    IF Cancelled(s) THEN skip ELSE SetStage(s, write) /\ UNCHANGED <<who, left, workers>>

\* device_status is written as verified, also when it has become pending since
\* the accounts were read.
Verified(s) ==
    \/ UNCHANGED <<wanted, changes>>
    \/ Change /\ who[s] \in stored \ wanted /\ wanted' = wanted \cup {who[s]}

\* Credentials or login failed, or after it the list of desktops: the context
\* stays.
LoginFails(s) ==
    /\ stage[s] = "login"
    /\ Verified(s)
    /\ CheckContext(s, "fail", End(s))
    /\ UNCHANGED <<lifeVars, stored, entry, alive, conn, callVars, usage, prep>>

\* The device must be verified first: device_status is written as pending.
LoginUnbound(s) ==
    /\ stage[s] = "login"
    /\ wanted' = wanted \ {who[s]}
    /\ CheckContext(s, "fail", End(s))
    /\ StartUnchanged /\ UNCHANGED <<entry, alive, conn>>

LoginSucceeds(s) ==
    /\ stage[s] = "login"
    /\ Verified(s)
    /\ SetStage(s, IF Cancelled(s) THEN "connecting" ELSE "start")
    /\ left' = [left EXCEPT ![s] = Desktops]
    /\ UNCHANGED <<lifeVars, stored, entry, who, alive, workers, conn, callVars, usage, prep>>

\* setState's write, which trusts the test made before it had the lock.
WriteState(s) ==
    /\ stage[s] \in WriteStage
    /\ entry' = [entry EXCEPT ![who[s]] = [session |-> s, workers |-> workers[s]]]
    /\ IF stage[s] \in {"start", "wake"}
       THEN /\ SetStage(s, IF stage[s] = "start" THEN "connecting" ELSE "awake")
            /\ UNCHANGED <<who, left, workers>>
       ELSE End(s)
    /\ StartUnchanged /\ UNCHANGED <<wanted, alive, conn>>

\* waitForDesktopRunning's notices of a desktop that is not running; one stands
\* for them all.
WakeDesktop(s) ==
    /\ stage[s] = "connecting" /\ left[s] > 0
    /\ SetStage(s, IF Cancelled(s) THEN "awake" ELSE "wake")
    /\ StartUnchanged /\ UNCHANGED <<entry, wanted, who, alive, left, workers, conn>>

\* Mutant: a desktop whose login report fails is counted twice.
ConnectDesktopTwice(s) ==
    /\ stage[s] \in {"connecting", "awake"} /\ left[s] > 0
    /\ SetStage(s, "connecting")
    /\ left' = [left EXCEPT ![s] = @ - 1]
    /\ \E n \in 1..2 : workers' = [workers EXCEPT ![s] = @ + n]
    /\ conn' = IF Closing THEN conn ELSE [conn EXCEPT ![s] = @ + 1]
    /\ StartUnchanged /\ UNCHANGED <<entry, wanted, who, alive>>

\* A desktop is powered on, its connection info read, its worker launched.
ConnectDesktop(s) ==
    /\ stage[s] \in {"connecting", "awake"} /\ left[s] > 0
    /\ SetStage(s, "connecting")
    /\ left' = [left EXCEPT ![s] = @ - 1]
    /\ workers' = [workers EXCEPT ![s] = @ + 1]
    /\ conn' = IF Closing THEN conn ELSE [conn EXCEPT ![s] = @ + 1]
    /\ StartUnchanged /\ UNCHANGED <<entry, wanted, who, alive>>

\* The desktop is forbidden or does not come up; with a cancelled context the
\* goroutine gives up instead.
SkipDesktop(s) ==
    /\ stage[s] \in {"connecting", "awake"} /\ left[s] > 0
    /\ IF Cancelled(s) THEN End(s)
       ELSE /\ SetStage(s, "connecting")
            /\ left' = [left EXCEPT ![s] = @ - 1]
            /\ UNCHANGED <<who, workers>>
    /\ StartUnchanged /\ UNCHANGED <<entry, wanted, alive, conn>>

DesktopsDone(s) ==
    /\ stage[s] = "connecting" /\ left[s] = 0
    /\ CheckContext(s, "run", End(s))
    /\ StartUnchanged /\ UNCHANGED <<entry, wanted, alive, conn>>

\* RunClink returns: its context is cancelled, or a refreshed connection info
\* is incomplete.  Every other failure is retried inside.
ConnectionEnds(s) ==
    /\ conn[s] > 0
    /\ conn' = [conn EXCEPT ![s] = @ - 1]
    /\ StartUnchanged /\ UNCHANGED <<entry, wanted, stage, who, alive, left, workers>>

----------------------------------------------------------------------------
(* Users, clock and tasks                                                   *)

\* A window opens or closes, an account is edited, a device is verified.
WantChanges(a) ==
    /\ Change
    /\ a \in stored
    /\ wanted' = IF a \in wanted THEN wanted \ {a} ELSE wanted \cup {a}
    /\ UNCHANGED <<lifeVars, stored, entry, sessionVars, callVars, usage, prep>>

DeleteAccount(a) ==
    /\ Change
    /\ a \in stored
    /\ stored' = stored \ {a}
    /\ UNCHANGED <<lifeVars, wanted, entry, sessionVars, callVars, usage, prep>>

\* StartTask's two critical sections; either refuses during maintenance.
UsageStarts(a) ==
    /\ ~Maintenance
    /\ usage[a] = "none"
    /\ Change
    /\ usage' = [usage EXCEPT ![a] = "starting"]
    /\ UNCHANGED <<lifeVars, accountVars, entry, sessionVars, callVars, prep>>

UsageEnters(a) ==
    /\ usage[a] = "starting"
    /\ usage' = [usage EXCEPT ![a] = IF Maintenance THEN "none"
                                     ELSE IF Closing THEN "dropped" ELSE "active"]
    /\ UNCHANGED <<lifeVars, accountVars, entry, sessionVars, callVars, prep, changes>>

UsageEnds(a) ==
    /\ usage[a] = "active"
    /\ usage' = [usage EXCEPT ![a] = "none"]
    /\ UNCHANGED <<lifeVars, accountVars, entry, sessionVars, callVars, prep, changes>>

----------------------------------------------------------------------------
(* Updates                                                                  *)

PrepUnchanged == UNCHANGED <<lifeVars, accountVars, usage>>

BeginPrepare ==
    /\ life = "up" /\ prep = "idle" /\ Idle("update")
    /\ Change
    /\ prep' = "preparing"
    /\ PrepUnchanged /\ UNCHANGED <<entry, sessionVars, callVars>>

\* CancelUpdateMaintenance reconciles when the program goes on.
CancelUpdateMaintenance ==
    /\ prep' = "idle"
    /\ IF life = "up" THEN Load("update", "idle") ELSE UNCHANGED callVars
    /\ PrepUnchanged /\ UNCHANGED <<entry, sessionVars, changes>>

\* Mutant: the switch over the types of active forgets pc.
SnapshotForgetsUsage ==
    /\ prep = "preparing"
    /\ \A a \in Account : usage[a] # "starting"
    /\ prep' = "clear"
    /\ PrepUnchanged /\ UNCHANGED <<entry, sessionVars, callVars, changes>>

\* One round of PrepareForUpdate's loop; with a task in starting it polls on.
SnapshotTasks ==
    /\ prep = "preparing"
    /\ IF \E a \in Account : UsageActive(a)
       THEN CancelUpdateMaintenance
       ELSE /\ \A a \in Account : usage[a] = "none"
            /\ prep' = "clear"
            /\ PrepUnchanged /\ UNCHANGED <<entry, sessionVars, callVars, changes>>

\* The last critical section of PrepareForUpdate.
CancelSessions ==
    /\ prep = "clear"
    /\ alive' = alive \ Held(Account)
    /\ prep' = "prepared"
    /\ PrepUnchanged
    /\ UNCHANGED <<entry, stage, who, left, workers, conn, callVars, changes>>

\* The wait or a later step failed, or the executor reported a result.
InstallFails == prep # "idle" /\ CancelUpdateMaintenance

----------------------------------------------------------------------------
(* Close                                                                    *)

CloseUnchanged == UNCHANGED <<accountVars, entry, sessionVars, callVars, usage, prep>>

CloseCancel ==
    /\ life = "up" /\ prep \in {"idle", "prepared"} /\ Idle("update")
    /\ Change
    /\ life' = "cancelled"
    /\ UNCHANGED scheduling /\ CloseUnchanged

CloseLatch ==
    /\ life = "cancelled" /\ life' = "latched"
    /\ UNCHANGED <<scheduling, changes>> /\ CloseUnchanged

SchedulerExits ==
    /\ life # "up" /\ scheduling /\ Idle("tick")
    /\ scheduling' = FALSE
    /\ UNCHANGED <<life, changes>> /\ CloseUnchanged

\* wg.Wait: the scheduler, the startAccount goroutines, the workers, the tasks.
CloseDone ==
    /\ life = "latched" /\ ~scheduling
    /\ \A s \in Session : stage[s] \in {"free", "done"} /\ conn[s] = 0
    /\ \A a \in Account : usage[a] # "active"
    /\ life' = "closed"
    /\ UNCHANGED <<scheduling, changes>> /\ CloseUnchanged

----------------------------------------------------------------------------

CallStep(c) ==
    \/ ClearClients(c) \/ WriteIdle(c) \/ StopKeepalive(c)
    \/ \E a \in Account : Reconcile(c, a)

SessionStep(s) ==
    \/ Register(s) \/ LoginFails(s) \/ LoginUnbound(s) \/ LoginSucceeds(s)
    \/ WriteState(s) \/ WakeDesktop(s) \/ ConnectDesktop(s) \/ SkipDesktop(s) \/ DesktopsDone(s)

CloseStep == CloseLatch \/ SchedulerExits \/ CloseDone

Next ==
    \/ TickKeepalive
    \/ \E c \in WebCaller : RestartKeepalive(c)
    \/ \E c \in Caller : CallStep(c)
    \/ \E s \in Session : SessionStep(s) \/ ConnectionEnds(s)
    \/ \E a \in Account : \/ WantChanges(a) \/ DeleteAccount(a)
                          \/ UsageStarts(a) \/ UsageEnters(a) \/ UsageEnds(a)
    \/ BeginPrepare \/ SnapshotTasks \/ CancelSessions \/ InstallFails
    \/ CloseCancel \/ CloseStep

\* The scheduler ticks, loops and logins go on, cancelled connections and
\* tasks end, a shutdown that began goes on.
Fairness ==
    /\ WF_vars(TickKeepalive)
    /\ \A c \in Caller : WF_vars(CallStep(c))
    /\ \A s \in Session : WF_vars(SessionStep(s)) /\ WF_vars(Cancelled(s) /\ ConnectionEnds(s))
    /\ \A a \in Account : WF_vars(UsageEnters(a)) /\ WF_vars(UsageEnds(a))
    /\ WF_vars(SnapshotTasks \/ CancelSessions)
    /\ WF_vars(CloseStep)

Spec == Init /\ [][Next]_vars
FairSpec == Spec /\ Fairness

----------------------------------------------------------------------------
(* Properties                                                               *)

\* When Close has returned, no startAccount goroutine and no connection is
\* left, although web handlers may still be restarting keepalive.
ClosedIsSilent ==
    life = "closed" => \A s \in Session : stage[s] \in {"free", "done"} /\ conn[s] = 0

\* What replaces an entry cancels the session it held, if that was alive.
KeepsOrCancels(a) ==
    Running(a) => \/ entry'[a].session = entry[a].session
                  \/ life' # "up" \/ entry[a].session \notin alive'

\* The loops and startAccount's registration, whoever runs them and however
\* old the accounts they read are, never lose a live session from clients:
\* StopTask, the updater and Close reach sessions only through it.
LoopsKeepSessions ==
    [][(\A s \in Session : ~WriteState(s)) => \A a \in Account : KeepsOrCancels(a)]_vars

\* The same of every step: an account has one session, since a duplicate
\* desktop connection is to be avoided (manager.go:1029).
EverySessionIsReachable == [][\A a \in Account : KeepsOrCancels(a)]_vars

\* PrepareForUpdate never cancels the session a usage task may be counting on.
UpdateSparesUsage == [][CancelSessions => \A a \in Account : ~UsageActive(a)]_vars

\* Nor does the end of a keepalive window (TestScheduledKeepaliveWaitsForUsage-
\* TaskBeforeStopping).
StopSparesUsage ==
    [][\A c \in Caller : StopKeepalive(c) => usage[at[c]] # "active"]_vars

\* PrepareForUpdate has stopped the background keepalive connections (its
\* comment): what is still connected or connecting is cancelled.
PreparedStopsKeepalive ==
    prep = "prepared" =>
        \A s \in Session : stage[s] \notin {"free", "launched", "fail", "done"} \/ conn[s] > 0
                               => Cancelled(s)

\* An account that wants keepalive for good gets a session and keeps it, after
\* restarts, cancelled updates and races of all kinds.
WantedRuns ==
    \A a \in Account :
        <>[](life = "up" /\ ~Maintenance /\ a \in stored /\ a \in wanted) => <>[]Running(a)

\* When no account wants keepalive any longer and no usage task needs it, every
\* session is stopped: the entries, the startAccount goroutines and the
\* connections all end.  The one exception is a session that clients no longer
\* holds: no loop can stop it.  (By LoopsKeepSessions only setState's write can
\* bring that about, which breaks EverySessionIsReachable.)
UnwantedStops ==
    <>[](/\ life = "up" /\ ~Maintenance /\ stored = Account /\ wanted = {}
         /\ \A a \in Account : usage[a] = "none")
        => <>[](/\ \A a \in Account : ~Running(a)
                /\ \A s \in Session : stage[s] \in {"free", "done"}
                /\ \A s \in Session : conn[s] > 0 => s \in alive \ Held(Account))

=============================================================================
