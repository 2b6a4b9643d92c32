---------------------------- MODULE TaskManager ----------------------------
(***************************************************************************)
(* The task side of internal/service/manager.go: StartTask's two critical  *)
(* sections and the run goroutine behind it, the task_runs rows of         *)
(* internal/storage/store.go, the maintenance mode an in-place update      *)
(* needs (CheckUpdateBlockers, PrepareForUpdate, CancelUpdateMaintenance,  *)
(* driven by runUpdateInstall of internal/web/server.go), Close, crashes   *)
(* and the reset of unfinished rows when the database is opened again.     *)
(*                                                                         *)
(* A step is what one goroutine does between two points where another one  *)
(* can interleave: a critical section of Manager.mu, one SQL statement, or *)
(* one wait for the platform.  What a task does on the platform is reduced *)
(* to its outcome; of a redeem task, the order's status row is kept.       *)
(***************************************************************************)
EXTENDS Naturals, FiniteSets

CONSTANTS Account,     \* accounts stored when the program starts
          TaskType,    \* the task types in use
          MaxRuns,     \* bound on the task_runs rows
          MaxAttempts  \* attempts of a scheduled task (3 in the code)

ASSUME TaskTypeAssumption == TaskType \subseteq {"login", "chat", "pc", "redeem"}
ASSUME MaxRunsAssumption == MaxRuns \in Nat
ASSUME MaxAttemptsAssumption == MaxAttempts \in Nat \ {0}

RunId == 1..MaxRuns
NoParent == 0
Trigger == {"manual", "schedule", "after_pc"}

\* What a StartTask call was asked; parent is the pc run that makes an
\* after_pc call and waits for it.
Call == [account : Account, typ : TaskType, trigger : Trigger, parent : 0..MaxRuns]
NoCall == [typ |-> "none"]

LiveRow == {"queued", "running"}
Verdict == {"success", "failed", "stopped"}
RowStatus == {"none", "interrupted"} \cup LiveRow \cup Verdict

\* Where a run is: its StartTask call (CallStage), its goroutine (GoStage),
\* or past both.
CallStage == {"added", "refused", "entered"}
GoStage == {"launched", "running", "waiting", "ordering", "chaining",
            "joining", "ending", "recorded"}
RunStage == {"idle", "dropped", "done"} \cup CallStage \cup GoStage
InActive == {"entered", "dropped"} \cup GoStage

Life == {"up", "cancelled", "latched", "closed", "down"}
\* Where an installation is once its request is handed to the executor: no
\* result yet, a result in its row, or a result that RefreshUpdateResult no
\* longer takes for its own.
HandedOff == {"handedoff", "reported", "overtaken"}
MaintenanceStage == {"preparing", "short", "clear", "polling", "prepared"} \cup HandedOff
PrepStage == {"idle", "checked", "installing"} \cup MaintenanceStage

VARIABLES
    \* the process: Manager.ctx and closing, and whether it runs at all;
    \* whether the scheduler goroutine still is in its loop
    life, scheduling,
    \* Manager fields guarded by mu; stopped holds the runs whose context
    \* StopTask cancelled
    maintenance, starting, active, stopped,
    \* the run goroutines and the calls that create them
    run, pc, attempt, verdict,
    \* the installing goroutine of the web server
    prep,
    \* the database: accounts, task_runs.status, redeem_states.last_attempt_status
    accounts, row, order

managerVars == <<maintenance, starting, active, stopped>>
goVars == <<run, pc, attempt, verdict>>
dbVars == <<accounts, row, order>>
lifeVars == <<life, scheduling>>
vars == <<lifeVars, managerVars, goVars, prep, dbVars>>

TypeOK ==
    /\ life \in Life
    /\ scheduling \in BOOLEAN
    /\ maintenance \in BOOLEAN
    /\ starting \subseteq Call
    /\ active \subseteq RunId
    /\ stopped \subseteq RunId
    /\ run \in [RunId -> Call \cup {NoCall}]
    /\ pc \in [RunId -> RunStage]
    /\ attempt \in [RunId -> 0..MaxAttempts]
    /\ verdict \in [RunId -> Verdict \cup {"none"}]
    /\ prep \in PrepStage
    /\ accounts \subseteq Account
    /\ row \in [RunId -> RowStatus]
    /\ order \in [Account -> {"none", "pending", "settled"}]

Init ==
    /\ life = "up"
    /\ scheduling = TRUE
    /\ maintenance = FALSE
    /\ starting = {}
    /\ active = {}
    /\ stopped = {}
    /\ run = [r \in RunId |-> NoCall]
    /\ pc = [r \in RunId |-> "idle"]
    /\ attempt = [r \in RunId |-> 0]
    /\ verdict = [r \in RunId |-> "none"]
    /\ prep = "idle"
    /\ accounts = Account
    /\ row = [r \in RunId |-> "none"]
    /\ order \in [Account -> {"none", "pending"}]

----------------------------------------------------------------------------
(* Helpers                                                                  *)

Alive == life # "down"
Closing == life \in {"latched", "closed"}

\* The "<id>:<typ>" key of StartTask.
SameKey(c, d) == c.account = d.account /\ c.typ = d.typ

\* run's context: a child of Manager.ctx that StopTask can cancel.
Cancelled(r) == life # "up" \/ r \in stopped

Attempts(c) == IF c.trigger = "schedule" /\ c.typ # "redeem" THEN MaxAttempts ELSE 1

\* StartTask has not returned yet to the caller that made call c as run r.
InCall(r) == pc[r] \in CallStage

\* A goroutine that Close waits for is still inside StartTask.
TrackedCall(c) == c.trigger # "manual"

RowsUsed == Cardinality({r \in RunId : row[r] # "none"})
NextRun(r) == row[r] = "none" /\ \A s \in 1..(r - 1) : row[s] # "none"

SetStage(r, stage) == pc' = [pc EXCEPT ![r] = stage]
\* run (or a refused StartTask) returns: its locals and its context are gone.
Return(r) == /\ SetStage(r, "done")
             /\ run' = [run EXCEPT ![r] = NoCall]
             /\ attempt' = [attempt EXCEPT ![r] = 0]
             /\ verdict' = [verdict EXCEPT ![r] = "none"]
             /\ stopped' = stopped \ {r}

Finish(r, v) == /\ SetStage(r, IF v = "success" /\ run[r].typ = "pc"
                               THEN "chaining" ELSE "ending")
                /\ verdict' = [verdict EXCEPT ![r] = v]

----------------------------------------------------------------------------
(* StartTask                                                                *)

\* Mutant: the reservation made by a call that is still writing its row is
\* not looked at.
MayReserveUnlessActive(c) ==
    /\ ~maintenance
    /\ \A r \in active : ~SameKey(c, run[r])

\* The checks of the first critical section; a call that fails them returns
\* an error and changes nothing.
MayReserve(c) ==
    /\ ~maintenance
    /\ \A d \in starting : ~SameKey(c, d)
    /\ \A r \in active : ~SameKey(c, run[r])

Reserve(c) == MayReserve(c) /\ starting' = starting \cup {c}

\* The web handlers call StartTask until the process is gone (Shutdown stops
\* waiting for them after 10 seconds).  Scheduled calls come from the loop of
\* scheduler and the goroutines it launches, which Close waits for.  MaxRuns
\* bounds the calls.
StartTask(a, t, trigger) ==
    /\ Alive
    /\ trigger = "schedule" => scheduling
    /\ RowsUsed + Cardinality(starting) < MaxRuns
    /\ Reserve([account |-> a, typ |-> t, trigger |-> trigger, parent |-> NoParent])
    /\ UNCHANGED <<lifeVars, maintenance, active, stopped, goVars, prep, dbVars>>

\* AddRun's INSERT, outside the lock: the key stays reserved.  The foreign
\* key makes it fail for an account that is gone.
AddRun(c, r) ==
    /\ c \in starting
    /\ \A s \in RunId : pc[s] = "added" => run[s] # c
    /\ c.account \in accounts
    /\ NextRun(r)
    /\ row' = [row EXCEPT ![r] = "queued"]
    /\ run' = [run EXCEPT ![r] = c]
    /\ SetStage(r, "added")
    /\ UNCHANGED <<lifeVars, managerVars, attempt, verdict, prep, accounts, order>>

AddRunFails(c) ==
    /\ c \in starting
    /\ \A s \in RunId : pc[s] = "added" => run[s] # c
    /\ starting' = starting \ {c}
    /\ UNCHANGED <<lifeVars, maintenance, active, stopped, goVars, prep, dbVars>>

\* The second critical section: maintenance may have begun since the first.
EnterTask(r) ==
    /\ pc[r] = "added"
    /\ starting' = starting \ {run[r]}
    /\ IF maintenance
       THEN SetStage(r, "refused") /\ UNCHANGED active
       ELSE SetStage(r, "entered") /\ active' = active \cup {r}
    /\ UNCHANGED <<lifeVars, maintenance, stopped, run, attempt, verdict, prep, dbVars>>

\* Mutant: the refused call forgets the row it has written.
RefuseTaskSilently(r) ==
    /\ pc[r] = "refused"
    /\ Return(r)
    /\ UNCHANGED <<lifeVars, maintenance, starting, active, prep, dbVars>>

RefuseTask(r) ==
    /\ pc[r] = "refused"
    /\ row' = [row EXCEPT ![r] = "interrupted"]
    /\ Return(r)
    /\ UNCHANGED <<lifeVars, maintenance, starting, active, prep, accounts, order>>

\* Mutant: launch does not look at closing.
LaunchRunAlways(r) ==
    /\ pc[r] = "entered"
    /\ SetStage(r, "launched")
    /\ UNCHANGED <<lifeVars, managerVars, run, attempt, verdict, prep, dbVars>>

\* launch drops the function without a word once closing is latched.
LaunchRun(r) ==
    /\ pc[r] = "entered"
    /\ SetStage(r, IF Closing THEN "dropped" ELSE "launched")
    /\ UNCHANGED <<lifeVars, managerVars, run, attempt, verdict, prep, dbVars>>

----------------------------------------------------------------------------
(* run                                                                      *)

\* The row becomes running and the account is read; without it the run fails.
BeginRun(r) ==
    /\ pc[r] = "launched"
    /\ row' = [row EXCEPT ![r] = "running"]
    /\ IF run[r].account \in accounts
       THEN /\ SetStage(r, "running")
            /\ attempt' = [attempt EXCEPT ![r] = 1]
            /\ UNCHANGED verdict
       ELSE Finish(r, "failed") /\ UNCHANGED attempt
    /\ UNCHANGED <<lifeVars, managerVars, run, prep, accounts, order>>

\* execute returned nil.
AttemptSucceeds(r) ==
    /\ pc[r] = "running"
    /\ run[r].typ # "redeem"
    /\ Finish(r, "success")
    /\ UNCHANGED <<lifeVars, managerVars, run, attempt, prep, dbVars>>

\* execute returned an error that wraps context.Canceled.
AttemptCancelled(r) ==
    /\ pc[r] = "running"
    /\ Cancelled(r)
    /\ Finish(r, "stopped")
    /\ UNCHANGED <<lifeVars, managerVars, run, attempt, prep, dbVars>>

\* Mutant: one attempt too many.
AttemptFailsOffByOne(r) ==
    /\ pc[r] = "running"
    /\ IF attempt[r] <= Attempts(run[r])
       THEN SetStage(r, "waiting") /\ UNCHANGED verdict
       ELSE Finish(r, "failed")
    /\ UNCHANGED <<lifeVars, managerVars, run, attempt, prep, dbVars>>

AttemptFails(r) ==
    /\ pc[r] = "running"
    /\ IF attempt[r] < Attempts(run[r])
       THEN SetStage(r, "waiting") /\ UNCHANGED verdict
       ELSE Finish(r, "failed")
    /\ UNCHANGED <<lifeVars, managerVars, run, attempt, prep, dbVars>>

\* The 10 minutes between attempts end early when the context does.
WaitCancelled(r) ==
    /\ pc[r] = "waiting"
    /\ Cancelled(r)
    /\ Finish(r, "stopped")
    /\ UNCHANGED <<lifeVars, managerVars, run, attempt, prep, dbVars>>

\* After the wait the platform is asked once more: it may already credit the task.
WaitOver(r) ==
    /\ pc[r] = "waiting"
    /\ \/ Finish(r, "success") /\ UNCHANGED attempt
       \/ /\ SetStage(r, "running")
          /\ attempt' = [attempt EXCEPT ![r] = @ + 1]
          /\ UNCHANGED verdict
    /\ UNCHANGED <<lifeVars, managerVars, run, prep, dbVars>>

\* redeem refuses an account whose last order is pending, and writes the
\* pending row (foreign key again) before it places the order.
SubmitOrder(r) ==
    /\ pc[r] = "running"
    /\ run[r].typ = "redeem"
    /\ run[r].account \in accounts
    /\ order[run[r].account] # "pending"
    /\ order' = [order EXCEPT ![run[r].account] = "pending"]
    /\ SetStage(r, "ordering")
    /\ UNCHANGED <<lifeVars, managerVars, run, attempt, verdict, prep, accounts, row>>

\* redeem's last UPDATE; it finds no row when the account is gone.
SettleOrder(r, status) ==
    order' = IF run[r].account \in accounts
             THEN [order EXCEPT ![run[r].account] = status] ELSE order

OrderAnswered(r) ==
    /\ pc[r] = "ordering"
    /\ SettleOrder(r, "settled")
    /\ \E v \in {"success", "failed"} : Finish(r, v)
    /\ UNCHANGED <<lifeVars, managerVars, run, attempt, prep, accounts, row>>

OrderUnknown(r) ==
    /\ pc[r] = "ordering"
    /\ SettleOrder(r, "pending")
    /\ Finish(r, IF Cancelled(r) THEN "stopped" ELSE "failed")
    /\ UNCHANGED <<lifeVars, managerVars, run, attempt, prep, accounts, row>>

\* A successful pc run starts the redeem task when one is due ...
ChainRedeem(r) ==
    LET a == run[r].account IN
    /\ pc[r] = "chaining"
    /\ "redeem" \in TaskType
    /\ order[a] # "pending"
    /\ RowsUsed + Cardinality(starting) < MaxRuns
    /\ Reserve([account |-> a, typ |-> "redeem", trigger |-> "after_pc", parent |-> r])
    /\ SetStage(r, "joining")
    /\ UNCHANGED <<lifeVars, maintenance, active, stopped, run, attempt, verdict, prep, dbVars>>

\* ... and goes on when none is due or StartTask refuses it.
ChainSkip(r) ==
    /\ pc[r] = "chaining"
    /\ SetStage(r, "ending")
    /\ UNCHANGED <<lifeVars, managerVars, run, attempt, verdict, prep, dbVars>>

ChainReturn(r) ==
    /\ pc[r] = "joining"
    /\ \A c \in starting : c.parent # r
    /\ \A s \in RunId : InCall(s) => run[s].parent # r
    /\ SetStage(r, "ending")
    /\ UNCHANGED <<lifeVars, managerVars, run, attempt, verdict, prep, dbVars>>

\* The final UpdateRun, then delete(active): two steps.
RecordVerdict(r) ==
    /\ pc[r] = "ending"
    /\ row' = [row EXCEPT ![r] = verdict[r]]
    /\ SetStage(r, "recorded")
    /\ UNCHANGED <<lifeVars, managerVars, run, attempt, verdict, prep, accounts, order>>

LeaveActive(r) ==
    /\ pc[r] = "recorded"
    /\ active' = active \ {r}
    /\ Return(r)
    /\ UNCHANGED <<lifeVars, maintenance, starting, prep, dbVars>>

StopTask(r) ==
    /\ Alive
    /\ r \in active
    /\ stopped' = stopped \cup {r}
    /\ UNCHANGED <<lifeVars, maintenance, starting, active, goVars, prep, dbVars>>

----------------------------------------------------------------------------
(* The account and redeem handlers of the web server                        *)

ResolveRedeem(a) ==
    /\ Alive
    /\ order[a] = "pending"
    /\ order' = [order EXCEPT ![a] = "settled"]
    /\ UNCHANGED <<lifeVars, managerVars, goVars, prep, accounts, row>>

\* redeem_states goes with the account (ON DELETE CASCADE); task_runs rows stay.
DeleteAccount(a) ==
    /\ Alive
    /\ a \in accounts
    /\ accounts' = accounts \ {a}
    /\ order' = [order EXCEPT ![a] = "none"]
    /\ UNCHANGED <<lifeVars, managerVars, goVars, prep, row>>

----------------------------------------------------------------------------
(* Installing an update                                                     *)

LongTask == {"pc", "redeem"}
ActiveOfType(types) == \E r \in active : run[r].typ \in types
StartingOfType(types) == \E c \in starting : c.typ \in types
PendingRedeem == \E a \in Account : order[a] = "pending"

InstallUnchanged == UNCHANGED <<lifeVars, starting, active, stopped, goVars, dbVars>>

CheckTasks ==
    /\ life = "up" /\ prep = "idle"
    /\ ~StartingOfType(LongTask) /\ ~ActiveOfType(LongTask)
    /\ prep' = "checked"
    /\ InstallUnchanged /\ UNCHANGED maintenance

CheckOrders ==
    /\ prep = "checked"
    /\ prep' = IF PendingRedeem THEN "idle" ELSE "installing"
    /\ InstallUnchanged /\ UNCHANGED maintenance

\* The download succeeded: PrepareForUpdate turns maintenance on.
BeginPrepare ==
    /\ prep = "installing"
    /\ ~maintenance
    /\ maintenance' = TRUE
    /\ prep' = "preparing"
    /\ InstallUnchanged

\* Every error path of the installation ends in CancelUpdateMaintenance.
CancelUpdateMaintenance ==
    /\ maintenance' = FALSE
    /\ prep' = "idle"

\* Mutant: a reserved key does not count as a running short task.
SnapshotActiveOnly ==
    /\ prep = "preparing"
    /\ IF ActiveOfType(LongTask)
       THEN CancelUpdateMaintenance
       ELSE /\ prep' = IF ActiveOfType({"login", "chat"}) THEN "short" ELSE "clear"
            /\ UNCHANGED maintenance
    /\ InstallUnchanged

\* Mutant: the refused preparation returns without leaving maintenance.
SnapshotLeavesMaintenance ==
    /\ prep = "preparing"
    /\ prep' = IF ActiveOfType(LongTask) THEN "idle"
               ELSE IF starting # {} \/ ActiveOfType({"login", "chat"})
                    THEN "short" ELSE "clear"
    /\ InstallUnchanged /\ UNCHANGED maintenance

SnapshotTasks ==
    /\ prep = "preparing"
    /\ IF ActiveOfType(LongTask)
       THEN CancelUpdateMaintenance
       ELSE /\ prep' = IF starting # {} \/ ActiveOfType({"login", "chat"})
                       THEN "short" ELSE "clear"
            /\ UNCHANGED maintenance
    /\ InstallUnchanged

\* HasPendingRedeem, after the lock is released.
ReadPendingOrders ==
    /\ prep \in {"short", "clear"}
    /\ IF PendingRedeem
       THEN CancelUpdateMaintenance
       ELSE /\ prep' = IF prep = "clear" THEN "prepared" ELSE "polling"
            /\ UNCHANGED maintenance
    /\ InstallUnchanged

PollAgain ==
    /\ prep = "polling"
    /\ prep' = "preparing"
    /\ InstallUnchanged /\ UNCHANGED maintenance

\* The two minutes for short tasks are over, a read failed, the download or a
\* later step of runUpdateInstall failed, or the server is closing.
FailInstall ==
    /\ prep \in {"checked", "installing", "short", "clear", "polling", "prepared"}
    /\ CancelUpdateMaintenance
    /\ InstallUnchanged

\* Request and lock are handed to the executor.  The shutdown follows, or, under
\* a Windows supervisor, the helper stops the program, reports that it could
\* not, or ends without a word.
HandOff ==
    /\ prep = "prepared"
    /\ prep' = "handedoff"
    /\ InstallUnchanged /\ UNCHANGED maintenance

\* The tick of the main loop has put the executor's result into the row.
ResultArrives ==
    /\ life = "up" /\ prep = "handedoff"
    /\ prep' = "reported"
    /\ InstallUnchanged /\ UNCHANGED maintenance

\* Progress says stopping and the last row is finished.  (That the two are read
\* before the flag is cleared is UpdateInstall's concern.)
RefreshUpdateResult ==
    /\ life = "up" /\ prep = "reported"
    /\ CancelUpdateMaintenance
    /\ InstallUnchanged

\* The helper has released the lock: another check or installation begins first
\* and sets the progress, which RefreshUpdateResult will not recognise.
JobOvertakes ==
    /\ life = "up" /\ prep = "reported"
    /\ prep' = "overtaken"
    /\ InstallUnchanged /\ UNCHANGED maintenance

\* An installation tried then fails, in PrepareForUpdate at the latest.
InstallAgainFails ==
    /\ life = "up" /\ prep = "overtaken"
    /\ CancelUpdateMaintenance
    /\ InstallUnchanged

----------------------------------------------------------------------------
(* Shutdown, crash and restart                                              *)

\* main waits for the installing goroutine (webServer.Close) before it calls
\* manager.Close, whose first step cancels Manager.ctx.
CloseCancel ==
    /\ life = "up"
    /\ prep \in {"idle"} \cup HandedOff
    /\ life' = "cancelled"
    /\ UNCHANGED <<scheduling, managerVars, goVars, prep, dbVars>>

CloseLatch ==
    /\ life = "cancelled"
    /\ life' = "latched"
    /\ UNCHANGED <<scheduling, managerVars, goVars, prep, dbVars>>

\* scheduler returns at ctx.Done.
SchedulerExits ==
    /\ life \in {"cancelled", "latched"}
    /\ scheduling
    /\ scheduling' = FALSE
    /\ UNCHANGED <<life, managerVars, goVars, prep, dbVars>>

\* wg.Wait returned.
CloseDone ==
    /\ life = "latched"
    /\ ~scheduling
    /\ \A r \in RunId : pc[r] \notin GoStage
    /\ \A r \in RunId : InCall(r) => ~TrackedCall(run[r])
    /\ \A c \in starting : ~TrackedCall(c)
    /\ life' = "closed"
    /\ UNCHANGED <<scheduling, managerVars, goVars, prep, dbVars>>

\* The process ends, after Close or by a crash at any point; the database stays.
ProcessEnds ==
    /\ life' = "down"
    /\ scheduling' = FALSE
    /\ maintenance' = FALSE
    /\ starting' = {}
    /\ active' = {}
    /\ stopped' = {}
    /\ pc' = [r \in RunId |-> IF row[r] = "none" THEN "idle" ELSE "done"]
    /\ run' = [r \in RunId |-> NoCall]
    /\ attempt' = [r \in RunId |-> 0]
    /\ verdict' = [r \in RunId |-> "none"]
    /\ prep' = "idle"
    /\ UNCHANGED dbVars

Exit == life = "closed" /\ ProcessEnds
Crash == life \in {"up", "cancelled", "latched"} /\ ProcessEnds

\* Mutant: the rows are left as they are.
RestartWithoutReset ==
    /\ life = "down"
    /\ life' = "up"
    /\ scheduling' = TRUE
    /\ UNCHANGED <<managerVars, goVars, prep, dbVars>>

\* Mutant: the reset has no WHERE clause.
RestartResetsAll ==
    /\ life = "down"
    /\ life' = "up"
    /\ scheduling' = TRUE
    /\ row' = [r \in RunId |-> IF row[r] = "none" THEN "none" ELSE "interrupted"]
    /\ UNCHANGED <<managerVars, goVars, prep, accounts, order>>

\* Store.Init resets the rows that no goroutine will ever finish.
Restart ==
    /\ life = "down"
    /\ life' = "up"
    /\ scheduling' = TRUE
    /\ row' = [r \in RunId |-> IF row[r] \in LiveRow THEN "interrupted" ELSE row[r]]
    /\ UNCHANGED <<managerVars, goVars, prep, accounts, order>>

----------------------------------------------------------------------------

CallStep == \/ \E c \in starting, r \in RunId : AddRun(c, r)
            \/ \E c \in starting : AddRunFails(c)

RunStep(r) ==
    \/ EnterTask(r) \/ RefuseTask(r) \/ LaunchRun(r) \/ BeginRun(r)
    \/ AttemptSucceeds(r) \/ AttemptCancelled(r) \/ AttemptFails(r)
    \/ WaitCancelled(r) \/ WaitOver(r)
    \/ SubmitOrder(r) \/ OrderAnswered(r) \/ OrderUnknown(r)
    \/ ChainRedeem(r) \/ ChainSkip(r) \/ ChainReturn(r)
    \/ RecordVerdict(r) \/ LeaveActive(r)

InstallStep ==
    \/ CheckOrders \/ BeginPrepare \/ SnapshotTasks \/ ReadPendingOrders
    \/ PollAgain \/ FailInstall \/ HandOff

ResultStep == ResultArrives \/ RefreshUpdateResult \/ JobOvertakes \/ InstallAgainFails

CloseStep == CloseLatch \/ SchedulerExits \/ CloseDone \/ Exit

UserStep ==
    \/ \E a \in Account, t \in TaskType, trigger \in {"manual", "schedule"} :
          StartTask(a, t, trigger)
    \/ \E r \in RunId : StopTask(r)
    \/ \E a \in Account : ResolveRedeem(a) \/ DeleteAccount(a)

Next ==
    \/ UserStep
    \/ CallStep
    \/ \E r \in RunId : RunStep(r)
    \/ CheckTasks \/ InstallStep \/ ResultStep
    \/ CloseCancel \/ CloseStep \/ Crash \/ Restart

\* Every call, goroutine and installation goes on: their waits on the platform
\* all have deadlines.  The main loop ticks, a shutdown that began goes on, and a
\* stopped program is started again.  Nothing is assumed of the executor.
Fairness ==
    /\ WF_vars(CallStep)
    /\ \A r \in RunId : WF_vars(RunStep(r))
    /\ WF_vars(InstallStep)
    /\ WF_vars(RefreshUpdateResult)
    /\ WF_vars(CloseStep)
    /\ WF_vars(Restart)

Spec == Init /\ [][Next]_vars
FairSpec == Spec /\ Fairness

----------------------------------------------------------------------------
(* Properties                                                               *)

\* At most one run goroutine of a task works for an account, whatever the
\* overlap of web handlers, scheduler and chained calls (StartTask reserves
\* the key, writes the row outside the lock and only then enters active).
OneTaskPerKey ==
    \A r, s \in RunId :
        r # s /\ pc[r] \in InActive /\ pc[s] \in InActive => ~SameKey(run[r], run[s])

\* Once PrepareForUpdate has returned nil, and until maintenance is cancelled,
\* nothing it promised to wait for is left: no run, no call on its way to
\* become one, and no redeem order whose result is unknown.
PreparedIsQuiet ==
    prep \in {"prepared"} \cup HandedOff =>
        /\ starting = {}
        /\ \A r \in RunId : pc[r] \notin InActive \cup {"added"}
        /\ ~PendingRedeem

\* While the process lives, a row that says queued or running has somebody
\* who will finish it: a run in active (so that StopTask and the updater see
\* it) or the StartTask call that wrote it.
LiveRowsAreOwned ==
    \A r \in RunId : Alive /\ row[r] \in LiveRow =>
        r \in active \/ pc[r] \in {"added", "refused"}

\* When Close has returned no goroutine it must wait for is left: main closes
\* the database next.
ClosedIsQuiet ==
    life = "closed" => \A r \in RunId : pc[r] \notin GoStage

\* A finished row keeps its verdict, through late cancellations, shutdown,
\* crash and the reset at the next start.
VerdictsStand ==
    [][\A r \in RunId : row[r] \notin {"none"} \cup LiveRow => row'[r] = row[r]]_vars

\* Every row ends: stopped, retried, dropped at shutdown or cut by a crash, a
\* run does not stay queued or running for ever.
RunsEnd == \A r \in RunId : (row[r] \in LiveRow) ~> (row[r] \notin LiveRow)

\* An installation that turned maintenance on turns it off again or hands it on
\* to the executor: refused, failed or cut by a crash, it does not leave the
\* program refusing tasks, and a result that is still its own ends it.  Two
\* states may last until the program stops: no result (the helper refused the
\* request) and an overtaken one (RefreshUpdateResult looks at the progress).
MaintenanceEnds == maintenance ~> (~maintenance \/ prep \in {"handedoff", "overtaken"})

=============================================================================
