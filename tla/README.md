# TLA+ models of CtYun Keeper

CtYun Keeper (`src/`) is a Go program that keeps cloud desktops of the CtYun
platform connected, runs the platform's daily tasks (login, chat, usage: types
`login`, `chat`, `pc`), redeems the points they earn, serves a web interface and
updates itself in place. One process holds everything in `Manager`
(`internal/service/manager.go`) and an SQLite database; two small executors (a
launcher in the container, an updater on Windows) replace the program's files while it
is down.

This directory holds TLA+ modules of that program, TLC configurations that check
them on small instances, and TLAPS proofs. Every module is translated from the
source; `PROJECT.json` maps each definition to its lines.

    tlc -workers 2 -config MCTaskManagerChain.cfg MCTaskManager
    tlapm TaskManagerProofs.tla

`UpdateTransaction` is the abstract specification of an update; `Launcher` and
`WindowsUpdater` implement it. The other modules each model one component and take what
they need of its neighbours as steps that may happen at any time the neighbour
allows them.

## Inventory

| Component | State | Operations | What is hard | What makes it correct |
|---|---|---|---|---|
| Task manager (`manager.go` 871-1010, 1202, 1256-1348) | `starting`, `active`, `maintenance`, `closing`, one goroutine per run | StartTask, run with retries, StopTask, launch, Close, CheckUpdateBlockers, PrepareForUpdate, CancelUpdateMaintenance | The row is written between two critical sections; a usage run calls StartTask from inside its own goroutine; maintenance and shutdown begin anywhere | One run per task, every live row owned, an update waits for everything it promises, nothing outlives Close |
| Rows (`storage/store.go`) | `task_runs`, `accounts`, `redeem_configs`, `redeem_states`, `scheduler_claims` | AddRun, UpdateRun, reset at start, delete, Claim | The database survives a crash, the maps do not | Verdicts are final, live rows end |
| Keepalive (`manager.go` 393-735) | `clients`: status, context and worker count of an account | reconcile loops, RestartKeepalive, startAccount, stop, setState | Loops act on accounts they read before; a session registers, logs in for minutes and writes its state later | One reachable session per account, none after Close, none during an update, wanted ones come back |
| Redeeming (`manager.go` 1380-1600, 1690-1778, `web/server.go` 890-990) | configuration, order state, day claims | validate, save, redeemDue, redeem, ResolveRedeem | The result of an order may be unknown; manual, chained and scheduled starts, midnight, crashes | No order on top of an unknown one, one automatic order a date |
| Cron scheduler (`manager.go` 737-800, 1661-1757, `storage/store.go`) | last tick, claims, keepalive settings | ticks every 20 s, cron tasks, keepalive windows, daily redeem, expiry reminders | The window and the claim have different granularity; a window may cross midnight | An occurrence is served, no minute starts its task twice, the connection follows the clock |
| Device verification and login caches (`manager.go` 230-390, 480-600, 800-870, 1600-1660) | two cache tables, two kinds of clients in memory, device status | BeginVerification, CompleteVerification, client, ClearNativeAuth, edits, deletion | A login that was begun with the old password saves after the caches were cleared | No cache outlives the credentials it came from, but for a login under way; a status rests on what the platform said |
| Clink (`ctyun/clink.go`, `manager.go` 1015-1200) | one websocket, heartbeat, usage and login tasks that run it | connect, refresh, yield on preemption, one-shot activation, 80 minutes of usage | Timers, cancelled contexts and remote closes meet in one loop | One heartbeat, nothing outlives the one who wants it, a preempted client yields |
| Platform clients (`ctyun/client.go`, `native.go`, `eai/client.go`) | tokens | requests | An answer can be lost after the platform acted | An order is never repeated by the client |
| Update installation (`web/server.go` 1380-1800, `update/manager.go`, `main.go`) | the manager's flag, lock and progress, `update_history`, maintenance | checks, runUpdateInstall, hand-off, ticks | An installation of many steps, each of which can fail, and reports that arrive at starts and ticks | One job at a time, the executor finds what it needs, an update gets its verdict |
| Web pages (`web/server.go`) | cookies | rendering, settings forms | sequential | - |
| Update check, download, extraction, retention (`update/`) | files | sequential | I/O | Signatures and sizes are checked before use |
| Update lock, requests, results (`update/lock.go`, `request.go`, `apply.go`) | files | acquire, hand off, take over, release, write and consume results | Two processes, stale owners, atomic and other replacements | One installation at a time, each result told once |
| Launcher (`cmd/ctyun-keeper-launcher`) | `current` link, pending file | consume a request, switch, run, health check, roll back | A crash at any point | A version that runs, with the database that belongs to it |
| Windows updater (`cmd/ctyun-keeper-updater`) | backup directory, installed files | wait, back up, replace, start, check, restore | The same, without links | The same |
| Release tool, security helpers, assets, packaging | - | - | sequential | - |

How they interact: web handlers, the scheduler and finished usage runs call
StartTask; handlers and the scheduler call the reconcile loops; a usage run counts
on the account's keepalive session; a successful usage run starts the redeem task;
runUpdateInstall asks the manager to become quiet and then hands the lock and a
request to the executor; main closes the web server (and with it the installation),
then the manager, then the database; the next start resets the rows left over.

The hazards, each at its line with the properties aimed at it, are in `PROJECT.json`.

## Modules

### TaskManager

One account's or several accounts' tasks. A step is what one goroutine does between
two points where another can come in: a critical section of `Manager.mu`, one SQL
statement, one wait for the platform.

| TLA+ | code |
|---|---|
| `maintenance`, `starting`, `active` | the fields of Manager guarded by `mu` |
| `life`, `scheduling` | `Manager.ctx`, `closing`, the scheduler's loop; `down` between two processes |
| `run`, `pc`, `attempt`, `verdict`, `stopped` | StartTask's frame, the run goroutine's locals and its context |
| `row`, `order`, `accounts` | `task_runs.status`, `redeem_states.last_attempt_status`, `accounts` |
| `prep` | how far runUpdateInstall and PrepareForUpdate have come |
| `StartTask`, `AddRun`, `AddRunFails`, `EnterTask`, `RefuseTask`, `LaunchRun` | StartTask: reservation, INSERT outside the lock, second critical section, refusal with its row update, launch |
| `BeginRun` ... `LeaveActive` | run: attempts, the 10 minutes between them, the redeem order's pending row and its end, the chained StartTask, final UpdateRun, delete from `active` |
| `CheckTasks` ... `HandOff` | CheckUpdateBlockers, PrepareForUpdate's loop, the failures of runUpdateInstall, the hand-off |
| `ResultArrives` ... `InstallAgainFails` | what a tick makes of a result: RefreshUpdateResult ends maintenance, or another job has replaced the progress that it goes by |
| `CloseCancel` ... `Restart` | Close, exit or crash, Store.Init's reset |

Abstractions: what a task does on the platform is its outcome; the chained redeem
task is due whenever its order is not pending (Redeem has the dates); UpdateRun never
fails (its error is ignored by the code, and a row it did not write is reset at the next
start); the purge of old finished rows is left out. A call that PrepareForUpdate
refused may write `interrupted` after PrepareForUpdate returned: `PreparedIsQuiet` does
not count that write. The executor may report or not: nothing makes `ResultArrives`
happen, so `MaintenanceEnds` ends at the hand-off, and begins again with a result. An
installation that another job has overtaken keeps maintenance until that
one, or a later one, fails (`ResumesAfterFailure`, Divergences).

### Keepalive

The `clients` map, the sessions made by startAccount, and all that starts or stops
them. A session is one startAccount call with the context it makes; `entry[a]` refers
to the session that wrote `clients[a]`; `alive` holds the contexts not cancelled.

| TLA+ | code |
|---|---|
| `TickKeepalive`, `RestartKeepalive`, `ClearClients`, `Reconcile`, `StopKeepalive`, `WriteIdle` | reconcileKeepalive and RestartKeepalive: read the accounts, then per account a read lock, and later a launch, a stop or an idle status |
| `Register` ... `DesktopsDone`, `CheckContext`, `WriteState` | startAccount; setState is two steps, its test of the context and its write under `mu` |
| `ConnectionEnds` | RunClink returns |
| `UsageStarts`, `UsageEnters`, `UsageEnds` | the usage task of the account, which TaskManager has in detail |
| `BeginPrepare` ... `InstallFails`, `CloseCancel` ... `CloseDone` | maintenance and shutdown |

Abstractions: whether an account wants keepalive (mode, window, weekday, device
status) is membership in `wanted`; logins and desktops are outcomes; one wake-up
notice stands for the several that waitForDesktopRunning sends; Manager.client, which
writes an entry without a context, leaves what `NoEntry` stands for; Start's own
RestartKeepalive is the first tick; StartTask's second critical section and its launch
are one step (`UsageEnters`). A tick finds the goroutines launched by the tick before
registered: nothing between `go` and the first lock waits, and 20 seconds lie between.
Without that guard two goroutines of one account could be held up for ever more ticks,
and only the bound on sessions would end the model.

`UnwantedStops` asks that nothing is left of a session nobody wants: no entry, no
startAccount under way, no connection. Excepted is a connection whose session
`clients` no longer holds, which only setState's stale write can cause
(`EverySessionIsReachable`, Divergences): it stays until Close, whatever the loops do.

### Redeem

One account's points: configuration, order state and claims in the database, two
starters (the tick at 06:05, the end of a usage run), the task, save handlers, the user
who resolves an unknown order, midnight, crashes. One redeem task at a time is what
`OneTaskPerKey` of TaskManager shows, so `run` is one record. The history variables
(`unanswered`, `hasty`, `dates`, `blocked`) record what the platform was
sent and what the user did; no guard reads them.

Abstractions: product, price, points and desktop checks are one outcome
(`CheckFails`); an error *answered* by the platform means that it took no order; the two
reads of validateRedeemTarget are one step; days do not pass while a starter is
between its two queries; deletion of the account is in TaskManager. Whether the
interval has passed is asked by redeemDue only: the task does not ask again (a
hazard in `PROJECT.json`).

### Launcher

The container's executor and the files it shares with the program. A step ends at a
file operation; `Stop` ends the launcher, and with it the program, after any of them,
and only the files are left.

| TLA+ | code |
|---|---|
| `link`, `db`, `backup` | `runtime/current`, `ctyun-keeper.db` with its WAL, `updates/backups/<version>/database` |
| `journal`, `lock`, `request`, `told` | `updates/pending.json`, `update.lock`, `install-request.json`, the transaction's result file |
| `stage`, `tx` | where the launcher (or the program it runs) is, its local variable `pending` |
| `StartClean`, `StartPending`, `HandOffBegun` | main up to line 99: the lock of a start with and without a journal |
| `KeepCurrent`, `SelectImage` ... `HandOffNew` | selectStartupVersion, the copy of the database and the journal of an image transaction |
| `Prepare` ... `SwitchCurrent` | preparePending |
| `RunProgram`, `Healthy`, `MarkCompleted` ... `CompletionFails` | runProgram, WaitForHealth, completePending, whose four writes are four steps |
| `Unhealthy`, `SwitchBack` ... `SaveRecovery` | a failed health check: link, database, recovery journal |
| `InstallBegins` ... `ExitForUpdate` | runUpdateInstall as far as it writes these files |
| `ConsumeRequest` ... `ApplyFails`, `InstallRejected`, `ReleaseRejected` | consumeRequest, FinalizeDatabaseBackup, applyUpdate; a failed one removes its journal, then tells, then releases the lock |
| `ImageChanges`, `LockRemoved` | not in the repository: the container is made again from another image; somebody removes the lock file that keeps a launcher from starting |

Abstractions: `launcher.lock` (flock) admits one launcher to a data directory, so there is
one. A version is a number, its directory is undamaged, and its builtin program is
never older in a later image. What a database holds is the set of versions that have
opened it, whether it was cut off while it was copied (`torn`), and whether a program created
it empty (`fresh`). Paths, signatures and package contents are not modelled: a
request that fails one of these checks is `InstallRejected`, which can always happen.
The very first start, which has no link, and the progress file are left out; the
way of a result into the history table is in UpdateInstall and WindowsUpdater.

The refinement: the version is where `link` leads, a program serves in `UpStage`, the
data are what has opened `db`, and the transaction is `pending.json` with its
completion marker as the decision. The decision is not final (`Final <- FALSE`):
a marked journal that could not be removed is run again at the next start.

### UpdateTransaction

What an update promises whoever carries it out: program and data change only within a
transaction and while no program serves; it is decided only when the version it names has
run; it closes only when that version is what runs next; and no program serves on data
of a newer one. It has no counterpart in the code but the two journals, so its
definitions are the property and not a model.

### WindowsUpdater

The program, the helper that replaces its files, and the files between them. Either
process can be gone after each file operation (`ProgramCrashes`, `HelperCrashes`).

| TLA+ | code |
|---|---|
| `app`, `db`, `backup` | the installed executable, texts with `static`, and helper; the database; `updates/backups/<version>` |
| `journal`, `lock`, `result`, `row`, `req` | `windows-transaction.json`, `update.lock` with the process it names, the result file, `update_history`, `install-request.json` |
| `ProgramStarts` ... `Interrupt` | run of ctyun-keeper: StartPendingWindowsRecovery, FinalizeCompletedWindowsTransaction, storage.Open, consumeUpdateResults, InterruptUnfinishedUpdates |
| `Tick`, `InstallBegins` ... `Shutdown` | the ticker; runUpdateInstall from Begin to requestShutdown |
| `TakeOver` ... `WriteTransaction` | run of the helper: lock, waiting, service stop, FinalizeDatabaseBackup, verification, backup of the files, journal |
| `MoveAway`, `MoveIn` | atomicReplaceFile and atomicReplaceDir, per part, in the order of `replace` and of `restore` |
| `RestoreDatabase`, `RestoreDone` | RestoreDatabaseFile and the row that comes back with the old database |
| `StartProgram` ... `Release` | start, WaitForHealth, CompleteWindowsTransaction, result, journal, the deferred release of the lock |

Abstractions: executable, helper and everything else (`static`) are three parts; a
package is verified or the step fails; `supervised` (service manager or plain
process) is fixed at the start. Nobody but the helper starts the program while a helper
lives; a program that ends on its own is started again only then. The transaction here
is final once decided.

### UpdateInstall

Checks and installations as the running program sees them: the update manager, the jobs,
the rows, the maintenance flag and the tick of the main loop. The executor is reduced
to what the program can see of it.

| TLA+ | code |
|---|---|
| `active`, `held`, `progress`, `lock` | update.Manager's fields and the lock file |
| `BeginCheck`, `PerformCheck` | checkUpdate |
| `InstallBegins` ... `HandOff`, `Launch`, `LaunchFails`, `StepFails` | runUpdateInstall, LaunchUpdater, its `fail` closure; Docker writes the request, Windows starts the helper |
| `journal`, `executor` | `pending.json` or `windows-transaction.json`; how far the launcher or the helper has come |
| `LauncherRuns`, `LauncherRejects` | the launcher consumes the request, or finds it, its token, the lock or the backup not valid |
| `TakeOver`, `RefuseRequest` ... `HelperWorks` | the helper up to apply; it ends without a result when the request cannot be read, is not valid or cannot be removed |
| `LeaveUnchanged` ... `CompletionFails` | the replacement, the trial of the new program, the restoration, the trial of the old one, and the failure of each |
| `ExecutorReports`, `ExecutorLeaves` | result and transaction file; the lock, which a launcher that gives up with an open journal keeps |
| `ExecutorCrashes`, `RecoveryStarts` | the executor dies; the next launcher, or a program that ticks or starts, finds its transaction |
| `ProgramEnds`, `ProgramStarts` | shutdown or crash; at the start Init, clearing of a stale lock, ConsumeInstallResults, InterruptUnfinishedUpdates |
| `TickConsumes`, `RefreshReads`, `RefreshFinishes` | the tick every 2 seconds: results into rows, then RefreshUpdateResult, whose reads and Finish are two steps |

Of the executor nothing is left out that the program can see: it may end without a
result, with one that it could not write, with no program to start, or with
a transaction that only a recovery ends. `silent` is the set of installations
whose executor ended without a result since the program last started by itself, and it
is what `UpdatesEnd` excepts: under a service manager such a program runs on with
the row unfinished, until its next start marks it as interrupted. Rows with a
result, rows whose job failed in the program, and rows found at a start
end. The property is conditional (`[]<>(tick = "consumed")`), because an executor can
also leave nothing to start (`RestoreFails`), or a transaction that every recovery fails
at: then no program ticks, and no row changes.

`raced` is a history variable: a tick has called Finish after it read the state of
another job (see Divergences). `OneJobAtATime` and `ExecutorHasVerified` hold of
every behaviour in which this has not happened, and `OneJob` shows that it can.

### DeviceAuth

One account's logins. The row names the credentials in force; what a login answered
is kept in two tables and two places in memory; keepers, tasks and page requests are
processes.

| TLA+ | code |
|---|---|
| `row`, `web`, `native` | `accounts`, `account_auth_cache`, `account_native_auth_cache` |
| `session`, `object`, `shared`, `verify` | `clients[id]`, the native client objects, `nativeClients[id]`, `verify[id]` |
| `Reconcile`, `Claim` ... `KeeperAgain`, `StopAccount` | reconcileAccountKeepalive, startAccount with its second login |
| `ReadAccount` ... `Call` | client and nativeClient, the tasks that use them, and what they do with an expired login |
| `Save`, `Delete`, `ClearWeb`, `ClearNative`, `ClearShared`, `RestartKeepalive` | the account handlers: the row first, then each cache |
| `StartVerification` ... `Bound`, `VerificationExpires` | BeginVerification, CompleteVerification, with its ten minutes |

Abstractions: user, password and device code are one credential. `Device[c]` is its
user and device code, which SaveAccount compares to decide whether the device status is
kept; the platform has bound a credential or not (`bonded`, external). An object that
nobody refers to is collected, so that one object suffices beside one task: a task makes
its own only while the map has none, and the map gets none but a task's. Its
specification is `AuthSpec`, its initial states `AuthInit`.
`late` marks, for the properties, what was stored after the row had changed.

### DesktopSession

The loop of runClink and the three that run it: keepalive, a usage task, a login
task. Time passes in ticks, and none passes while a loop has something to do at once.

| TLA+ | code |
|---|---|
| `loop[k]` | one runClink goroutine: place, deadlines, `activated`, the heartbeats of its connection |
| `alive` | the contexts that are not cancelled |
| `Cycle`, `Refresh`, `Dial`, `DialFails`, `Message`, `Activate`, `Preempt`, `ReadFails`, `PauseEnds`, `InfoIncomplete` | the loop; types 103, 119, 120 and 137, deadlines and close codes, and connection data without a desktop or host, which end it |
| `KeepStarts` ... `KeepCancelled` | startAccount, RestartKeepalive, PrepareForUpdate |
| `UsageReuses`, `UsageConnects`, `UsageEnds` | runUsage (which reuses a session by its worker count), waitUsage and the deferred cancel |
| `LoginConnects`, `LoginReturns` | activateDesktopLogin, 45 seconds |
| `Tick` | time |

`since` and `over` measure, for the properties, the time since a preemption and since the
context was cancelled. Left out: message bodies, certificates, and a usage task that
begins while an earlier temporary connection is still letting go.

### Scheduler

One account, one daily task, its Cron plan and its keepalive settings. Time is
in seconds; a plan is the set of seconds it names; the ticker's phase is open.

| TLA+ | code |
|---|---|
| `Accepted`, `Saved` | validateKeepaliveSettings, the normalizations of SaveAccount |
| `KeepaliveActiveAt` | Account.KeepaliveActiveAt, with the day before for the morning of a window |
| `Due`, `Claim`, `Tick` | the Cron window of Manager.scheduler (one minute and one second back), Store.Claim, a tick of it |
| `AskPlatform`, `AskFails`, `StartTask`, `Released` | startScheduledTask: the platform is asked, the task started, the claim released if an update refused it or its row could not be written |
| `StartManually`, `RunEnds`, `MaintenanceBegins` ... `ProgramStarts` | what the other modules have in detail |

`served`, `excused`, `runs` and `begun` are history variables. Daylight saving, and a clock
that is set, are left out.

## Runs

| Run | Instance | Shows |
|---|---|---|
| `tasks_chain` | 1 account, types pc and redeem, 3 rows, 2 attempts | `OneTaskPerKey`, `LiveRowsAreOwned`, `ClosedIsQuiet`, `PreparedIsQuiet`, `VerdictsStand`, through overlaps, retries, stops, deletion, installation, shutdown, crash and restart |
| `tasks_live` | pc and redeem, 2 rows, fair | `RunsEnd`, `MaintenanceEnds` |
| `keepalive` | 1 account, 1 desktop, 1 web handler, 2 sessions, 3 changes | `ClosedIsSilent`, `LoopsKeepSessions`, `UpdateSparesUsage` |
| `keepalive_live` | 3 sessions, 1 change, fair | `WantedRuns`, `UnwantedStops` |
| `redeem` | 1 target, 1 handler, interval 2, 3 days | `OrdersWait`, `AutomaticOncePerDate`, `RiskControlStops` |
| `launcher` | 3 versions, 3 images, 5 installations or image changes | `ResultsAreTrue`, `JournalExcludesInstall`, `ImplementsTransaction` |
| `windows_updater` | 3 versions, 2 installations, 2 crashes | `ServesWhole`, `HistoryIsTrue`, `ImplementsTransaction` |
| `update_install` | 2 jobs at a time of 4, releases 1 to 3, 2 installations, fair | `OneJobAtATime`, `ExecutorHasVerified`, `UpdatesEnd` |
| `auth` | 3 credentials, two of them of one device, 1 keeper, 1 task, 1 page request, 1 object, 1 edit; the account begins with one of the pair | `OldLoginsAreCleared`, `VerifiedOnEvidence` |
| `auth_sticks` | the same, no edit | finding: `BindingSticks` |
| `session` | 1 keepalive loop beside the temporary and the handshake one; delays of 1, 1, 2, 5, 1, 1, 1 and 2 ticks | `NothingOutlives`, `Yields` |
| `scheduler` | Sunday 23:58:30 to Monday 00:03:30, a plan with 00:00:00 and 00:02:00, 1 change | `OccurrencesServed`, `OneRunPerMinute`, `WindowsBelongToTheirDay` |

Every run but `tasks_live`, `keepalive_live` and `auth_sticks` checks its module's `TypeOK`
(`AuthTypeOK` in `auth`), too.

Why the bounds are enough. *Accounts*: tasks and sessions of different accounts share
only the maintenance flag and the life of the process; the proofs hold for any set of
accounts. *Rows*: three allow two calls for one key beside the chain that makes a
third; a fourth run meets the same reservations. *Attempts*: with two there is a
first, a wait and a last one; the code has three. *Sessions*: two suffice for a session
and the one that replaces it, three where a leaked session also occupies a place
(see `EverySessionIsReachable`): with two places the liveness run would only find
that places run out. *Changes* (`MaxChanges`) counts what users, clock, device status
and updates do; the automatic steps (ticks, logins, a login that finds the device
unbound, failures of an update) are not counted. In the fair run one change comes on top of a
free initial `wanted`; a login that finds the device unbound withdraws the wish
without counting, so a stop deferred by a usage task does occur. *Days*: three
contain an interval of two and its boundary. *Task types*: `tasks_chain` has the two that chain; that
PrepareForUpdate waits for the short ones (login, chat) too is in the theorem
`QuietWhenPrepared`, which holds of every set of types. *Versions*: the second
of three needs a newer launcher than one of the images has, and the third comes with an
image, so that a version can be kept, overtaken by an image, or left behind by one;
five changes allow an installation, a rollback, a change to an older launcher, the
way back, and one more of each kind on what that left. In `windows_updater` two
installations give a backup to the version that the second one replaces, and two crashes
an interrupted recovery of an interrupted installation. *Jobs*: with four there are
two installations and a check before, between or beside them. *Credentials*: an
edit replaces one by another, of the same device (the password) or of another; with no
edit left, the old ones can be saved again by nobody. An account that begins with
the third has no other credential of its device: it is left out (`BeginsWithThePair`),
since an account that begins with one of the pair can make that edit too. *Delays*: the longest connection outlives a read, yielding outlives both, and the
others are as short as they can be; the theorems hold for all delays. *Time*: the
window of a plan is 61 seconds, its claim 60, the ticker's period 20, so that four
minutes with every phase of the ticker have every overlap of the three; the settings
are windows that begin or end at the minutes around midnight, on Saturday, Sunday,
or Sunday and Monday, always, and never.

Deadlock is checked in `session`, where time never stops. CHECK_DEADLOCK is off
elsewhere, since every bound (rows, changes, days, jobs, time) lets a finished model
stop.

Fairness. TaskManager: calls and runs go on because every wait of theirs has a
deadline or ends with the context; the installation goes on (its polling ends because the
runs it polls for do, or by its deadline); the main loop ticks, so that
RefreshUpdateResult sees a result that is there; a shutdown that began goes on; a stopped
program is started again (`--restart unless-stopped`, `README.md:35`). Nothing is assumed of
users, of StopTask, of the platform's success, or of the executor: no result has to come. Keepalive: the scheduler ticks,
loops and sessions go on; a connection ends only if its context is cancelled;
usage tasks end (80 minutes at most). UpdateInstall: a job goes on because its network
calls and the wait for tasks have timeouts; the executor has its own (two minutes to
wait, one for health), and each of its steps may be one that fails or ends it; the main
loop ticks; a program that was told to end ends. That a stopped program is started
again, or a recovery begun, is not assumed: `UpdatesEnd` says what holds if programs
tick for ever. Crashes, checks and installations are not forced, and no step is assumed
to succeed. The other modules claim safety only.

## Findings

`auth_sticks`, which TLC must find violated: `BindingSticks` (`manager.go:1653`).
CompleteVerification makes the account verified and restarts keepalive, but leaves in
`account_auth_cache` the web login of before the binding. startAccount takes the profile
from there, finds it unbound and makes the account pending again, after the page has said
that keepalive started.

### Divergences

Ten more statements of comments, messages or tests do not hold of the code. Each is a
property of its module with a configuration of its own, in which TLC finds the
counterexample: `tlc -config MCKeepalivePrepared.cfg MCKeepalive`, and so on.

| Property | Configuration | Module |
|---|---|---|
| `PreparedStopsKeepalive` | `MCKeepalivePrepared.cfg` | `MCKeepalive` |
| `StopSparesUsage` | `MCKeepaliveStop.cfg` | `MCKeepalive` |
| `EverySessionIsReachable` | `MCKeepaliveReachable.cfg` | `MCKeepalive` |
| `OrdersAlwaysWait` | `MCRedeemResolve.cfg` | `MCRedeem` |
| `JournalCanBeTakenOver` | `MCLauncherLock.cfg` | `MCLauncher` |
| `DatabaseSurvives` | `MCLauncherRestore.cfg` | `MCLauncher` |
| `RecoveryFindsLock` | `MCWindowsUpdaterLock.cfg` | `MCWindowsUpdater` |
| `ResumesAfterFailure` | `MCUpdateInstallResumes.cfg` | `MCUpdateInstall` |
| `OneJob` | `MCUpdateInstallOneJob.cfg` | `MCUpdateInstall` |
| `OccurrenceOnce` | `MCSchedulerOnce.cfg` | `MCScheduler` |

- `PreparedStopsKeepalive` (`manager.go:489`): startAccount never looks at
  maintenance. A goroutine launched just before PrepareForUpdate registers after it
  and connects.
- `StopSparesUsage` (`manager.go:443`): the end of a keepalive window asks for a usage
  task under the read lock and stops the session later; a usage task that enters in
  between loses it.
- `EverySessionIsReachable` (`manager.go:725`): setState tests its context before it takes the
  lock. Cancelled in between, an old startAccount writes itself over its live
  successor; that session can then be cancelled by Close only, and the next tick
  connects the desktop a second time. Every other step keeps or cancels the session
  it replaces (`LoopsKeepSessions`).
- `OrdersAlwaysWait` (`manager.go:1765`): the pending row precedes the order, and
  ResolveRedeem asks for nothing else, so an order in flight can be resolved. If its
  answer is then lost, the next task orders again. `OrdersWait` holds: it excludes exactly
  this.
- `JournalCanBeTakenOver` (`main.go:757` of the launcher): the journal is written, then its
  token into the lock. A launcher that ends in between refuses its own journal at
  every later start, since the lock has another token; only a start without a journal
  clears a left-over lock.
- `DatabaseSurvives` (`update/apply.go:88`): RestoreDatabaseFile renames the database
  away and then the copy in. A launcher that ends in between starts the new version
  without a database; it creates an empty one and can be told a success. The data is
  still in the backup, but nothing in the program goes back to it then.
- `RecoveryFindsLock` (`main.go:61` of the helper): the deferred release frees the lock even
  when a restore has failed. `--recover` needs the lock of that token, so every later
  start of the program begins a recovery that ends at once, and the program with it.
- `ResumesAfterFailure` (`web/server.go:1734`): RefreshUpdateResult leaves maintenance only
  while the progress says stopping or rolling back. A check that begins after the helper
  failed and before the tick replaces the progress, and maintenance stays on.
- `OneJob` (`web/server.go:1743`): the tick reads progress and row, and then calls Finish;
  an installation that began in between loses its lock, and a third job can begin.
- `OccurrenceOnce` (`manager.go:1695`): a tick claims its own minute, not the occurrence's,
  and looks back a minute and a second: the tick exactly 60 seconds after an
  occurrence finds it again. If the platform has not credited the first run by
  then, the task is started a second time.

## Proofs

`TaskManagerProofs` proves, for all values of the constants that satisfy the three
assumptions of TaskManager:

| Theorem | Property |
|---|---|
| `TypeCorrect` | `TypeOK` |
| `OneTask` | `OneTaskPerKey` |
| `RowsOwned` | `LiveRowsAreOwned` |
| `QuietWhenPrepared` | `PreparedIsQuiet` |
| `QuietWhenClosed` | `ClosedIsQuiet` |
| `VerdictStands` | `VerdictsStand` |

None of them is inductive alone. `OneTaskPerKey` needs to know that a key is held
either by one reservation or by one active run, never both, and that a
call whose row is written still holds its reservation (`KeyInv`, `CallInv`).
`LiveRowsAreOwned` needs the relation of a row to its run's stage (`RowInv`) and that
`active` is exactly the runs between the second critical section and the final delete
(`ActiveInv`). `PreparedIsQuiet` needs that once PrepareForUpdate has seen no
call and no run, the flag keeps new ones away, and that with no run nobody makes an
order pending (`MaintenanceInv`). `ClosedIsQuiet` needs nothing more than that the
scheduler is gone and a closed launch drops its run. The conjunction `IInv` is inductive:
one lemma per group of actions, one step per action, one leaf per conjunct the action
disturbs. `DownInv` (a dead process runs nothing) is an invariant of its own, because
its proof needs only the guards. `VerdictStands` follows from `RowInv`: every
action that writes a row does so at a stage where the row is live.

`DesktopSessionProofs` proves, for any number of keepalive loops and all positive delays
and deadlines:

| Theorem | Property |
|---|---|
| `TypeCorrect` | `TypeOK` |
| `NothingIsLeft` | `NothingOutlives` |
| `PreemptionYields` | `Yields` |

That a cancelled loop is off in time is not inductive: what is (`Timely`) is that the
time since the cancellation and the time the connection has left never exceed a
connection's life, and that once its life is over the excess is silence, which the read
deadline bounds. That elsewhere nothing is over holds because a tick waits for all
that is urgent. `PreemptionYields` rests on `WaitInv`: a loop that is not
pausing has waited since its last preemption, and one that pauses has waited all
but what is left of the pause. `LongestBounds` shows that the CHOOSE of `Longest` exists.

`AccountProofs` is about what is kept of one account, its order and its logins. It extends
`Redeem` and `DeviceAuth`, which share no variable and are two specifications (`Spec` and
`AuthSpec`) with an inductive invariant each. Of Redeem it proves, for every interval and
any number of days:

| Theorem | Property |
|---|---|
| `TypeCorrect` | `TypeOK` |
| `NoSecondOrder` | `OrdersWait` |
| `OneAutomaticOrder` | `AutomaticOncePerDate` |
| `RiskControlHolds` | `RiskControlStops` |

`IInv` relates the pending row to the stage of the task, through the crash that
leaves the row and takes the task. `OrderInv`: an order that is sent, or whose answer
is missing, has its row pending unless the user resolved it in flight, and a task that
has passed its check finds none pending. `DateInv`: no order is dated after the last
attempt, and an automatic task that passed its own date check has a date on which
nothing was ordered; the check of redeemDue alone would not give that, because the
task may begin after midnight or after a manual order. `RiskInv`: between risk
control's answer and the write that disables redeeming the row is pending, and that
alone stops the next order if the program ends there.

Of DeviceAuth it proves, for any credentials, keepers, tasks, requests, objects and edits:

| Theorem | Property |
|---|---|
| `AuthTypeCorrect` | `AuthTypeOK` |
| `OldLoginsGo` | `OldLoginsAreCleared` |
| `VerifiedByThePlatform` | `VerifiedOnEvidence` |

`OldLoginsAreCleared` speaks of the shared client, whose profile a task can change while
others hold the same object. `AuthInv` therefore says who may refer to what: an object that
the map or a task refers to is a client (`ClientInv`), so that no step revives one that
was collected, and the lemma of the tasks (`TaskKeeps`) has every step leave the
credentials of a referred object alone and its profile at nothing, at what it was, or at a login
of these same credentials. `WorkInv` gives every process the credentials it read before.
`BondInv` is what evidence is: a profile that says "bound" names credentials that the
platform has bound, in the table, in a keeper's hands, or at the end of an SMS
verification, and the platform forgets none; from that the action property follows for
each writer of `device_status`. The assumptions are that nothing (`None`) is told from a row
and an object, and that the bound on edits is a number.

`KeepaliveProofs` proves, for any numbers of accounts, sessions, desktops and requests:

| Theorem | Property |
|---|---|
| `TypeCorrect` | `TypeOK` |
| `CloseIsFinal` | `ClosedIsSilent` |
| `PrepareSparesUsage` | `UpdateSparesUsage` |
| `LoopsLoseNothing` | `LoopsKeepSessions` |

`TypeOK` bounds the counters of a session by the number of desktops, and that is not
inductive: `CountInv` says that the connections made and the desktops not yet handled
never exceed it, and that a session that has not begun its loop, or is done with it, has
none. `QuietInv` says what PrepareForUpdate's last look at the tasks is worth: while
maintenance is set no usage task enters, so none is active when the sessions are
cancelled. `LoopsLoseNothing` goes through every action that writes `clients`; the
one left out, setState's write, is where the property fails without its proviso (see
Divergences).

`UpdateInstallProofs` proves, for any versions, jobs and installations, in the
container and outside:

| Theorem | Property |
|---|---|
| `TypeCorrect` | `TypeOK` |
| `OneJobWorks` | `OneJobAtATime` |
| `PackageIsVerified` | `ExecutorHasVerified` |

Both safety properties have a proviso, `raced`: a tick has ended another job than the
one it saw fail (Divergences). The invariant has it too, and says without it whose turn
it is (`TurnInv`): a busy worker holds the flag of `update.Manager` and the lock file
by its own token, after the hand-off the executor has that token and the flag is
gone, in the container a program that is to exit stands for its launcher, and a
recovery begins when it is nobody's turn. `PackageInv`
follows one installation from the verified staging to the executor: nobody
else downloads, backs up or writes a request as long as it is its turn. `RowInv` and
the types hold in races as well.

`LauncherProofs` proves, for every set of versions, images and minimal launchers:

| Theorem | Property |
|---|---|
| `TypeCorrect` | `TypeOK` |
| `TrueResults` | `ResultsAreTrue` |
| `NoInstallOnJournal` | `JournalExcludesInstall` |
| `Implements` | `ImplementsTransaction` |
| `ServesReadableData` | (of no run) what serves can read its database |

The invariant says at each stage what a crash there would leave for the next launcher.
`HandInv`: the launcher has in hand what the journal says, or has not written one or has
removed it. `LockInv`: the lock is held as long as there is a journal, which is
`JournalExcludesInstall`. `TransactionInv`: a journal names two different versions, a
saved database that the first can read, and a directory that holds the second.
`LinkInv` and `DataInv`: where the link points, and that the database can be read by
the version that runs next, whether that goes on or goes back. `ResultInv`: the history
names the versions of the journal, and a result is told after what it tells is done.
A recovery that ends in the middle of a recovery needs all of them. `Implements` maps
every step to one of UpdateTransaction, or to a stutter (`StartRefines`, `RunRefines`,
`InstallRefines`, `ContainerRefines`). `ServesReadableData` is what that is good for: the launcher
serves only data it can read, because every step of its own is a step of
UpdateTransaction, whose guards keep it so (the lemma `ReadableData`).

`WindowsUpdaterProofs` proves, for every set of versions and any numbers of installations
and crashes:

| Theorem | Property |
|---|---|
| `TypeCorrect` | `TypeOK` |
| `ServesWholeFiles` | `ServesWhole` |
| `HistoryHolds` | `HistoryIsTrue` |
| `Implements` | `ImplementsTransaction` |

The invariant says what the files are worth at each place of the helper, since any of them
may be the last before a crash. `LockInv` and `TurnInv`: the owner of the lock is the one whose
turn it is, and its token is that of the installation the request, the helper, or the
journal names; a program runs beside a helper only at the places where the helper has
it tried. `JournalInv`: while files change, the journal is that of the request in hand and
undecided. `FileInv`: without an open transaction the files are whole and the
database fits them; within one (`Recoverable`) every part comes from one of the two versions
or is away, and the backup of the first is complete, database included. Only then
can `--recover` begin, which needs the lock of that token. `ProgressInv`: how many parts are
replaced, in the order of `replace` or of `restore`, which differ, so that with the third one
the application is whole (`PartReplaced`). `HistoryInv`: a decision is in the row, or in
the result file from which the row will get it, as long as the journal is there or after,
and nobody begins another installation before it has arrived. `IInv` is inductive, one lemma
per group of actions and one leaf per part of the invariant. `Implements` maps every step to
one of UpdateTransaction or a stutter (`ProgramRefines`, `HelperRefines`, `CrashRefines`), here
with a final decision: `Decide` is `Complete`, at which `ProgressInv` says that the version
decided on has opened the database.

`SchedulerProofs` proves, for every plan, phase of the ticker, set of forms and bound:

| Theorem | Property |
|---|---|
| `TypeCorrect` | `TypeOK` |
| `OneRun` | `OneRunPerMinute` |
| `EveryOccurrenceServed` | `OccurrencesServed` |
| `ConnectedInWindow` | `WindowsBelongToTheirDay` |

`OneRun` rests on `ClaimInv`: a goroutine holds the claim of its minute and has
started nothing, and a claim whose run was started is never released.
`EveryOccurrenceServed` is about one minute against ticks of 20 seconds and a window of 61.
An occurrence that waits may lose its minute's claim to the occurrence before it:
`ServedInv` shows that this happens only if a tick falls on its very second, and
then the tick at 60 seconds still sees it and finds the next minute unclaimed.
`ConnectedInWindow` compares KeepaliveActiveAt, which looks at today and yesterday, with
windows counted from where they begin (`WindowIsWanted`), for any weekday to begin with.
The proofs use that occurrences are whole minutes of the modelled time
(`PlanAssumption`: Cron's resolution), what a form can hold (`FormAssumption`), and that the
modelled time is longer than a tick (`TimeAssumption`).

The bounds of the models (`MaxSessions`, `MaxJobs`, `MaxInstalls`, `MaxChanges`, `MaxDays`,
`Horizon`) are constants that the theorems hold for all values of; no proof uses that one
is small.

Only model-checked: the liveness properties of TaskManager, Keepalive and UpdateInstall
(`RunsEnd`, `MaintenanceEnds`, `WantedRuns`, `UnwantedStops`, `UpdatesEnd`), since fairness and
ENABLED are out of the prover's reach; and the findings and divergences, whose
counterexamples TLC gives. Every other property of a passing run is a theorem.

## Plan

All modules of the plan stand, and every safety and action property of their runs is
proved. What could be added:

1. An abstract specification of the installation in the program (UpdateInstall), with the
   executor as its environment, that Launcher and WindowsUpdater discharge; now the
   three are checked and proved side by side, and agree on the files they share.
2. Properties for the hazards in `PROJECT.json` that have none. Most of them are divergences
   today, so a property of a run would follow a change of the code.
3. Retention of old backups and packages (`update/`), once it runs beside an installation.

Liveness stays with TLC. So does anything that needs what a recursive definition
computes for every input.

## Not modelled

- Page rendering, settings forms, cookies and rate limits: request handling without
  state that others decide on. The handlers that call the manager are actions of
  the modules above.
- RefreshStatus, catalogs and the log cleanup of a new day: they write what is shown. The
  purge of finished rows is left out for the same reason.
- Download with resumption, archive extraction, retention of old packages: sequential
  I/O; that a package is complete and verified before it is handed over is in
  UpdateInstall.
- Cryptography, signatures, the release tool: library calls and a sequential program.
- Bodies of platform requests and of the desktop protocol: outcomes of the actions
  that wait for them.
- A stale `update.lock` taken by two programs at a time (`update/lock.go:58`): it needs
  two programs on one data directory, which nothing in the repository sets up.
- Front end, packaging, CI.
