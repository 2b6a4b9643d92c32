---------------------------- MODULE UpdateInstall ----------------------------
(***************************************************************************)
(* Update checks and installations as the running program sees them: the   *)
(* jobs of the web server, the update manager that admits one at a time    *)
(* (its flag, its lock file and its progress), the maintenance flag of the *)
(* task manager, the rows of update_history, and the tick of the main loop *)
(* that takes in what the executor reports.                                *)
(*                                                                         *)
(* The executor itself (the launcher in Docker, the helper on Windows) is  *)
(* reduced to what the program can see of it: that it refuses, fails, dies *)
(* or reports, and what it leaves.  Launcher and WindowsUpdater model how. *)
(* A version is its rank; a release is the version it offers and whether   *)
(* this installation can take it.                                          *)
(***************************************************************************)
EXTENDS Naturals, FiniteSets

CONSTANTS
    Worker,         \* goroutines that may check or install at a time
    Latest,         \* the versions the release page may show
    Installed,      \* the version that runs first
    MaxInstalls,    \* bound on the installations
    MaxJobs         \* bound on the jobs, checks included

ASSUME VersionAssumption ==
    /\ Latest \subseteq Nat \ {0} /\ Installed \in Nat \ {0}
    /\ MaxInstalls \in Nat /\ MaxJobs \in Nat

VARIABLES
    docker,         \* the platform: Docker, or else Windows
    version, up,    \* the installed version, and whether the program runs
    active, held,   \* update.Manager: active, and the token of its lock
    progress,       \* update.Manager: progress
    lock,           \* update.lock: the token in the file, and whose process it names
    maintenance,    \* service.Manager: maintenance
    worker,         \* where each job is
    rows,           \* update_history by id: from_version, to_version, status
    staging,        \* the staging directory: whose package, how far
    backup,         \* the database backup: of which installation
    request,        \* the request file: of which installation
    results,        \* the result files
    journal,        \* the transaction file: of which installation
    executor,       \* the helper or launcher at work
    tick,           \* where the main loop is in its tick
    exiting,        \* requestShutdown was called
    jobs,           \* how many jobs have begun: the next one's token
    raced,          \* for the properties: a tick ended a job that had just begun;
    silent          \* whose executors ended without a result, since the last start

vars == <<docker, version, up, active, held, progress, lock, maintenance, worker, rows,
          staging, backup, request, results, journal, executor, tick, exiting, jobs,
          raced, silent>>

Install == 1..MaxInstalls
Finished == {"success", "failed", "rolled_back"}
RowStatus == {"none", "downloading", "staged"} \cup Finished
Progress == {"idle", "checking", "available", "downloading", "verifying", "stopping"} \cup Finished

\* What the release page shows: a version, and whether this installation can
\* take it (its platform, launcher, image and database).
Version == Latest \cup {Installed}
Release == [latest : Version, supported : BOOLEAN]
HasUpdate(r) == r.latest > version /\ r.supported

NoRow == [from |-> 0, to |-> 0, status |-> "none"]
Free == [token |-> 0, owner |-> "none"]
TokenOf(i) == MaxJobs + i           \* the token of an install request
Idle == [pc |-> "idle", id |-> 0]
NoPackage == [id |-> 0, state |-> "none"]
Nobody == [pc |-> "none", id |-> 0]

Used == {i \in Install : rows[i] # NoRow}
LastRow == CHOOSE i \in Used : \A j \in Used : j <= i

Init ==
    /\ docker \in BOOLEAN
    /\ version = Installed /\ up = TRUE
    /\ active = FALSE /\ held = 0 /\ progress = "idle"
    /\ lock = Free
    /\ maintenance = FALSE
    /\ worker = [w \in Worker |-> Idle]
    /\ rows = [i \in Install |-> NoRow]
    /\ staging = NoPackage /\ backup = 0 /\ request = 0
    /\ results = {} /\ journal = 0
    /\ executor = Nobody
    /\ tick = "idle" /\ exiting = FALSE
    /\ jobs = 0 /\ raced = FALSE /\ silent = {}

manager == <<active, held, lock>>
files == <<staging, backup, request, results, journal>>
history == <<raced, silent>>
process == <<docker, version, up, exiting, executor>>

-----------------------------------------------------------------------------
(* The update manager.                                                     *)

\* Mutant: the lock file is not looked at.
MayBeginLockless == ~active

\* Begin, with acquireFileLock: a lock that names a live process is kept.
MayBegin == ~active /\ lock.owner = "none"

Begin ==
    /\ MayBegin /\ up /\ ~exiting /\ jobs < MaxJobs
    /\ jobs' = jobs + 1
    /\ active' = TRUE /\ held' = jobs + 1
    /\ lock' = [token |-> jobs + 1, owner |-> "program"]
    /\ progress' = "checking"

\* Finish: the lock file is removed only if it still holds the manager's token.
Finish ==
    /\ active' = FALSE /\ held' = 0
    /\ lock' = IF held # 0 /\ lock.token = held THEN Free ELSE lock

\* The "fail" of runUpdateInstall.
FailInstall(w) ==
    /\ maintenance' = FALSE
    /\ rows' = IF worker[w].id = 0 THEN rows ELSE [rows EXCEPT ![worker[w].id].status = "failed"]
    /\ progress' = "failed"
    /\ Finish
    /\ worker' = [worker EXCEPT ![w] = Idle]

Goes(w, pc) == worker' = [worker EXCEPT ![w].pc = pc]

-----------------------------------------------------------------------------
(* Checks: checkUpdate and runAutomaticUpdateCheck.                        *)

BeginCheck(w) ==
    /\ worker[w].pc = "idle"
    /\ Begin
    /\ Goes(w, "checking")
    /\ UNCHANGED <<maintenance, rows, files, process, tick, history>>

PerformCheck(w) ==
    /\ worker[w].pc = "checking"
    /\ \/ progress' = "failed"
       \/ \E r \in Release : progress' = IF HasUpdate(r) THEN "available" ELSE "idle"
    /\ Finish
    /\ worker' = [worker EXCEPT ![w] = Idle]
    /\ UNCHANGED <<maintenance, rows, files, process, tick, jobs, history>>

-----------------------------------------------------------------------------
(* An installation: runUpdateInstall.                                      *)

InstallBegins(w) ==
    /\ worker[w].pc = "idle"
    /\ Cardinality(Used) < MaxInstalls
    /\ Begin
    /\ Goes(w, "asking")
    /\ UNCHANGED <<maintenance, rows, files, process, tick, history>>

\* Tasks that forbid an update, the release, the disk.
CheckRelease(w) ==
    /\ worker[w].pc = "asking"
    /\ \E r \in Release, i \in Install :
          /\ HasUpdate(r) /\ i = Cardinality(Used) + 1
          /\ rows' = [rows EXCEPT ![i] = [from |-> version, to |-> r.latest, status |-> "downloading"]]
          /\ worker' = [worker EXCEPT ![w] = [pc |-> "downloading", id |-> i]]
    /\ progress' = "downloading"
    /\ UNCHANGED <<manager, maintenance, files, process, tick, jobs, history>>

\* The package arrives whole and with the digest of the manifest; only then is
\* the staging directory emptied for it.
Download(w) ==
    /\ worker[w].pc = "downloading"
    /\ staging' = [id |-> worker[w].id, state |-> "partial"]
    /\ Goes(w, "extracting")
    /\ UNCHANGED <<manager, progress, maintenance, rows, backup, request, results, journal, process, tick, jobs, history>>

\* Extracted, and every file compared with the package manifest.
Extract(w) ==
    /\ worker[w].pc = "extracting"
    /\ staging' = [id |-> worker[w].id, state |-> "verified"]
    /\ progress' = "verifying"
    /\ Goes(w, "prepare")
    /\ UNCHANGED <<manager, maintenance, rows, backup, request, results, journal, process, tick, jobs, history>>

PrepareForUpdate(w) ==
    /\ worker[w].pc = "prepare"
    /\ ~maintenance
    /\ maintenance' = TRUE
    /\ Goes(w, "waiting")
    /\ UNCHANGED <<manager, progress, rows, files, process, tick, jobs, history>>

TasksAreQuiet(w) ==
    /\ worker[w].pc = "waiting"
    /\ Goes(w, "backup")
    /\ UNCHANGED <<manager, progress, maintenance, rows, files, process, tick, jobs, history>>

BackupDatabase(w) ==
    /\ worker[w].pc = "backup"
    /\ backup' = worker[w].id
    /\ Goes(w, "request")
    /\ UNCHANGED <<manager, progress, maintenance, rows, staging, request, results, journal, process, tick, jobs, history>>

WriteRequest(w) ==
    /\ worker[w].pc = "request"
    /\ request' = worker[w].id
    /\ rows' = [rows EXCEPT ![worker[w].id].status = "staged"]
    /\ progress' = "stopping"
    /\ Goes(w, "handoff")
    /\ UNCHANGED <<manager, maintenance, staging, backup, results, journal, process, tick, jobs, history>>

\* HandOff: the lock stays, under the token of the request.  In Docker the
\* program is then asked to exit for its launcher.
HandOff(w) ==
    /\ worker[w].pc = "handoff"
    /\ lock.token = held
    /\ lock' = [lock EXCEPT !.token = TokenOf(worker[w].id)]
    /\ active' = FALSE /\ held' = 0
    /\ IF docker
       THEN exiting' = TRUE /\ worker' = [worker EXCEPT ![w] = Idle]
       ELSE Goes(w, "launch") /\ UNCHANGED exiting
    /\ UNCHANGED <<progress, maintenance, rows, files, docker, version, up, executor, tick, jobs, history>>

\* LaunchUpdater.  Only without a service does the program stop by itself.
Launch(w) ==
    /\ worker[w].pc = "launch"
    /\ executor.pc = "none"
    /\ executor' = [pc |-> "launched", id |-> worker[w].id]
    /\ exiting' \in {exiting, TRUE}
    /\ worker' = [worker EXCEPT ![w] = Idle]
    /\ UNCHANGED <<manager, progress, maintenance, rows, files, docker, version, up, tick, jobs, history>>

LaunchFails(w) ==
    /\ worker[w].pc = "launch"
    /\ maintenance' = FALSE
    /\ rows' = [rows EXCEPT ![worker[w].id].status = "failed"]
    /\ progress' = "failed"
    /\ active' = FALSE /\ held' = 0
    /\ lock' = IF lock.token \in {TokenOf(worker[w].id), held} THEN Free ELSE lock
    /\ worker' = [worker EXCEPT ![w] = Idle]
    /\ UNCHANGED <<files, process, tick, jobs, history>>

\* Any step up to the hand-off may fail or find the update impossible; so does
\* a hand-off that finds another's lock.
StepFails(w) ==
    /\ worker[w].pc \in {"asking", "downloading", "extracting", "prepare", "waiting",
                         "backup", "request", "handoff"}
    /\ FailInstall(w)
    /\ UNCHANGED <<files, process, tick, jobs, history>>

-----------------------------------------------------------------------------
(* The executor.                                                           *)

\* WriteInstallResult: one file for each installation.
Reported(i, status) == {x \in results : x.id # i} \cup {[id |-> i, status |-> status]}

ExecutorAt(pc) == executor' = [executor EXCEPT !.pc = pc]

\* The executor's process ends.
Abandoned == [lock EXCEPT !.owner = IF lock.owner = "executor" THEN "none" ELSE @]

\* The program ends with its jobs; the rows, the files and the lock stay.
ProgramEnds ==
    /\ up' = FALSE
    /\ active' = FALSE /\ held' = 0 /\ progress' = "idle" /\ maintenance' = FALSE
    /\ worker' = [w \in Worker |-> Idle]
    /\ tick' = "idle"
    /\ lock' = IF lock.owner = "program" THEN [lock EXCEPT !.owner = "none"] ELSE lock

running == <<manager, progress, maintenance, worker, tick>>

\* The launcher acts on the exit code that asks for an update.
LauncherRuns ==
    /\ docker /\ ~up /\ exiting
    /\ executor' = [pc |-> "working", id |-> request]
    /\ request' = 0 /\ exiting' = FALSE
    /\ lock' = [lock EXCEPT !.owner = "executor"]
    /\ UNCHANGED <<docker, version, up, active, held, progress, maintenance, worker, rows, staging,
                   backup, results, journal, tick, jobs, history>>

\* ... unless the request is not valid (the lock is removed, nothing is told),
\* or the lock cannot be taken over, or the container ends first.
LauncherRejects ==
    /\ docker /\ ~up /\ exiting
    /\ exiting' = FALSE
    /\ \/ /\ request' \in {request, 0} /\ lock' = Free
          /\ silent' = silent \cup {request} /\ UNCHANGED results
       \/ /\ request' = 0 /\ results' = Reported(request, "failed")
          /\ UNCHANGED <<lock, silent>>
       \/ silent' = silent \cup {request} /\ UNCHANGED <<request, results, lock>>
    /\ UNCHANGED <<docker, version, up, active, held, progress, maintenance, worker, rows, staging,
                   backup, journal, executor, tick, jobs, raced>>

\* The helper consumes the request and takes the lock over; so does one that
\* recovers, without a request and without telling.
TakeOver ==
    /\ executor.pc \in {"launched", "recover"}
    /\ request' = IF executor.pc = "launched" THEN 0 ELSE request
    /\ IF lock.token = TokenOf(executor.id)
       THEN /\ lock' = [lock EXCEPT !.owner = "executor"]
            /\ ExecutorAt(IF executor.pc = "launched" THEN "waiting" ELSE "recovering")
            /\ UNCHANGED <<results, silent>>
       ELSE /\ executor' = Nobody
            /\ IF executor.pc = "launched"
               THEN results' = Reported(executor.id, "failed") /\ UNCHANGED silent
               ELSE silent' = silent \cup {executor.id} /\ UNCHANGED results
            /\ UNCHANGED lock
    /\ UNCHANGED <<docker, version, up, active, held, progress, maintenance, worker, rows, staging,
                   backup, journal, tick, exiting, jobs, raced>>

\* A request, or a transaction, that cannot be read, is not valid or cannot be
\* removed: the helper ends, and nobody is told.
RefuseRequest ==
    /\ executor.pc \in {"launched", "recover"}
    /\ executor' = Nobody /\ silent' = silent \cup {executor.id}
    /\ UNCHANGED <<running, docker, version, up, exiting, rows, files, jobs, raced>>

\* The service cannot be stopped, or the program does not end in time.
HelperGivesUp ==
    /\ executor.pc \in {"waiting", "recovering"}
    /\ ExecutorAt("failed")
    /\ UNCHANGED <<running, docker, version, up, exiting, rows, files, jobs, history>>

HelperStopsService ==
    /\ executor.pc = "waiting" /\ up /\ ~exiting
    /\ exiting' = TRUE
    /\ UNCHANGED <<running, docker, version, up, rows, files, executor, jobs, history>>

HelperWorks ==
    /\ executor.pc \in {"waiting", "recovering"} /\ ~up
    /\ ExecutorAt(IF executor.pc = "waiting" THEN "working" ELSE "restoring")
    /\ UNCHANGED <<running, docker, version, up, exiting, rows, files, jobs, history>>

\* The backup, the package or the transaction file fails: nothing has changed.
\* The helper starts the program again, if it can; the launcher does so when it
\* has told.
LeaveUnchanged ==
    /\ executor.pc = "working"
    /\ ExecutorAt("failed")
    /\ (UNCHANGED up \/ (~docker /\ up' = TRUE)) /\ exiting' = FALSE
    /\ UNCHANGED <<running, docker, version, rows, files, jobs, history>>

\* The transaction file is written, then the program replaced.
ReplaceProgram ==
    /\ executor.pc = "working"
    /\ journal' = executor.id
    /\ version' = rows[executor.id].to
    /\ ExecutorAt("replaced")
    /\ UNCHANGED <<running, docker, up, exiting, rows, staging, backup, request, results, jobs, history>>

\* The new program runs, on trial.
ExecutorStarts ==
    /\ executor.pc = "replaced"
    /\ ExecutorAt("success")
    /\ up' = TRUE /\ exiting' = FALSE
    /\ UNCHANGED <<running, docker, version, rows, files, jobs, history>>

\* It was not replaced whole, does not start, is not healthy, or cannot be committed.
TrialFails ==
    /\ executor.pc \in {"replaced", "success"}
    /\ ProgramEnds
    /\ ExecutorAt("restoring")
    /\ UNCHANGED <<docker, version, exiting, rows, files, jobs, history>>

\* The old program runs again, on trial, too ...
RestoreProgram ==
    /\ executor.pc = "restoring"
    /\ version' = rows[executor.id].from
    /\ ExecutorAt("rolled_back")
    /\ up' = TRUE /\ exiting' = FALSE
    /\ UNCHANGED <<running, docker, rows, files, jobs, history>>

\* ... or cannot be restored, started or found healthy.
RestoreFails ==
    /\ executor.pc \in {"restoring", "rolled_back"}
    /\ version' \in {version, rows[executor.id].from}
    /\ ProgramEnds
    /\ ExecutorAt("failed")
    /\ UNCHANGED <<docker, exiting, rows, files, jobs, history>>

\* The helper cannot stop the new program, or not commit that it runs the old
\* one: both run on.
HelperFails ==
    /\ ~docker /\ executor.pc \in {"success", "rolled_back"}
    /\ ExecutorAt("failed")
    /\ UNCHANGED <<running, docker, version, up, exiting, rows, files, jobs, history>>

\* The launcher cannot commit that a program runs well: it lets it run on.
CompletionFails ==
    /\ docker /\ executor.pc \in {"success", "rolled_back"}
    /\ ExecutorAt("kept") /\ silent' = silent \cup {executor.id}
    /\ UNCHANGED <<running, docker, version, up, exiting, rows, files, jobs, raced>>

\* The result is told, and the transaction with it.  A failure may stay untold (a
\* recovery never tells it), and leaves the transaction.
ExecutorReports ==
    /\ executor.pc \in Finished
    /\ ExecutorAt("leaving")
    /\ journal' = IF executor.pc = "failed" THEN journal ELSE 0
    /\ \/ results' = Reported(executor.id, executor.pc) /\ UNCHANGED silent
       \/ /\ executor.pc = "failed"
          /\ silent' = silent \cup {executor.id} /\ UNCHANGED results
    /\ UNCHANGED <<running, docker, version, up, exiting, rows, staging, backup, request, jobs, raced>>

\* The lock is released; a launcher that gives up or has kept its transaction
\* only ends.
ExecutorLeaves ==
    /\ (executor.pc = "leaving" \/ (executor.pc = "kept" /\ ~up))
    /\ executor' = Nobody
    /\ lock' = IF docker /\ journal # 0 THEN Abandoned
               ELSE IF lock.token = TokenOf(executor.id) THEN Free ELSE lock
    /\ UNCHANGED <<docker, version, up, active, held, progress, maintenance, worker, rows, files,
                   tick, exiting, jobs, history>>

\* A launcher ends with its container, the program before it.
ExecutorCrashes ==
    /\ executor.pc # "none" /\ (docker => ~up)
    /\ executor' = Nobody
    /\ silent' = IF executor.pc = "leaving" THEN silent ELSE silent \cup {executor.id}
    /\ lock' = Abandoned
    /\ UNCHANGED <<docker, version, up, active, held, progress, maintenance, worker, rows, files,
                   tick, exiting, jobs, raced>>

\* An open transaction that nobody works at: on Windows a program that starts or
\* ticks starts a helper and ends, in Docker the next launcher goes on.
RecoveryStarts ==
    /\ journal # 0 /\ executor.pc = "none" /\ lock.owner = "none"
    /\ IF docker
       THEN /\ ~up /\ ~exiting
            /\ executor' = [pc |-> IF version = rows[journal].to THEN "replaced" ELSE "restoring",
                            id |-> journal]
            /\ lock' = [token |-> TokenOf(journal), owner |-> "executor"]
       ELSE /\ tick = "idle"
            /\ executor' = [pc |-> "recover", id |-> journal]
            /\ UNCHANGED lock
    /\ exiting' = (exiting \/ up)
    /\ UNCHANGED <<docker, version, up, active, held, progress, maintenance, worker, rows, files,
                   tick, jobs, history>>

-----------------------------------------------------------------------------
(* The program's life and its tick.                                        *)

ProgramStops ==
    /\ up /\ exiting
    /\ ProgramEnds
    /\ UNCHANGED <<docker, version, exiting, rows, files, executor, jobs, history>>

\* A crash, or a stop that nobody asked for on account of an update.
ProgramCrashes ==
    /\ up /\ ~exiting
    /\ ProgramEnds
    /\ UNCHANGED <<docker, version, exiting, rows, files, executor, jobs, history>>

Delivered(rs) == [i \in Install |->
    IF \E x \in results : x.id = i
    THEN [rs[i] EXCEPT !.status = (CHOOSE x \in results : x.id = i).status] ELSE rs[i]]

\* Mutants: unfinished rows are left, or get a status of their own.
InterruptedNot(rs) == rs

InterruptedAside(rs) == [i \in Install |->
    IF rs[i] # NoRow /\ rs[i].status \notin Finished THEN [rs[i] EXCEPT !.status = "interrupted"] ELSE rs[i]]

Interrupted(rs) == [i \in Install |->
    IF rs[i] # NoRow /\ rs[i].status \notin Finished THEN [rs[i] EXCEPT !.status = "failed"] ELSE rs[i]]

\* Results first; whatever is unfinished then has been interrupted, unless
\* somebody still works on it.
ProgramStarts ==
    /\ ~up /\ executor.pc = "none" /\ journal = 0 /\ ~(docker /\ exiting)
    /\ up' = TRUE /\ exiting' = FALSE
    /\ results' = {} /\ silent' = {}
    /\ rows' = IF lock.owner = "none" THEN Interrupted(Delivered(rows)) ELSE Delivered(rows)
    /\ UNCHANGED <<docker, version, manager, progress, maintenance, worker, staging, backup, request,
                   journal, executor, tick, jobs, raced>>

TickConsumes ==
    /\ up /\ tick = "idle"
    /\ rows' = Delivered(rows) /\ results' = {}
    /\ tick' = "consumed"
    /\ UNCHANGED <<manager, progress, maintenance, worker, staging, backup, request, journal, process, jobs, history>>

\* RefreshUpdateResult reads the progress, then the last row ...
RefreshReads ==
    /\ tick \in {"consumed", "stopping"}
    /\ tick' = CASE tick = "consumed" /\ progress = "stopping" -> "stopping"
                 [] tick = "stopping" /\ rows[LastRow].status \in Finished -> rows[LastRow].status
                 [] OTHER -> "idle"
    /\ UNCHANGED <<manager, progress, maintenance, worker, rows, files, process, jobs, history>>

\* ... and then ends the installation, whatever has begun since.
RefreshFinishes ==
    /\ tick \in Finished
    /\ maintenance' = FALSE
    /\ Finish
    /\ progress' = tick
    /\ tick' = "idle"
    /\ raced' = (raced \/ active)
    /\ UNCHANGED <<worker, rows, files, process, jobs, silent>>

-----------------------------------------------------------------------------

WorkerStep(w) ==
    \/ PerformCheck(w) \/ CheckRelease(w) \/ Download(w) \/ Extract(w) \/ PrepareForUpdate(w)
    \/ TasksAreQuiet(w) \/ BackupDatabase(w) \/ WriteRequest(w) \/ HandOff(w)
    \/ Launch(w) \/ LaunchFails(w) \/ StepFails(w)

ExecutorStep ==
    \/ LauncherRuns \/ LauncherRejects
    \/ TakeOver \/ RefuseRequest \/ HelperGivesUp \/ HelperStopsService \/ HelperWorks
    \/ LeaveUnchanged \/ ReplaceProgram \/ ExecutorStarts \/ TrialFails
    \/ RestoreProgram \/ RestoreFails \/ HelperFails \/ CompletionFails
    \/ ExecutorReports \/ ExecutorLeaves

TickStep == TickConsumes \/ RefreshReads \/ RefreshFinishes

Next ==
    \/ \E w \in Worker : BeginCheck(w) \/ InstallBegins(w) \/ WorkerStep(w)
    \/ ExecutorStep \/ ExecutorCrashes \/ RecoveryStarts
    \/ TickStep
    \/ ProgramStops \/ ProgramCrashes \/ ProgramStarts

\* The network calls have timeouts, the executor its own; the main loop ticks, and
\* ends when it is told to.  Nobody has to start a program or a recovery.
Fairness ==
    /\ \A w \in Worker : WF_vars(WorkerStep(w))
    /\ WF_vars(ExecutorStep)
    /\ WF_vars(TickStep)
    /\ WF_vars(ProgramStops)

Spec == Init /\ [][Next]_vars /\ Fairness

-----------------------------------------------------------------------------

TypeOK ==
    /\ docker \in BOOLEAN /\ version \in Version /\ up \in BOOLEAN
    /\ active \in BOOLEAN /\ held \in 0..MaxJobs
    /\ progress \in Progress
    /\ lock \in [token : 0..(MaxJobs + MaxInstalls), owner : {"none", "program", "executor"}]
    /\ maintenance \in BOOLEAN
    /\ \A w \in Worker : worker[w].id \in Install \cup {0}
    /\ \A i \in Install : rows[i].status \in RowStatus
    /\ staging \in [id : Install \cup {0}, state : {"none", "partial", "verified"}]
    /\ backup \in Install \cup {0} /\ request \in Install \cup {0}
    /\ results \subseteq [id : Install, status : Finished]
    /\ journal \in Install \cup {0} /\ silent \subseteq Install
    /\ executor.id \in Install \cup {0}
    /\ tick \in {"idle", "consumed", "stopping"} \cup Finished /\ exiting \in BOOLEAN
    /\ jobs \in 0..MaxJobs /\ raced \in BOOLEAN

Working == {w \in Worker : worker[w].pc \notin {"idle", "launch"}}

\* "Manager serializes update tasks so only one runs at a time"
\* (update/manager.go:9), under the lock file that keeps other processes away.
OneJob ==
    /\ Cardinality(Working) <= 1
    /\ Working # {} => active /\ lock = [token |-> held, owner |-> "program"]

\* So it is unless a tick ended another job than the one it saw fail: Finish
\* frees the lock of whoever holds it when it is called.
OneJobAtATime == raced \/ OneJob

\* An executor finds the package verified and the database backed up for its
\* own installation, and nobody writes to them while it works.
ExecutorHasVerified ==
    raced \/ (executor.pc \in {"launched", "waiting", "working"} =>
              staging = [id |-> executor.id, state |-> "verified"] /\ backup = executor.id)

\* An installation that was begun gets its verdict, if a program lives long enough
\* again and again to tick: from a result, or else from the next program that starts
\* by itself.  Only until then may it wait, and only when its executor has ended
\* without a result (updater/main.go:47-56, launcher/main.go:234-238).
UpdatesEnd ==
    []<>(tick = "consumed") => \A i \in Install :
        (rows[i] # NoRow) ~> (rows[i].status \in Finished \/ i \in silent)

\* RefreshUpdateResult is "called after consuming executor results, including
\* failures before shutdown" (server.go:1731): after a tick the tasks are not
\* held back by an installation that has ended.
ResumesAfterFailure ==
    [][ tick # "idle" /\ tick' = "idle" /\ up' /\ maintenance'
        => \/ exiting \/ executor.pc # "none" \/ results # {}
           \/ \E w \in Worker : worker[w].pc \notin {"idle", "checking"} ]_vars
=============================================================================
