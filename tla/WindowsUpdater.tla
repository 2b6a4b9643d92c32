--------------------------- MODULE WindowsUpdater ---------------------------
(***************************************************************************)
(* An update on Windows: the program (runUpdateInstall, its start and its  *)
(* ticker) and the helper ctyun-keeper-updater.exe that replaces its files *)
(* while it is down, over the files they share: the installed application, *)
(* the database, their backups, windows-transaction.json, update.lock,     *)
(* the result and the row of the history.  A step ends at a file           *)
(* operation; either process can be gone after each of them.               *)
(*                                                                         *)
(* A helper is started by the program, for an installation or to recover   *)
(* from one.  Nobody else starts the program while a helper lives.         *)
(* Versions are numbers, process ids are not reused.  Signatures, paths    *)
(* and package contents are checks that can always fail.                   *)
(***************************************************************************)
EXTENDS Integers, FiniteSets, Sequences

CONSTANTS Version,     \* program versions
          MaxInstalls, \* bound on installations that began
          MaxCrashes   \* bound on processes that ended before their time

ASSUME VersionAssumption == Version \subseteq Nat \ {0}
ASSUME BoundsAssumption == MaxInstalls \in Nat /\ MaxCrashes \in Nat

\* What replace and restore go through; static stands for the texts, too.
ReplaceOrder == <<"exe", "static", "updater">>
RestoreOrder == <<"exe", "updater", "static">>
Part == {"exe", "static", "updater"}

Files == [Part -> Version \cup {0}]        \* 0: not there
NoFiles == [p \in Part |-> 0]
AllOf(v) == [p \in Part |-> v]

Content == [state : {"missing", "torn", "whole"}, by : SUBSET Version]
Missing == [state |-> "missing", by |-> {}]
Torn == [state |-> "torn", by |-> {}]

Begin == -1                                \* the token of a Begin; 0: no lock
Token == {Begin, 0} \cup 1..MaxInstalls
Free == [token |-> 0, owner |-> "dead"]
Status == {"success", "failed", "rolled_back"}

\* windows-transaction.json: the request, and the status of its CompletedResult.
Request == [id : 1..MaxInstalls, from : Version, to : Version]
NoRequest == [id |-> 0, from |-> 0, to |-> 0]
Transaction == [request : Request, done : Status \cup {"none"}]
None == [request |-> NoRequest, done |-> "none"]

ProgStage == {"down", "boot", "open", "opened", "delivered", "up",
              "installing", "backedup", "requested", "given", "handed"}
Serving == {"opened", "delivered", "up", "installing", "backedup", "requested",
            "given", "handed"}
HelperStage == {"none", "begin", "wait", "backup", "copying", "verify", "saving", "journal",
                "replace", "replacing", "moveaway", "movein", "start", "health", "commit",
                "finalize", "clear", "release", "giveup"}

VARIABLES
    app,        \* the installed application
    db,         \* ctyun-keeper.db
    backup,     \* updates/backups/<version>: application and database
    journal,    \* updates/windows-transaction.json
    lock,       \* updates/update.lock: token, and which process its pid is
    result,     \* updates/results/<id>.json: status, or none
    row,        \* the row of the last installation in update_history
    prog, pver, \* the program: where it is, which version it is
    helper,     \* the helper: where it is, what it is for, its request
    req,        \* updates/install-request.json, and what the program makes it from
    supervised, \* RestartMode
    truth,      \* history: how the last transaction ended
    installs, crashes

fileVars == <<app, db, backup, journal, lock, result, row, req>>
vars == <<fileVars, prog, pver, helper, supervised, truth, installs, crashes>>

NoHelper == [at |-> "none", recover |-> FALSE, back |-> FALSE, req |-> NoRequest, n |-> 0]

TypeOK ==
    /\ app \in Files
    /\ db \in Content
    /\ backup \in [Version -> [app : Files, db : Content]]
    /\ journal \in Transaction \cup {None}
    /\ lock \in [token : Token, owner : {"program", "helper", "dead"}]
    /\ result \in Status \cup {"none"}
    /\ row \in Status \cup {"none", "open"}
    /\ prog \in ProgStage /\ pver \in Version \cup {0}
    /\ helper \in [at : HelperStage, recover : BOOLEAN, back : BOOLEAN,
                   req : Request \cup {NoRequest}, n : 0..Len(ReplaceOrder)]
    /\ req \in Request \cup {NoRequest}
    /\ supervised \in BOOLEAN
    /\ truth \in Status \cup {"none"}
    /\ installs \in 0..MaxInstalls /\ crashes \in 0..MaxCrashes

Init ==
    /\ \E v \in Version :
          /\ \A w \in Version : v <= w
          /\ app = AllOf(v) /\ db = [state |-> "whole", by |-> {v}]
    /\ backup = [v \in Version |-> [app |-> NoFiles, db |-> Missing]]
    /\ journal = None /\ lock = Free /\ result = "none" /\ row = "none"
    /\ prog = "down" /\ pver = 0
    /\ helper = NoHelper /\ req = NoRequest
    /\ supervised \in BOOLEAN
    /\ truth = "none" /\ installs = 0 /\ crashes = 0

----------------------------------------------------------------------------
(* Helpers                                                                  *)

Begun == journal # None
Completed == journal.done # "none"
\* UpdateLockActive: there is a lock and its process lives.
LockActive == lock.token # 0 /\ lock.owner # "dead"
\* The lock of a process that is gone.
Orphan(who) == [lock EXCEPT !.owner = IF lock.owner = who THEN "dead" ELSE @]
\* ReleaseUpdateLock with a token.
Released(id) == IF lock.token = id THEN Free ELSE lock

\* WriteInstallResult; what is told of an older installation goes to another row.
ResultOf(id, status) == IF id = installs THEN status ELSE result

ProgramAt(s) == prog' = s /\ UNCHANGED pver
ProgramEnds == prog' = "down" /\ pver' = 0
HelperAt(s) == helper' = [helper EXCEPT !.at = s]
HelperEnds == helper' = NoHelper

Order == IF helper.back THEN RestoreOrder ELSE ReplaceOrder
ThisPart == Order[helper.n]
\* Mutant: one part too many.
LastPartOffByOne == helper.n > Len(Order)

LastPart == helper.n = Len(Order)

Saved == backup[helper.req.from]

bounds == <<supervised, installs, crashes>>

----------------------------------------------------------------------------
(* The program starts                                                       *)

ProgramStarts ==
    /\ prog = "down" /\ helper.at = "none" /\ app["exe"] # 0
    /\ prog' = "boot" /\ pver' = app["exe"]
    /\ UNCHANGED <<fileVars, helper, truth, bounds>>

\* FinalizeCompletedWindowsTransaction: result and journal.
FinalizeCompleted ==
    IF Completed
    THEN result' = ResultOf(journal.request.id, journal.done) /\ journal' = None
    ELSE UNCHANGED <<result, journal>>

\* StartPendingWindowsRecovery has nothing to recover.
NothingToRecover ==
    /\ prog \in {"boot", "up", "handed"}
    /\ ~Begun \/ LockActive \/ Completed

BootContinues ==
    /\ prog = "boot" /\ NothingToRecover
    /\ IF LockActive THEN UNCHANGED <<result, journal>> ELSE FinalizeCompleted
    /\ ProgramAt("open")
    /\ UNCHANGED <<app, db, backup, lock, row, req, helper, truth, bounds>>

\* At the start or at a tick: the helper is started with --recover, the program
\* ends.  Without the helper's file the start fails, and a tick goes on.
StartRecovery ==
    /\ prog \in {"boot", "up", "handed"} /\ ~NothingToRecover
    /\ IF app["updater"] # 0 /\ helper.at = "none"
       THEN helper' = [NoHelper EXCEPT !.at = "begin", !.recover = TRUE,
                                       !.back = TRUE, !.req = journal.request]
       ELSE prog = "boot" /\ UNCHANGED helper
    /\ ProgramEnds
    /\ lock' = Orphan("program")
    /\ UNCHANGED <<app, db, backup, journal, result, row, req, truth, bounds>>

\* storage.Open: the database is upgraded, or created.
OpenDatabase ==
    /\ prog = "open"
    /\ IF db.state = "torn" THEN ProgramEnds /\ lock' = Orphan("program") /\ UNCHANGED db
       ELSE /\ ProgramAt("opened") /\ UNCHANGED lock
            /\ db' = [state |-> "whole", by |-> db.by \cup {pver}]
    /\ UNCHANGED <<app, backup, journal, result, row, req, helper, truth, bounds>>

\* finalizeWindowsUpdateResult and consumeUpdateResults.
Deliver ==
    LET final == ~LockActive /\ Completed
        told == IF final THEN ResultOf(journal.request.id, journal.done) ELSE result
    IN  /\ journal' = IF final THEN None ELSE journal
        /\ row' = IF told = "none" THEN row ELSE told
        /\ result' = "none"

DeliverAtStart ==
    /\ prog = "opened"
    /\ Deliver
    /\ ProgramAt("delivered")
    /\ UNCHANGED <<app, db, backup, lock, req, helper, truth, bounds>>

\* Mutant: what another process is at is interrupted, too.
InterruptAll ==
    /\ prog = "delivered"
    /\ row' = IF row = "open" THEN "failed" ELSE row
    /\ ProgramAt("up")
    /\ UNCHANGED <<app, db, backup, journal, lock, result, req, helper, truth, bounds>>

\* InterruptUnfinishedUpdates, unless somebody holds the lock.
Interrupt ==
    /\ prog = "delivered"
    /\ row' = IF row = "open" /\ ~LockActive THEN "failed" ELSE row
    /\ ProgramAt("up")
    /\ UNCHANGED <<app, db, backup, journal, lock, result, req, helper, truth, bounds>>

\* A tick; a program whose helper failed early goes on as if nothing had been.
Tick ==
    /\ prog \in {"up", "handed"} /\ NothingToRecover
    /\ Deliver
    /\ ProgramAt(IF supervised /\ row' \in Status THEN "up" ELSE prog)
    /\ UNCHANGED <<app, db, backup, lock, req, helper, truth, bounds>>

----------------------------------------------------------------------------
(* The program installs                                                     *)

\* Manager.Begin takes a free lock or one of a dead process, and a row is added.
InstallBegins(v) ==
    /\ prog = "up" /\ installs < MaxInstalls
    /\ v > pver /\ ~LockActive
    /\ lock' = [token |-> Begin, owner |-> "program"]
    /\ installs' = installs + 1
    /\ req' = [id |-> installs', from |-> pver, to |-> v]
    /\ row' = "open" /\ result' = "none" /\ truth' = "none"
    /\ ProgramAt("installing")
    /\ UNCHANGED <<app, db, backup, journal, helper, supervised, crashes>>

InstallFails ==
    /\ prog \in {"installing", "backedup", "requested", "given"}
    /\ row' = "failed"
    /\ lock' = Free
    /\ ProgramAt("up")
    /\ UNCHANGED <<app, db, backup, journal, result, req, helper, truth, bounds>>

BackupDatabase ==
    /\ prog = "installing"
    /\ backup' = [backup EXCEPT ![pver].db = Torn]
    /\ ProgramAt("backedup")
    /\ UNCHANGED <<app, db, journal, lock, result, row, req, helper, truth, bounds>>

\* The backup is complete; the request is written.
WriteUpdateRequest ==
    /\ prog = "backedup"
    /\ backup' = [backup EXCEPT ![pver].db = db]
    /\ ProgramAt("requested")
    /\ UNCHANGED <<app, db, journal, lock, result, row, req, helper, truth, bounds>>

HandOff ==
    /\ prog = "requested" /\ app["updater"] # 0
    /\ lock' = [lock EXCEPT !.token = req.id]
    /\ ProgramAt("given")
    /\ UNCHANGED <<app, db, backup, journal, result, row, req, helper, truth, bounds>>

LaunchUpdater ==
    /\ prog = "given" /\ helper.at = "none"
    /\ helper' = [NoHelper EXCEPT !.at = "begin", !.req = req]
    /\ ProgramAt("handed")
    /\ UNCHANGED <<fileVars, truth, bounds>>

\* requestShutdown(0) half a second later; a supervised program is stopped.
Shutdown ==
    /\ prog = "handed" /\ ~supervised
    /\ ProgramEnds
    /\ lock' = Orphan("program")
    /\ UNCHANGED <<app, db, backup, journal, result, row, req, helper, truth, bounds>>

\* A user or the service manager ends it.
ProgramStops ==
    /\ prog = "up"
    /\ ProgramEnds
    /\ lock' = Orphan("program")
    /\ UNCHANGED <<app, db, backup, journal, result, row, req, helper, truth, bounds>>

----------------------------------------------------------------------------
(* The helper begins                                                        *)

\* A request that cannot be read, is not valid or cannot be removed.
RefuseRequest ==
    /\ helper.at = "begin"
    /\ HelperEnds
    /\ UNCHANGED <<fileVars, prog, pver, truth, bounds>>

TakeOver ==
    /\ helper.at = "begin"
    /\ IF lock.token = helper.req.id
       THEN HelperAt("wait") /\ lock' = [lock EXCEPT !.owner = "helper"] /\ UNCHANGED result
       ELSE /\ HelperEnds /\ UNCHANGED lock
            /\ result' = IF helper.recover THEN result ELSE ResultOf(helper.req.id, "failed")
    /\ UNCHANGED <<app, db, backup, journal, row, req, prog, pver, truth, bounds>>

\* The helper returns an error: main tells a failed installation, a recovery only
\* ends.  Either way the lock is released, and the transaction stays.
GiveUp ==
    /\ HelperEnds
    /\ result' = IF helper.recover THEN result ELSE ResultOf(helper.req.id, "failed")
    /\ lock' = Released(helper.req.id)

StopService ==
    /\ helper.at = "wait" /\ supervised /\ prog # "down"
    /\ ProgramEnds
    /\ UNCHANGED <<fileVars, helper, truth, bounds>>

Waited ==
    /\ helper.at = "wait" /\ prog = "down"
    /\ helper' = IF helper.recover THEN [helper EXCEPT !.at = "replace", !.n = 1]
                                   ELSE [helper EXCEPT !.at = "backup"]
    /\ UNCHANGED <<fileVars, prog, pver, truth, bounds>>

\* The service does not stop, or the process is still there after two minutes.
WaitFails ==
    /\ helper.at = "wait"
    /\ GiveUp
    /\ UNCHANGED <<app, db, backup, journal, row, req, prog, pver, truth, bounds>>

----------------------------------------------------------------------------
(* The helper installs                                                      *)

FinalizeBackup ==
    /\ helper.at = "backup"
    /\ backup' = [backup EXCEPT ![helper.req.from].db = Torn]
    /\ HelperAt("copying")
    /\ UNCHANGED <<app, db, journal, lock, result, row, req, prog, pver, truth, bounds>>

FinalizeDone ==
    /\ helper.at = "copying"
    /\ backup' = [backup EXCEPT ![helper.req.from].db = db]
    /\ HelperAt("verify")
    /\ UNCHANGED <<app, db, journal, lock, result, row, req, prog, pver, truth, bounds>>

\* Manifest and package are verified; the old application is copied.
BackupFiles ==
    /\ helper.at = "verify"
    /\ backup' = [backup EXCEPT ![helper.req.from].app = NoFiles]
    /\ HelperAt("saving")
    /\ UNCHANGED <<app, db, journal, lock, result, row, req, prog, pver, truth, bounds>>

BackupFilesDone ==
    /\ helper.at = "saving"
    /\ backup' = [backup EXCEPT ![helper.req.from].app = app]
    /\ HelperAt("journal")
    /\ UNCHANGED <<app, db, journal, lock, result, row, req, prog, pver, truth, bounds>>

\* unchanged: a step before the transaction fails, the program is started again.
StartUnchanged ==
    /\ helper.at \in {"backup", "copying", "verify", "saving", "journal"}
    /\ prog' = "boot" /\ pver' = app["exe"]
    /\ HelperAt("giveup")
    /\ UNCHANGED <<fileVars, truth, bounds>>

TellUnchanged ==
    /\ helper.at = "giveup"
    /\ GiveUp
    /\ UNCHANGED <<app, db, backup, journal, row, req, prog, pver, truth, bounds>>

\* Mutant: the transaction is written when the files are replaced.
ReplaceFirst ==
    /\ helper.at = "journal"
    /\ helper' = [helper EXCEPT !.at = "replace", !.n = 1]
    /\ UNCHANGED <<fileVars, prog, pver, truth, bounds>>

WriteTransaction ==
    /\ helper.at = "journal"
    /\ journal' = [request |-> helper.req, done |-> "none"]
    /\ helper' = [helper EXCEPT !.at = "replace", !.n = 1]
    /\ UNCHANGED <<app, db, backup, lock, result, row, req, prog, pver, truth, bounds>>

\* atomicReplaceFile and atomicReplaceDir: the copy is ready, the old one is moved
\* away, the new one in.  A restore also removes what the backup has not.
MoveAway ==
    /\ helper.at = "replace"
    /\ app' = [app EXCEPT ![ThisPart] = 0]
    /\ HelperAt("replacing")
    /\ UNCHANGED <<db, backup, journal, lock, result, row, req, prog, pver, truth, bounds>>

MoveIn ==
    /\ helper.at = "replacing"
    /\ app' = [app EXCEPT ![ThisPart] = IF helper.back THEN Saved.app[ThisPart]
                                                       ELSE helper.req.to]
    /\ helper' = IF ~LastPart THEN [helper EXCEPT !.at = "replace", !.n = @ + 1]
                 ELSE [helper EXCEPT !.n = 0, !.at = IF helper.back THEN "moveaway" ELSE "start"]
    /\ UNCHANGED <<db, backup, journal, lock, result, row, req, prog, pver, truth, bounds>>

\* recoverCurrent.
GoBack == helper' = [helper EXCEPT !.at = "replace", !.back = TRUE, !.n = 1]

\* A part cannot be replaced, or the program not be started: what is there is
\* restored; when that is what fails, the helper gives up.
StepFails ==
    /\ helper.at \in {"replace", "start"}
    /\ IF helper.back THEN GiveUp ELSE GoBack /\ UNCHANGED <<lock, result>>
    /\ UNCHANGED <<app, db, backup, journal, row, req, prog, pver, truth, bounds>>

\* Mutant: the database is left as the new program made it.
KeepDatabase ==
    /\ helper.at = "moveaway"
    /\ HelperAt("start")
    /\ UNCHANGED <<fileVars, prog, pver, truth, bounds>>

RestoreDatabase ==
    /\ helper.at = "moveaway" /\ Saved.db # Missing
    /\ db' = Missing
    /\ HelperAt("movein")
    /\ UNCHANGED <<app, backup, journal, lock, result, row, req, prog, pver, truth, bounds>>

RestoreDone ==
    /\ helper.at = "movein"
    /\ db' = Saved.db
    /\ row' = IF row = "none" THEN row ELSE "open"
    /\ HelperAt("start")
    /\ UNCHANGED <<app, backup, journal, lock, result, req, prog, pver, truth, bounds>>

RestoreFails ==
    /\ helper.at = "moveaway"
    /\ GiveUp
    /\ UNCHANGED <<app, db, backup, journal, row, req, prog, pver, truth, bounds>>

----------------------------------------------------------------------------
(* The helper starts the program and decides                                *)

StartProgram ==
    /\ helper.at = "start" /\ prog = "down" /\ app["exe"] # 0
    /\ prog' = "boot" /\ pver' = app["exe"]
    /\ HelperAt("health")
    /\ UNCHANGED <<fileVars, truth, bounds>>

Expected == IF helper.back THEN helper.req.from ELSE helper.req.to

Healthy ==
    /\ helper.at = "health"
    /\ prog = "up" /\ pver = Expected
    /\ HelperAt("commit")
    /\ UNCHANGED <<fileVars, prog, pver, truth, bounds>>

\* No health in a minute, or no commit: the new program is stopped and replaced
\* again; a recovered one is stopped when it is not healthy, and that is all.
Undo ==
    /\ helper.at \in {"health", "commit"}
    /\ IF helper.back /\ helper.at = "commit" THEN UNCHANGED <<prog, pver>> ELSE ProgramEnds
    /\ IF helper.back THEN GiveUp ELSE GoBack /\ UNCHANGED <<lock, result>>
    /\ UNCHANGED <<app, db, backup, journal, row, req, truth, bounds>>

\* The service of the new program does not stop: nothing is restored.
StopFails ==
    /\ helper.at \in {"health", "commit"} /\ supervised /\ ~helper.back
    /\ GiveUp
    /\ UNCHANGED <<app, db, backup, journal, row, req, prog, pver, truth, bounds>>

Decision == IF helper.back THEN "rolled_back" ELSE "success"

\* CompleteWindowsTransaction.
Complete ==
    /\ helper.at = "commit" /\ journal.request = helper.req
    /\ journal' = [journal EXCEPT !.done = Decision]
    /\ truth' = Decision
    /\ HelperAt("finalize")
    /\ UNCHANGED <<app, db, backup, lock, result, row, req, prog, pver, bounds>>

\* FinalizeCompletedWindowsTransaction: the result, the transaction.
WriteResult ==
    /\ helper.at = "finalize"
    /\ result' = ResultOf(helper.req.id, journal.done)
    /\ HelperAt("clear")
    /\ UNCHANGED <<app, db, backup, journal, lock, row, req, prog, pver, truth, bounds>>

ClearTransaction ==
    /\ helper.at = "clear"
    /\ journal' = None
    /\ HelperAt("release")
    /\ UNCHANGED <<app, db, backup, lock, result, row, req, prog, pver, truth, bounds>>

\* Either of them can fail, which is left to the program.
Release ==
    /\ helper.at \in {"finalize", "clear", "release"}
    /\ lock' = Released(helper.req.id)
    /\ HelperEnds
    /\ UNCHANGED <<app, db, backup, journal, result, row, req, prog, pver, truth, bounds>>

----------------------------------------------------------------------------
(* Crashes                                                                  *)

Crash == crashes < MaxCrashes /\ crashes' = crashes + 1

ProgramCrashes ==
    /\ prog # "down" /\ Crash
    /\ ProgramEnds
    /\ lock' = Orphan("program")
    /\ UNCHANGED <<app, db, backup, journal, result, row, req, helper, truth, supervised, installs>>

HelperCrashes ==
    /\ helper.at # "none" /\ Crash
    /\ HelperEnds
    /\ lock' = Orphan("helper")
    /\ UNCHANGED <<app, db, backup, journal, result, row, req, prog, pver, truth, supervised, installs>>

----------------------------------------------------------------------------

ProgramStep == \/ ProgramStarts \/ BootContinues \/ StartRecovery \/ OpenDatabase
               \/ DeliverAtStart \/ Interrupt \/ Tick \/ ProgramStops
               \/ \E v \in Version : InstallBegins(v)
               \/ InstallFails \/ BackupDatabase \/ WriteUpdateRequest \/ HandOff
               \/ LaunchUpdater \/ Shutdown

HelperStep == \/ RefuseRequest \/ TakeOver \/ StopService \/ Waited \/ WaitFails
              \/ FinalizeBackup \/ FinalizeDone \/ BackupFiles \/ BackupFilesDone
              \/ StartUnchanged \/ TellUnchanged \/ WriteTransaction \/ MoveAway \/ MoveIn
              \/ StepFails \/ RestoreDatabase \/ RestoreDone \/ RestoreFails \/ StartProgram
              \/ Healthy \/ Undo \/ StopFails \/ Complete \/ WriteResult
              \/ ClearTransaction \/ Release

Next == ProgramStep \/ HelperStep \/ ProgramCrashes \/ HelperCrashes

Spec == Init /\ [][Next]_vars

----------------------------------------------------------------------------
(* Properties                                                               *)

\* No program works with parts of another version, or on a database that a newer
\* one has opened, wherever replacement or restore was cut off.
ServesWhole ==
    prog \in Serving =>
        /\ app = AllOf(pver)
        /\ \A v \in db.by : v <= pver
        /\ db.state = "whole"

\* The history does not contradict the decision, though the row is restored with
\* the database and marked as interrupted by other starts.
HistoryIsTrue == truth # "none" /\ row \in Status => row = truth

\* The helper is an update transaction (UpdateTransaction) whose journal is
\* windows-transaction.json, and its completion marker is final.
TransactionOf(t) ==
    IF t = None THEN [fate |-> "none"]
    ELSE [from |-> t.request.from, to |-> t.request.to,
          fate |-> IF t.done = "none" THEN "open" ELSE t.done]

Whole == \E v \in Version : app = AllOf(v)
Transacted == INSTANCE UpdateTransaction WITH
    Final <- TRUE, version <- (IF Whole THEN app["exe"] ELSE 0),
    serving <- (prog \in Serving), data <- db.by, txn <- TransactionOf(journal)

ImplementsTransaction == Transacted!Spec

\* A transaction that is left over is handed to the helper (main.go:57), which
\* then finds the lock of it.
RecoveryFindsLock == helper.at = "begin" /\ helper.recover => lock.token = helper.req.id

=============================================================================
