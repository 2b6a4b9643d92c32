------------------------------ MODULE Launcher ------------------------------
(***************************************************************************)
(* The container's launcher (cmd/ctyun-keeper-launcher/main.go) with the   *)
(* files it shares with the program: the current link, the database and    *)
(* its backups, the journal updates/pending.json, updates/update.lock, the *)
(* install request and the result.  The program's own part in an update    *)
(* (runUpdateInstall of internal/web/server.go) is here as far as it       *)
(* touches these files.  A step ends at a file operation; the launcher and *)
(* its program can be gone after each of them.                             *)
(*                                                                         *)
(* launcher.lock admits one launcher to the data directory, so there is    *)
(* one.  Versions are numbers.  A database is described by the versions    *)
(* that have opened it.  Paths, signatures and package contents are not    *)
(* modelled: a request that fails one of these checks is a failure that    *)
(* can always happen.                                                      *)
(***************************************************************************)
EXTENDS Integers, FiniteSets

CONSTANTS Version,      \* program versions
          Image,        \* images: builtin program version and launcher version
          MinLauncher,  \* the launcher that a version needs
          MaxChanges    \* bound on installations and image changes

ASSUME VersionAssumption == Version \subseteq Nat \ {0}
ASSUME MinLauncherAssumption == MinLauncher \in [Version -> Nat]
ASSUME ImageAssumption ==
    \A i \in Image : i.builtin \in Version /\ i.launcher >= MinLauncher[i.builtin]
ASSUME MaxChangesAssumption == MaxChanges \in Nat

BuiltinDir == 0                       \* BUILTIN_DIR; v is the directory versions/v
Dir == Version \cup {BuiltinDir}

Content == [state : {"missing", "torn", "whole"}, by : SUBSET Version, fresh : BOOLEAN]
Missing == [state |-> "missing", by |-> {}, fresh |-> FALSE]
Torn == [state |-> "torn", by |-> {}, fresh |-> FALSE]

\* pendingUpdate: saved is what DatabaseBackup, restore what TargetDatabase
\* holds (Missing for an empty path).
Transaction == [image : BOOLEAN, noFallback : BOOLEAN, recovery : BOOLEAN,
                completed : BOOLEAN, previous : Dir, target : Dir,
                from : Version, to : Version, saved : Content, restore : Content]
None == [target |-> -1]
Open(t) == t # None

UpStage == {"starting", "marking", "marked", "told", "removed", "serving",
            "installing", "backup", "requested", "handedoff"}
Stage == UpStage \cup
         {"down", "select", "copying", "journal", "handoff", "begun",
          "prepare", "preparing", "link", "run",
          "exited", "taken", "final", "apply", "journaled", "unapplied", "rejected",
          "unhealthy", "restore", "restoring", "recover"}

VARIABLES
    image,
    link,       \* runtime/current
    db,         \* ctyun-keeper.db
    backup,     \* updates/backups/<version>/database
    journal,    \* updates/pending.json
    lock,       \* the token in updates/update.lock: of a Begin, or of a transaction
    request,    \* updates/install-request.json: the version to install, or 0
    told,       \* the last result written for the last transaction
    stage, tx,  \* the launcher: where it is, its local variable pending
    last,       \* history: the last transaction that was journaled
    changes

fileVars == <<image, link, db, backup, journal, lock, request, told>>
vars == <<fileVars, stage, tx, last, changes>>

TypeOK ==
    /\ image \in Image
    /\ link \in Dir
    /\ db \in Content
    /\ backup \in [Version -> Content]
    /\ journal \in Transaction \cup {None}
    /\ lock \in {"none", "begin", "tx"}
    /\ request \in Version \cup {0}
    /\ told \in {"none", "success", "failed", "rolled_back"}
    /\ stage \in Stage
    /\ tx \in Transaction \cup {None}
    /\ last \in Transaction \cup {None}
    /\ changes \in 0..MaxChanges

\* A container that has run its builtin program.
Init ==
    /\ image \in Image
    /\ link = BuiltinDir
    /\ db = [state |-> "whole", by |-> {image.builtin}, fresh |-> FALSE]
    /\ backup = [v \in Version |-> Missing]
    /\ journal = None
    /\ lock = "none"
    /\ request = 0
    /\ told = "none"
    /\ stage = "down"
    /\ tx = None
    /\ last = None
    /\ changes = 0

----------------------------------------------------------------------------
(* Helpers                                                                  *)

VersionAt(d) == IF d = BuiltinDir THEN image.builtin ELSE d
Compatible(v) == image.launcher >= MinLauncher[v]
Current == VersionAt(link)
Stored == db.state # "missing"

\* os.Exit, log.Fatal, a signal, a crash: what the process knew is gone.
Down == stage' = "down" /\ tx' = None

Goto(s) == stage' = s /\ UNCHANGED tx

\* SuccessStatus of a transaction.
StatusOf(t) == IF ~t.recovery THEN "success"
               ELSE IF t.noFallback THEN "failed" ELSE "rolled_back"

\* The versions a journal names are still what its directories hold, and an
\* installation's policy admits this image.
Valid(t) == /\ VersionAt(t.previous) = t.from
            /\ VersionAt(t.target) = IF t.recovery THEN t.from ELSE t.to
            /\ ~t.image => Compatible(t.to)

Change == changes < MaxChanges /\ changes' = changes + 1

----------------------------------------------------------------------------
(* Starting the launcher                                                    *)

\* Without a journal the lock of a dead process is cleared and a new one begun.
StartClean ==
    /\ stage = "down" /\ journal = None
    /\ lock' = "begin"
    /\ Goto("select")
    /\ UNCHANGED <<image, link, db, backup, journal, request, told, last, changes>>

\* Mutant: the lock is cleared although there is a journal.
StartPendingUnlocked ==
    /\ stage = "down" /\ Open(journal) /\ Valid(journal)
    /\ lock' = "none"
    /\ stage' = "prepare" /\ tx' = journal
    /\ UNCHANGED <<image, link, db, backup, journal, request, told, last, changes>>

\* A journal takes over the lock of its transaction; when there is none a new
\* one is begun, and handed to the transaction next.  Any other lock, or a
\* journal that is not valid any more, ends the launcher at once.
StartPending ==
    /\ stage = "down" /\ Open(journal) /\ Valid(journal)
    /\ lock \in {"none", "tx"}
    /\ lock' = IF lock = "none" THEN "begin" ELSE lock
    /\ stage' = IF lock = "none" THEN "begun" ELSE "prepare"
    /\ tx' = journal
    /\ UNCHANGED <<image, link, db, backup, journal, request, told, last, changes>>

HandOffBegun ==
    /\ stage = "begun"
    /\ lock' = "tx"
    /\ Goto("prepare")
    /\ UNCHANGED <<image, link, db, backup, journal, request, told, last, changes>>

\* selectStartupVersion keeps the current version.
KeepCurrent ==
    /\ stage = "select"
    /\ Compatible(Current) /\ Current >= image.builtin
    /\ lock' = "none"
    /\ Goto("run")
    /\ UNCHANGED <<image, link, db, backup, journal, request, told, last, changes>>

\* A transaction to the program of the image, which is newer, or all there is
\* that this launcher can run.
ImageTransaction ==
    LET incompatible == ~Compatible(Current) IN
    [image |-> TRUE, noFallback |-> incompatible, recovery |-> FALSE, completed |-> FALSE,
     previous |-> link, target |-> BuiltinDir, from |-> Current, to |-> image.builtin,
     saved |-> db,
     restore |-> IF incompatible /\ Stored THEN backup[image.builtin] ELSE Missing]

\* The database is copied first: for a newer image over the backup of the
\* current version, otherwise to a file of its own.
SelectImage ==
    /\ stage = "select"
    /\ ~Compatible(Current) \/ Current < image.builtin
    /\ backup' = IF Stored /\ Compatible(Current) THEN [backup EXCEPT ![Current] = Torn] ELSE backup
    /\ Goto("copying")
    /\ UNCHANGED <<image, link, db, journal, lock, request, told, last, changes>>

CopyDone ==
    /\ stage = "copying"
    /\ backup' = IF Stored /\ Compatible(Current) THEN [backup EXCEPT ![Current] = db] ELSE backup
    /\ IF ~Compatible(Current) /\ Stored /\ backup[image.builtin] = Missing
       THEN lock' = "none" /\ Down
       ELSE UNCHANGED lock /\ stage' = "journal" /\ tx' = ImageTransaction
    /\ UNCHANGED <<image, link, db, journal, request, told, last, changes>>

\* saveNewPending: the journal, then the lock.
SaveNewPending ==
    /\ stage = "journal"
    /\ journal' = tx /\ last' = tx /\ told' = "none"
    /\ Goto("handoff")
    /\ UNCHANGED <<image, link, db, backup, lock, request, changes>>

HandOffNew ==
    /\ stage = "handoff"
    /\ lock' = "tx"
    /\ Goto("prepare")
    /\ UNCHANGED <<image, link, db, backup, journal, request, told, last, changes>>

----------------------------------------------------------------------------
(* Restoring a database: the old files are moved away, the copies moved in  *)

MoveAway == db' = Missing
MoveIn(content) == db' = content

\* preparePending.
Prepare ==
    /\ stage = "prepare"
    /\ IF tx.restore # Missing THEN MoveAway /\ Goto("preparing")
                               ELSE UNCHANGED db /\ Goto("link")
    /\ UNCHANGED <<image, link, backup, journal, lock, request, told, last, changes>>

PrepareDone ==
    /\ stage = "preparing"
    /\ MoveIn(tx.restore)
    /\ Goto("link")
    /\ UNCHANGED <<image, link, backup, journal, lock, request, told, last, changes>>

SwitchCurrent ==
    /\ stage = "link"
    /\ link' = tx.target
    /\ Goto("run")
    /\ UNCHANGED <<image, db, backup, journal, lock, request, told, last, changes>>

----------------------------------------------------------------------------
(* Running the program                                                      *)

\* The program opens, upgrades or creates the database.
RunProgram ==
    /\ stage = "run"
    /\ IF Compatible(Current)
       THEN /\ Goto("starting")
            /\ db' = [state |-> IF Stored THEN db.state ELSE "whole",
                      by |-> IF db.state = "torn" THEN {} ELSE db.by \cup {Current},
                      fresh |-> db.fresh \/ ~Stored]
       ELSE Down /\ UNCHANGED db
    /\ UNCHANGED <<image, link, backup, journal, lock, request, told, last, changes>>

\* Three good answers of /health; a transaction is completed next.
Healthy ==
    /\ stage = "starting" /\ db.state = "whole"
    /\ Goto(IF Open(tx) THEN "marking" ELSE "serving")
    /\ UNCHANGED <<fileVars, last, changes>>

\* completePending: marker, result, journal, lock.
MarkCompleted ==
    /\ stage = "marking"
    /\ tx' = [tx EXCEPT !.completed = TRUE]
    /\ journal' = tx'
    /\ stage' = "marked"
    /\ UNCHANGED <<image, link, db, backup, lock, request, told, last, changes>>

\* Mutant: a recovery is reported as what was asked for.
TellSuccess ==
    /\ stage = "marked"
    /\ told' = "success"
    /\ Goto("told")
    /\ UNCHANGED <<image, link, db, backup, journal, lock, request, last, changes>>

TellResult ==
    /\ stage = "marked"
    /\ told' = StatusOf(tx)
    /\ Goto("told")
    /\ UNCHANGED <<image, link, db, backup, journal, lock, request, last, changes>>

RemoveJournal ==
    /\ stage = "told"
    /\ journal' = None
    /\ Goto("removed")
    /\ UNCHANGED <<image, link, db, backup, lock, request, told, last, changes>>

ReleaseLock ==
    /\ stage = "removed"
    /\ lock' = "none"
    /\ stage' = "serving" /\ tx' = None
    /\ UNCHANGED <<image, link, db, backup, journal, request, told, last, changes>>

\* A write of completePending fails: the transaction stays open while the
\* program serves.
CompletionFails ==
    /\ stage \in {"marking", "marked", "told"}
    /\ Goto("serving")
    /\ UNCHANGED <<fileVars, last, changes>>

\* No answer in time, or the program ends.  Without a transaction the launcher
\* ends with it; a recovery that fails leaves its journal.
Unhealthy ==
    /\ stage = "starting"
    /\ IF Open(tx) /\ ~tx.recovery THEN Goto("unhealthy") /\ UNCHANGED told
       ELSE /\ Down
            /\ told' = IF Open(tx) THEN "failed" ELSE told
    /\ UNCHANGED <<image, link, db, backup, journal, lock, request, last, changes>>

SwitchBack ==
    /\ stage = "unhealthy"
    /\ link' = tx.previous
    /\ Goto("restore")
    /\ UNCHANGED <<image, db, backup, journal, lock, request, told, last, changes>>

\* Mutant: the program is switched back, the database is not.
KeepDatabase ==
    /\ stage = "restore"
    /\ Goto("recover")
    /\ UNCHANGED <<fileVars, last, changes>>

RestoreDatabase ==
    /\ stage = "restore"
    /\ IF tx.saved # Missing THEN MoveAway /\ Goto("restoring")
                             ELSE UNCHANGED db /\ Goto("recover")
    /\ UNCHANGED <<image, link, backup, journal, lock, request, told, last, changes>>

RestoreDone ==
    /\ stage = "restoring"
    /\ MoveIn(tx.saved)
    /\ Goto("recover")
    /\ UNCHANGED <<image, link, backup, journal, lock, request, told, last, changes>>

\* Switching back or restoring fails.
RollbackFails ==
    /\ stage \in {"unhealthy", "restore"}
    /\ told' = "failed"
    /\ Down
    /\ UNCHANGED <<image, link, db, backup, journal, lock, request, last, changes>>

\* The journal now leads to the previous version, which this launcher may be
\* unable to run.
SaveRecovery ==
    LET recovery == [tx EXCEPT !.recovery = TRUE, !.target = tx.previous,
                               !.restore = Missing, !.completed = FALSE] IN
    /\ stage = "recover"
    /\ journal' = recovery
    /\ IF tx.noFallback THEN Down ELSE stage' = "run" /\ tx' = recovery
    /\ UNCHANGED <<image, link, db, backup, lock, request, told, last, changes>>

----------------------------------------------------------------------------
(* An installation: the program's part                                      *)

\* updateManager.Begin, which needs the lock file to be free.
InstallBegins ==
    /\ stage = "serving" /\ lock = "none"
    /\ Change
    /\ lock' = "begin"
    /\ Goto("installing")
    /\ UNCHANGED <<image, link, db, backup, journal, request, told, last>>

InstallFails ==
    /\ stage \in {"installing", "backup", "requested"}
    /\ lock' = "none"
    /\ Goto("serving")
    /\ UNCHANGED <<image, link, db, backup, journal, request, told, last, changes>>

BackupDatabase ==
    /\ stage = "installing"
    /\ backup' = [backup EXCEPT ![Current] = Torn]
    /\ Goto("backup")
    /\ UNCHANGED <<image, link, db, journal, lock, request, told, last, changes>>

\* The backup is complete, the request is written.
WriteUpdateRequest(v) ==
    /\ stage = "backup"
    /\ v > Current /\ Compatible(v)
    /\ backup' = [backup EXCEPT ![Current] = db]
    /\ request' = v
    /\ Goto("requested")
    /\ UNCHANGED <<image, link, db, journal, lock, told, last, changes>>

HandOffRequest ==
    /\ stage = "requested"
    /\ lock' = "tx"
    /\ Goto("handedoff")
    /\ UNCHANGED <<image, link, db, backup, journal, request, told, last, changes>>

\* The program ends with ExitUpdateRequested.
ExitForUpdate ==
    /\ stage = "handedoff"
    /\ Goto("exited")
    /\ UNCHANGED <<fileVars, last, changes>>

----------------------------------------------------------------------------
(* An installation: the launcher's part                                     *)

\* The transaction of a request for version v.
Installation(v) ==
    [image |-> FALSE, noFallback |-> FALSE, recovery |-> FALSE, completed |-> FALSE,
     previous |-> Current, target |-> v, from |-> Current, to |-> v,
     saved |-> Missing, restore |-> Missing]

\* Mutant: the request is removed before it is read.
ConsumeRemoved ==
    /\ stage = "exited"
    /\ request' = 0
    /\ stage' = "taken" /\ tx' = Installation(request')
    /\ UNCHANGED <<image, link, db, backup, journal, lock, told, last, changes>>

\* consumeRequest and TakeOverUpdateLock.
ConsumeRequest ==
    /\ stage = "exited"
    /\ request' = 0
    /\ stage' = "taken" /\ tx' = Installation(request)
    /\ UNCHANGED <<image, link, db, backup, journal, lock, told, last, changes>>

\* The request is not accepted, which no result tells; or the copy, the policy,
\* the package or the link fail.
InstallRejected ==
    /\ stage \in {"exited", "taken", "final", "apply", "unapplied"}
    /\ request' = 0
    /\ told' = IF stage = "exited" THEN told ELSE "failed"
    /\ stage' = "rejected" /\ tx' = None
    /\ UNCHANGED <<image, link, db, backup, journal, lock, last, changes>>

\* The program is run again.
ReleaseRejected ==
    /\ stage = "rejected"
    /\ lock' = "none"
    /\ Goto("run")
    /\ UNCHANGED <<image, link, db, backup, journal, request, told, last, changes>>

\* FinalizeDatabaseBackup.
FinalizeBackup ==
    /\ stage = "taken"
    /\ backup' = [backup EXCEPT ![tx.from] = Torn]
    /\ Goto("final")
    /\ UNCHANGED <<image, link, db, journal, lock, request, told, last, changes>>

FinalizeDone ==
    /\ stage = "final"
    /\ backup' = [backup EXCEPT ![tx.from] = db]
    /\ stage' = "apply" /\ tx' = [tx EXCEPT !.saved = db]
    /\ UNCHANGED <<image, link, db, journal, lock, request, told, last, changes>>

\* applyUpdate: the new version's directory and, when the builtin program is
\* current, a copy of that as previous; the journal; the link.
ApplyUpdate ==
    /\ stage = "apply"
    /\ journal' = tx /\ last' = tx /\ told' = "none"
    /\ Goto("journaled")
    /\ UNCHANGED <<image, link, db, backup, lock, request, changes>>

ApplyLink ==
    /\ stage = "journaled"
    /\ link' = tx.target
    /\ Goto("run")
    /\ UNCHANGED <<image, db, backup, journal, lock, request, told, last, changes>>

\* The link cannot be switched: the journal goes again, before anything is told.
ApplyFails ==
    /\ stage = "journaled"
    /\ journal' = None
    /\ Goto("unapplied")
    /\ UNCHANGED <<image, link, db, backup, lock, request, told, last, changes>>

----------------------------------------------------------------------------
(* The container                                                            *)

\* A signal, an exit of the program with another code, a crash, a failed step
\* of the start: whatever is running is gone, the files stay.
Stop ==
    /\ stage # "down"
    /\ Down
    /\ UNCHANGED <<fileVars, last, changes>>

\* Somebody removes the lock file that keeps a launcher from starting.
LockRemoved ==
    /\ stage = "down" /\ Open(journal) /\ lock = "begin"
    /\ lock' = "none"
    /\ UNCHANGED <<image, link, db, backup, journal, request, told, stage, tx, last, changes>>

\* The container is made again from another image, which has no older program.
ImageChanges(i) ==
    /\ stage = "down"
    /\ i # image /\ i.builtin >= image.builtin
    /\ Change
    /\ image' = i
    /\ UNCHANGED <<link, db, backup, journal, lock, request, told, stage, tx, last>>

----------------------------------------------------------------------------

StartStep == \/ StartClean \/ StartPending \/ HandOffBegun \/ KeepCurrent \/ SelectImage
             \/ CopyDone \/ SaveNewPending \/ HandOffNew \/ Prepare \/ PrepareDone
             \/ SwitchCurrent

RunStep == \/ RunProgram \/ Healthy \/ MarkCompleted \/ TellResult \/ RemoveJournal
           \/ ReleaseLock \/ CompletionFails \/ Unhealthy \/ SwitchBack \/ RestoreDatabase
           \/ RestoreDone \/ RollbackFails \/ SaveRecovery

InstallStep == \/ InstallBegins \/ InstallFails \/ BackupDatabase \/ HandOffRequest
               \/ \E v \in Version : WriteUpdateRequest(v)
               \/ ExitForUpdate \/ ConsumeRequest \/ InstallRejected \/ ReleaseRejected
               \/ FinalizeBackup \/ FinalizeDone \/ ApplyUpdate \/ ApplyLink \/ ApplyFails

Next == \/ StartStep \/ RunStep \/ InstallStep \/ Stop \/ LockRemoved
        \/ \E i \in Image : ImageChanges(i)

Spec == Init /\ [][Next]_vars

----------------------------------------------------------------------------
(* Properties                                                               *)

\* The result that was told of a finished transaction is what the files say.
ResultsAreTrue ==
    Open(last) /\ journal = None =>
        /\ told = "success" => link = last.target
        /\ told = "rolled_back" => link = last.previous /\ last.to \notin db.by

\* No installation begins while another one is still to be finished or undone.
JournalExcludesInstall == [][InstallBegins => journal = None]_vars

\* The launcher is an update transaction (UpdateTransaction), whose journal is
\* pending.json and whose decision is its completion marker: program and data
\* change only under a journal, and it goes only when what it decided is what runs
\* next, and no program serves on a database that a newer one has opened, wherever
\* an installation, a rollback or an image change was cut off.  The decision is not
\* final, since a marked journal is run again.
JournalOf(t) ==
    IF t = None THEN [fate |-> "none"]
    ELSE [from |-> t.from, to |-> t.to,
          fate |-> IF t.completed THEN StatusOf(t) ELSE "open"]

Transacted == INSTANCE UpdateTransaction WITH
    Final <- FALSE, version <- Current, serving <- (stage \in UpStage),
    data <- db.by, txn <- JournalOf(journal)

ImplementsTransaction == Transacted!Spec

\* A launcher that is started again can go on with its journal: no other live
\* process can own the lock (lock.go:129).
JournalCanBeTakenOver == stage = "down" /\ Open(journal) => lock \in {"none", "tx"}

\* A restore is atomic (security_test.go:320): no program ever begins with an
\* empty database in place of the user's.
DatabaseSurvives == ~db.fresh

=============================================================================
