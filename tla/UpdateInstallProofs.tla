-------------------------- MODULE UpdateInstallProofs --------------------------
(***************************************************************************)
(* Theorems about UpdateInstall for every set of jobs, versions and        *)
(* installations, on both platforms: type correctness, one job at a time,  *)
(* and an executor that finds a verified package and a backup of its own   *)
(* installation.  The last two hold unless a tick has ended the wrong job, *)
(* as their definitions say.                                               *)
(***************************************************************************)
EXTENDS UpdateInstall, FiniteSetTheorems, TLAPS

Pc == {"idle", "checking", "asking", "downloading", "extracting", "prepare", "waiting",
       "backup", "request", "handoff", "launch"}
ExecutorPc == {"none", "launched", "waiting", "working", "recover", "recovering", "replaced",
               "restoring", "kept", "leaving"} \cup Finished

WorkerT == [pc : Pc, id : Install \cup {0}]
LockT == [token : 0..(MaxJobs + MaxInstalls), owner : {"none", "program", "executor"}]
RowT == [from : Version, to : Version, status : RowStatus]
ExecutorT == [pc : ExecutorPc, id : Install \cup {0}]
StagingT == [id : Install \cup {0}, state : {"none", "partial", "verified"}]

HasRow(i) == i \in Install /\ rows[i] \in RowT
Busy(w) == worker[w].pc # "idle"

ResultT == [id : Install, status : Finished]

\* TypeOK in four parts, and the types it leaves open.
FlagInv ==
    /\ docker \in BOOLEAN /\ up \in BOOLEAN /\ active \in BOOLEAN
    /\ maintenance \in BOOLEAN /\ exiting \in BOOLEAN /\ raced \in BOOLEAN

FlatInv ==
    /\ version \in Version /\ held \in 0..MaxJobs /\ jobs \in 0..MaxJobs
    /\ progress \in Progress
    /\ backup \in Install \cup {0} /\ request \in Install \cup {0}
    /\ journal \in Install \cup {0} /\ silent \subseteq Install
    /\ tick \in {"idle", "consumed", "stopping"} \cup Finished

FileInv == lock \in LockT /\ staging \in StagingT /\ results \subseteq ResultT

ShapeInv ==
    /\ worker \in [Worker -> WorkerT]
    /\ rows \in [Install -> RowT \cup {NoRow}]
    /\ executor \in ExecutorT

\* Whatever refers to an installation refers to a row of the history, in races too.
RowInv ==
    /\ \A w \in Worker : worker[w].pc \notin {"idle", "checking", "asking"} => HasRow(worker[w].id)
    /\ \A w \in Worker : worker[w].id # 0 => HasRow(worker[w].id)
    /\ request # 0 => HasRow(request)
    /\ journal # 0 => HasRow(journal)
    /\ executor.pc # "none" => HasRow(executor.id)
    /\ \A x \in results : HasRow(x.id)

\* Jobs live in the program; in Docker no helper is launched, and a program that
\* is to exit leaves a request.
PlatformInv ==
    /\ ~up => \A w \in Worker : ~Busy(w)
    /\ ~active => held = 0
    /\ docker =>
          /\ executor.pc \notin {"launched", "waiting", "recover", "recovering"}
          /\ \A w \in Worker : worker[w].pc # "launch"
          /\ \A w \in Worker : worker[w].pc = "handoff" => request # 0
          /\ exiting => request # 0

\* One job at a time, or one executor, or one program that is to exit for its
\* launcher: the lock says whose turn it is.  A helper that recovers comes when it
\* is nobody's.
TurnInv ==
    /\ \A v, w \in Worker : Busy(v) /\ Busy(w) => v = w
    /\ \A w \in Worker : Busy(w) => executor.pc = "none" /\ ~(docker /\ exiting)
    /\ active => held # 0 /\ lock = [token |-> held, owner |-> "program"]
    /\ \A w \in Worker : Busy(w) /\ worker[w].pc # "launch" => active
    /\ \A w \in Worker : worker[w].pc = "launch" =>
          ~active /\ lock = [token |-> TokenOf(worker[w].id), owner |-> "program"]
    /\ executor.pc = "recover" =>
          ~active /\ lock.owner = "none" /\ (up => exiting)
    /\ executor.pc \notin {"none", "recover"} =>
          /\ ~active /\ lock.token = TokenOf(executor.id)
          /\ executor.pc # "launched" => lock.owner = "executor"
          /\ executor.pc = "launched" /\ up => lock.owner = "program"
    /\ docker /\ exiting =>
          /\ executor.pc = "none" /\ ~active /\ lock.token = TokenOf(request)
          /\ up => lock.owner = "program"

\* What has been verified and backed up for an installation stays until its
\* executor has used it.
PackageOf(i) == staging = [id |-> i, state |-> "verified"]

PackageInv ==
    /\ \A w \in Worker :
          /\ worker[w].pc \in {"prepare", "waiting", "backup", "request", "handoff", "launch"} =>
                PackageOf(worker[w].id)
          /\ worker[w].pc \in {"request", "handoff", "launch"} => backup = worker[w].id
          /\ worker[w].pc \in {"handoff", "launch"} => request = worker[w].id
    /\ docker /\ exiting => PackageOf(request) /\ backup = request
    /\ executor.pc \in {"launched", "waiting", "working"} =>
          PackageOf(executor.id) /\ backup = executor.id

IInv ==
    /\ FlagInv /\ FlatInv /\ FileInv /\ ShapeInv /\ RowInv /\ PlatformInv
    /\ raced \/ (TurnInv /\ PackageInv)

----------------------------------------------------------------------------

\* A job goes on, or ends.
LEMMA GoesTyped ==
  ASSUME ShapeInv, NEW w \in Worker, NEW c \in Pc, Goes(w, c)
  PROVE  /\ worker' \in [Worker -> WorkerT]
         /\ worker'[w].pc = c /\ worker'[w].id = worker[w].id
         /\ \A v \in Worker : v # w => worker'[v] = worker[v]
<1>1. worker[w] \in WorkerT
  BY DEF ShapeInv
<1>2. [worker[w] EXCEPT !.pc = c] \in WorkerT
  BY <1>1 DEF WorkerT
<1> QED
  BY <1>1, <1>2 DEF ShapeInv, Goes, WorkerT

LEMMA IdleTyped ==
  ASSUME ShapeInv, NEW w \in Worker, worker' = [worker EXCEPT ![w] = Idle]
  PROVE  /\ worker' \in [Worker -> WorkerT]
         /\ worker'[w].pc = "idle" /\ worker'[w].id = 0
         /\ \A v \in Worker : v # w => worker'[v] = worker[v]
<1>1. Idle \in WorkerT /\ Idle.pc = "idle" /\ Idle.id = 0
  BY DEF WorkerT, Pc, Idle
<1> QED
  BY <1>1 DEF ShapeInv

\* A row changes its status and stays a row.
LEMMA RowTyped ==
  ASSUME ShapeInv, NEW i, HasRow(i), NEW s \in RowStatus,
         rows' = [rows EXCEPT ![i].status = s]
  PROVE  rows' \in [Install -> RowT \cup {NoRow}] /\ \A j : HasRow(j) => HasRow(j)'
<1>1. [rows[i] EXCEPT !.status = s] \in RowT
  BY DEF HasRow, RowT
<1> QED
  BY <1>1 DEF ShapeInv, HasRow

\* Whoever writes the lock or hands the work on.
LEMMA LockTyped ==
  ASSUME NEW l \in LockT, NEW t \in 0..(MaxJobs + MaxInstalls),
         NEW o \in {"none", "program", "executor"}
  PROVE  /\ [l EXCEPT !.owner = o] \in LockT /\ [l EXCEPT !.token = t] \in LockT
         /\ [token |-> t, owner |-> o] \in LockT
BY DEF LockT

LEMMA FreeTyped == Free \in LockT
BY VersionAssumption DEF Free, LockT

LEMMA ExecutorTyped ==
  ASSUME NEW e \in ExecutorT, NEW c \in ExecutorPc, NEW i \in Install \cup {0}
  PROVE  /\ [e EXCEPT !.pc = c] \in ExecutorT /\ [pc |-> c, id |-> i] \in ExecutorT
         /\ [e EXCEPT !.pc = c].pc = c /\ [e EXCEPT !.pc = c].id = e.id
BY DEF ExecutorT

LEMMA NobodyTyped == Nobody \in ExecutorT /\ Nobody.pc = "none"
BY DEF Nobody, ExecutorT, ExecutorPc

LEMMA TypesOfParts == FlagInv /\ FlatInv /\ FileInv /\ ShapeInv => TypeOK
<1> SUFFICES ASSUME FlagInv, FlatInv, FileInv, ShapeInv
             PROVE  TypeOK
  OBVIOUS
<1>1. \A w \in Worker : worker[w].id \in Install \cup {0}
  BY DEF ShapeInv, WorkerT
<1>2. \A i \in Install : rows[i].status \in RowStatus
  BY DEF ShapeInv, RowT, NoRow, RowStatus
<1>3. executor.id \in Install \cup {0}
  BY DEF ShapeInv, ExecutorT
<1> QED
  BY <1>1, <1>2, <1>3 DEF TypeOK, FlagInv, FlatInv, FileInv, LockT, StagingT, ResultT

LEMMA InitIInv == Init => IInv
<1> SUFFICES ASSUME Init
             PROVE  IInv
  OBVIOUS
<1> USE VersionAssumption DEF Init
<1>1. ShapeInv
  BY DEF ShapeInv, WorkerT, Pc, Idle, ExecutorT, ExecutorPc, Nobody
<1>5. FlagInv
  BY DEF FlagInv
<1>2. FlatInv
  BY DEF FlatInv, Version, Progress, Finished
<1>3. FileInv
  BY FreeTyped DEF FileInv, StagingT, NoPackage
<1>4. RowInv /\ PlatformInv /\ TurnInv /\ PackageInv
  BY DEF RowInv, PlatformInv, TurnInv, PackageInv, Busy, Idle, Nobody
<1> QED
  BY <1>5, <1>1, <1>2, <1>3, <1>4 DEF IInv

LEMMA WorkerIInv ==
  ASSUME IInv, NEW w \in Worker, BeginCheck(w) \/ InstallBegins(w) \/ WorkerStep(w)
  PROVE  IInv'
<1> USE VersionAssumption DEF IInv, manager, files, process, history, Busy, TokenOf
<1>1. CASE BeginCheck(w)
  <2>1. /\ worker' \in [Worker -> WorkerT]
        /\ worker'[w].pc = "checking" /\ worker'[w].id = worker[w].id
        /\ \A v \in Worker : v # w => worker'[v] = worker[v]
    BY <1>1, GoesTyped DEF BeginCheck, Pc
  <2>2. /\ lock' \in LockT /\ lock' = [token |-> jobs + 1, owner |-> "program"] /\ lock.owner = "none"
        /\ jobs \in 0..MaxJobs /\ jobs' \in 0..MaxJobs /\ held' \in 0..MaxJobs /\ held' = jobs + 1
    <3>1. jobs \in 0..MaxJobs /\ jobs + 1 \in 0..MaxJobs /\ jobs + 1 \in 0..(MaxJobs + MaxInstalls)
      BY <1>1 DEF FlatInv, BeginCheck, Begin
    <3> QED
      BY <1>1, <3>1, LockTyped DEF BeginCheck, Begin, MayBegin, FileInv
  <2>3. FileInv' /\ ShapeInv' /\ RowInv'
    BY <1>1, <2>1, <2>2 DEF BeginCheck, Begin, MayBegin,
              FileInv, ShapeInv, RowInv, HasRow
  <2>4. FlagInv'
    BY <1>1, <2>1, <2>2 DEF BeginCheck, Begin, MayBegin, FlagInv
  <2>5. FlatInv'
    BY <1>1, <2>1, <2>2 DEF BeginCheck, Begin, FlatInv, Progress, Finished
  <2>6. PlatformInv'
    BY <1>1, <2>1, <2>2 DEF BeginCheck, Begin, MayBegin, PlatformInv
  <2>7. raced' \/ TurnInv'
    BY <1>1, <2>1, <2>2 DEF BeginCheck, Begin, MayBegin, TurnInv, PlatformInv, FlatInv
  <2>8. raced' \/ PackageInv'
    BY <1>1, <2>1, <2>2 DEF BeginCheck, Begin, MayBegin, TurnInv, PackageInv, PackageOf, PlatformInv, FlatInv
  <2> QED
    BY <2>3, <2>4, <2>5, <2>6, <2>7, <2>8
<1>2. CASE PerformCheck(w)
  <2>1. /\ worker' \in [Worker -> WorkerT]
        /\ worker'[w].pc = "idle" /\ worker'[w].id = 0
        /\ \A v \in Worker : v # w => worker'[v] = worker[v]
    BY <1>2, IdleTyped DEF PerformCheck
  <2>2. lock' \in LockT /\ (lock' = lock \/ lock' = Free)
    BY <1>2, FreeTyped DEF Finish, FileInv, PerformCheck
  <2>3. FileInv' /\ ShapeInv' /\ RowInv'
    BY <1>2, <2>1, <2>2 DEF PerformCheck, Finish,
              FileInv, ShapeInv, RowInv, HasRow
  <2>4. FlagInv'
    BY <1>2, <2>1, <2>2 DEF PerformCheck, Finish, FlagInv
  <2>5. FlatInv'
    BY <1>2, <2>1, <2>2 DEF PerformCheck, Finish, FlatInv, Progress, Finished
  <2>6. PlatformInv'
    BY <1>2, <2>1, <2>2 DEF PerformCheck, Finish, PlatformInv
  <2>7. raced' \/ TurnInv'
    BY <1>2, <2>1, <2>2 DEF PerformCheck, Finish, TurnInv, PlatformInv, FlatInv
  <2>8. raced' \/ PackageInv'
    BY <1>2, <2>1, <2>2 DEF PerformCheck, Finish, TurnInv, PackageInv, PackageOf, PlatformInv, FlatInv
  <2> QED
    BY <2>3, <2>4, <2>5, <2>6, <2>7, <2>8
<1>3. CASE InstallBegins(w)
  <2>1. /\ worker' \in [Worker -> WorkerT]
        /\ worker'[w].pc = "asking" /\ worker'[w].id = worker[w].id
        /\ \A v \in Worker : v # w => worker'[v] = worker[v]
    BY <1>3, GoesTyped DEF InstallBegins, Pc
  <2>2. /\ lock' \in LockT /\ lock' = [token |-> jobs + 1, owner |-> "program"] /\ lock.owner = "none"
        /\ jobs \in 0..MaxJobs /\ jobs' \in 0..MaxJobs /\ held' \in 0..MaxJobs /\ held' = jobs + 1
    <3>1. jobs \in 0..MaxJobs /\ jobs + 1 \in 0..MaxJobs /\ jobs + 1 \in 0..(MaxJobs + MaxInstalls)
      BY <1>3 DEF FlatInv, InstallBegins, Begin
    <3> QED
      BY <1>3, <3>1, LockTyped DEF InstallBegins, Begin, MayBegin, FileInv
  <2>3. FileInv' /\ ShapeInv' /\ RowInv'
    BY <1>3, <2>1, <2>2 DEF InstallBegins, Begin, MayBegin,
              FileInv, ShapeInv, RowInv, HasRow
  <2>4. FlagInv'
    BY <1>3, <2>1, <2>2 DEF InstallBegins, Begin, MayBegin, FlagInv
  <2>5. FlatInv'
    BY <1>3, <2>1, <2>2 DEF InstallBegins, Begin, FlatInv, Progress, Finished
  <2>6. PlatformInv'
    BY <1>3, <2>1, <2>2 DEF InstallBegins, Begin, MayBegin, PlatformInv
  <2>7. raced' \/ TurnInv'
    BY <1>3, <2>1, <2>2 DEF InstallBegins, Begin, MayBegin, TurnInv, PlatformInv, FlatInv
  <2>8. raced' \/ PackageInv'
    BY <1>3, <2>1, <2>2 DEF InstallBegins, Begin, MayBegin, TurnInv, PackageInv, PackageOf, PlatformInv, FlatInv
  <2> QED
    BY <2>3, <2>4, <2>5, <2>6, <2>7, <2>8
<1>4. CASE CheckRelease(w)
  <2>1. \E i \in Install, r \in Release :
            /\ rows' = [rows EXCEPT ![i] = [from |-> version, to |-> r.latest, status |-> "downloading"]]
            /\ worker' = [worker EXCEPT ![w] = [pc |-> "downloading", id |-> i]]
    BY <1>4 DEF CheckRelease
  <2>2. /\ worker' \in [Worker -> WorkerT]
        /\ worker'[w].pc = "downloading" /\ HasRow(worker[w].id)'
        /\ \A v \in Worker : v # w => worker'[v] = worker[v]
        /\ rows' \in [Install -> RowT \cup {NoRow}] /\ \A j : HasRow(j) => HasRow(j)'
    <3> PICK i \in Install, r \in Release :
            /\ rows' = [rows EXCEPT ![i] = [from |-> version, to |-> r.latest, status |-> "downloading"]]
            /\ worker' = [worker EXCEPT ![w] = [pc |-> "downloading", id |-> i]]
      BY <2>1
    <3>1. [from |-> version, to |-> r.latest, status |-> "downloading"] \in RowT
      BY DEF RowT, RowStatus, Release, FlatInv
    <3>2. [pc |-> "downloading", id |-> i] \in WorkerT
      BY DEF WorkerT, Pc
    <3> QED
      BY <3>1, <3>2 DEF ShapeInv, HasRow
  <2>3. FileInv' /\ ShapeInv'
    BY <1>4, <2>1, <2>2 DEF CheckRelease,
              FileInv, ShapeInv
  <2>4. FlagInv'
    BY <1>4, <2>1, <2>2 DEF CheckRelease, FlagInv
  <2>5. FlatInv'
    BY <1>4, <2>1, <2>2 DEF CheckRelease, FlatInv, Progress, Finished
  <2>6. RowInv'
    BY <1>4, <2>1, <2>2 DEF CheckRelease, RowInv, HasRow
  <2>7. PlatformInv'
    BY <1>4, <2>1, <2>2 DEF CheckRelease, PlatformInv
  <2>8. raced' \/ TurnInv'
    BY <1>4, <2>1, <2>2 DEF CheckRelease, TurnInv, PlatformInv, FlatInv
  <2>9. raced' \/ PackageInv'
    BY <1>4, <2>1, <2>2 DEF CheckRelease, TurnInv, PackageInv, PackageOf, PlatformInv, FlatInv
  <2> QED
    BY <2>3, <2>4, <2>5, <2>6, <2>7, <2>8, <2>9
<1>5. CASE Download(w)
  <2>1. /\ worker' \in [Worker -> WorkerT]
        /\ worker'[w].pc = "extracting" /\ worker'[w].id = worker[w].id
        /\ \A v \in Worker : v # w => worker'[v] = worker[v]
    BY <1>5, GoesTyped DEF Download, Pc
  <2>2. worker[w].id \in Install \cup {0}
    BY DEF ShapeInv, WorkerT
  <2>3. FlagInv' /\ FlatInv' /\ ShapeInv' /\ RowInv' /\ PlatformInv'
    BY <1>5, <2>1, <2>2 DEF Download,
              FlagInv, FlatInv, ShapeInv, RowInv, HasRow, PlatformInv
  <2>4. FileInv'
    BY <1>5, <2>1, <2>2 DEF Download, FileInv, StagingT
  <2>5. raced' \/ TurnInv'
    BY <1>5, <2>1, <2>2 DEF Download, TurnInv, PlatformInv, FlatInv
  <2>6. raced' \/ PackageInv'
    BY <1>5, <2>1, <2>2 DEF Download, TurnInv, PackageInv, PackageOf, PlatformInv, FlatInv
  <2> QED
    BY <2>3, <2>4, <2>5, <2>6
<1>6. CASE Extract(w)
  <2>1. /\ worker' \in [Worker -> WorkerT]
        /\ worker'[w].pc = "prepare" /\ worker'[w].id = worker[w].id
        /\ \A v \in Worker : v # w => worker'[v] = worker[v]
    BY <1>6, GoesTyped DEF Extract, Pc
  <2>2. worker[w].id \in Install \cup {0}
    BY DEF ShapeInv, WorkerT
  <2>3. ShapeInv' /\ RowInv' /\ PlatformInv'
    BY <1>6, <2>1, <2>2 DEF Extract,
              ShapeInv, RowInv, HasRow, PlatformInv
  <2>4. FlagInv'
    BY <1>6, <2>1, <2>2 DEF Extract, FlagInv
  <2>5. FlatInv'
    BY <1>6, <2>1, <2>2 DEF Extract, FlatInv, Progress, Finished
  <2>6. FileInv'
    BY <1>6, <2>1, <2>2 DEF Extract, FileInv, StagingT
  <2>7. raced' \/ TurnInv'
    BY <1>6, <2>1, <2>2 DEF Extract, TurnInv, PlatformInv, FlatInv
  <2>8. raced' \/ PackageInv'
    BY <1>6, <2>1, <2>2 DEF Extract, TurnInv, PackageInv, PackageOf, PlatformInv, FlatInv
  <2> QED
    BY <2>3, <2>4, <2>5, <2>6, <2>7, <2>8
<1>7. CASE PrepareForUpdate(w)
  <2>1. /\ worker' \in [Worker -> WorkerT]
        /\ worker'[w].pc = "waiting" /\ worker'[w].id = worker[w].id
        /\ \A v \in Worker : v # w => worker'[v] = worker[v]
    BY <1>7, GoesTyped DEF PrepareForUpdate, Pc
  <2>2. FlagInv' /\ FlatInv' /\ FileInv' /\ ShapeInv' /\ RowInv' /\ PlatformInv'
    BY <1>7, <2>1 DEF PrepareForUpdate,
              FlagInv, FlatInv, FileInv, ShapeInv, RowInv, HasRow, PlatformInv
  <2>3. raced' \/ TurnInv'
    BY <1>7, <2>1 DEF PrepareForUpdate, TurnInv, PlatformInv, FlatInv
  <2>4. raced' \/ PackageInv'
    BY <1>7, <2>1 DEF PrepareForUpdate, TurnInv, PackageInv, PackageOf, PlatformInv, FlatInv
  <2> QED
    BY <2>2, <2>3, <2>4
<1>8. CASE TasksAreQuiet(w)
  <2>1. /\ worker' \in [Worker -> WorkerT]
        /\ worker'[w].pc = "backup" /\ worker'[w].id = worker[w].id
        /\ \A v \in Worker : v # w => worker'[v] = worker[v]
    BY <1>8, GoesTyped DEF TasksAreQuiet, Pc
  <2>2. FlagInv' /\ FlatInv' /\ FileInv' /\ ShapeInv' /\ RowInv' /\ PlatformInv'
    BY <1>8, <2>1 DEF TasksAreQuiet,
              FlagInv, FlatInv, FileInv, ShapeInv, RowInv, HasRow, PlatformInv
  <2>3. raced' \/ TurnInv'
    BY <1>8, <2>1 DEF TasksAreQuiet, TurnInv, PlatformInv, FlatInv
  <2>4. raced' \/ PackageInv'
    BY <1>8, <2>1 DEF TasksAreQuiet, TurnInv, PackageInv, PackageOf, PlatformInv, FlatInv
  <2> QED
    BY <2>2, <2>3, <2>4
<1>9. CASE BackupDatabase(w)
  <2>1. /\ worker' \in [Worker -> WorkerT]
        /\ worker'[w].pc = "request" /\ worker'[w].id = worker[w].id
        /\ \A v \in Worker : v # w => worker'[v] = worker[v]
    BY <1>9, GoesTyped DEF BackupDatabase, Pc
  <2>2. worker[w].id \in Install \cup {0}
    BY DEF ShapeInv, WorkerT
  <2>3. FileInv' /\ ShapeInv' /\ RowInv' /\ PlatformInv'
    BY <1>9, <2>1, <2>2 DEF BackupDatabase,
              FileInv, ShapeInv, RowInv, HasRow, PlatformInv
  <2>4. FlagInv'
    BY <1>9, <2>1, <2>2 DEF BackupDatabase, FlagInv
  <2>5. FlatInv'
    BY <1>9, <2>1, <2>2 DEF BackupDatabase, FlatInv
  <2>6. raced' \/ TurnInv'
    BY <1>9, <2>1, <2>2 DEF BackupDatabase, TurnInv, PlatformInv, FlatInv
  <2>7. raced' \/ PackageInv'
    BY <1>9, <2>1, <2>2 DEF BackupDatabase, TurnInv, PackageInv, PackageOf, PlatformInv, FlatInv
  <2> QED
    BY <2>3, <2>4, <2>5, <2>6, <2>7
<1>10. CASE WriteRequest(w)
  <2>1. /\ worker' \in [Worker -> WorkerT]
        /\ worker'[w].pc = "handoff" /\ worker'[w].id = worker[w].id
        /\ \A v \in Worker : v # w => worker'[v] = worker[v]
    BY <1>10, GoesTyped DEF WriteRequest, Pc
  <2>2. rows' \in [Install -> RowT \cup {NoRow}] /\ \A j : HasRow(j) => HasRow(j)'
    <3>1. HasRow(worker[w].id) /\ "staged" \in RowStatus
      BY <1>10 DEF WriteRequest, RowInv, RowStatus, Finished
    <3> QED
      BY <1>10, <3>1, RowTyped DEF WriteRequest
  <2>3. request' = worker[w].id /\ request' \in Install /\ request' # 0 /\ HasRow(request')
    BY <1>10 DEF WriteRequest, RowInv, HasRow, Install
  <2>4. FileInv' /\ ShapeInv'
    BY <1>10, <2>1, <2>2, <2>3 DEF WriteRequest,
              FileInv, ShapeInv
  <2>5. FlagInv'
    BY <1>10, <2>1, <2>2, <2>3 DEF WriteRequest, FlagInv
  <2>6. FlatInv'
    BY <1>10, <2>1, <2>2, <2>3 DEF WriteRequest, FlatInv, Progress, Finished
  <2>7. RowInv'
    BY <1>10, <2>1, <2>2, <2>3 DEF WriteRequest, RowInv, HasRow
  <2>8. PlatformInv'
    BY <1>10, <2>1, <2>2, <2>3 DEF WriteRequest, PlatformInv
  <2>9. raced' \/ TurnInv'
    BY <1>10, <2>1, <2>2, <2>3 DEF WriteRequest, TurnInv, PlatformInv, FlatInv
  <2>10. raced' \/ PackageInv'
    BY <1>10, <2>1, <2>2, <2>3 DEF WriteRequest, TurnInv, PackageInv, PackageOf, PlatformInv, FlatInv
  <2> QED
    BY <2>4, <2>5, <2>6, <2>7, <2>8, <2>9, <2>10
<1>11. CASE HandOff(w)
  <2>1. /\ worker' \in [Worker -> WorkerT]
        /\ worker'[w].pc = (IF docker THEN "idle" ELSE "launch")
        /\ worker'[w].id = (IF docker THEN 0 ELSE worker[w].id)
        /\ \A v \in Worker : v # w => worker'[v] = worker[v]
    <3>1. CASE docker
      BY <1>11, <3>1, IdleTyped DEF HandOff
    <3>2. CASE ~docker
      BY <1>11, <3>2, GoesTyped DEF HandOff, Pc
    <3> QED
      BY <3>1, <3>2
  <2>2. worker[w].id \in Install /\ MaxJobs + worker[w].id \in 0..(MaxJobs + MaxInstalls)
    BY <1>11 DEF HandOff, RowInv, HasRow, Install
  <2>3. lock' \in LockT /\ lock'.token = MaxJobs + worker[w].id /\ lock'.owner = lock.owner
    BY <1>11, <2>2, LockTyped DEF HandOff, FileInv, LockT
  <2>4. FileInv' /\ ShapeInv' /\ RowInv'
    BY <1>11, <2>1, <2>2, <2>3 DEF HandOff,
              FileInv, ShapeInv, RowInv, HasRow
  <2>5. FlagInv'
    BY <1>11, <2>1, <2>2, <2>3 DEF HandOff, FlagInv
  <2>6. FlatInv'
    BY <1>11, <2>1, <2>2, <2>3 DEF HandOff, FlatInv
  <2>7. PlatformInv'
    BY <1>11, <2>1, <2>2, <2>3 DEF HandOff, PlatformInv
  <2>8. raced' \/ TurnInv'
    <3>1. CASE docker
      BY <1>11, <2>1, <2>2, <2>3, <3>1 DEF HandOff, TurnInv, PackageInv, LockT, PlatformInv, FlatInv
    <3>2. CASE ~docker
      BY <1>11, <2>1, <2>2, <2>3, <3>2 DEF HandOff, TurnInv, LockT, PlatformInv, FlatInv
    <3> QED
      BY <3>1, <3>2
  <2>9. raced' \/ PackageInv'
    BY <1>11, <2>1, <2>2, <2>3 DEF HandOff, TurnInv, PackageInv, PackageOf, PlatformInv, FlatInv
  <2> QED
    BY <2>4, <2>5, <2>6, <2>7, <2>8, <2>9
<1>12. CASE Launch(w)
  <2>1. /\ worker' \in [Worker -> WorkerT]
        /\ worker'[w].pc = "idle" /\ worker'[w].id = 0
        /\ \A v \in Worker : v # w => worker'[v] = worker[v]
    BY <1>12, IdleTyped DEF Launch
  <2>2. HasRow(worker[w].id) /\ worker[w].id \in Install \cup {0}
    BY <1>12 DEF Launch, RowInv, HasRow
  <2>3. executor' \in ExecutorT /\ executor'.pc = "launched" /\ executor'.id = worker[w].id
    BY <1>12, <2>2, ExecutorTyped DEF Launch, ShapeInv, ExecutorPc
  <2>4. FileInv' /\ ShapeInv'
    BY <1>12, <2>1, <2>2, <2>3 DEF Launch,
              FileInv, ShapeInv
  <2>5. FlagInv'
    BY <1>12, <2>1, <2>2, <2>3 DEF Launch, FlagInv
  <2>6. FlatInv'
    BY <1>12, <2>1, <2>2, <2>3 DEF Launch, FlatInv
  <2>7. RowInv'
    BY <1>12, <2>1, <2>2, <2>3 DEF Launch, RowInv, HasRow
  <2>8. PlatformInv'
    BY <1>12, <2>1, <2>2, <2>3 DEF Launch, PlatformInv
  <2>9. raced' \/ TurnInv'
    BY <1>12, <2>1, <2>2, <2>3 DEF Launch, TurnInv, PlatformInv, FlatInv
  <2>10. raced' \/ PackageInv'
    BY <1>12, <2>1, <2>2, <2>3 DEF Launch, TurnInv, PackageInv, PackageOf, PlatformInv, FlatInv
  <2> QED
    BY <2>4, <2>5, <2>6, <2>7, <2>8, <2>9, <2>10
<1>13. CASE LaunchFails(w)
  <2>1. /\ worker' \in [Worker -> WorkerT]
        /\ worker'[w].pc = "idle" /\ worker'[w].id = 0
        /\ \A v \in Worker : v # w => worker'[v] = worker[v]
    BY <1>13, IdleTyped DEF LaunchFails
  <2>2. rows' \in [Install -> RowT \cup {NoRow}] /\ \A j : HasRow(j) => HasRow(j)'
    <3>1. HasRow(worker[w].id) /\ "failed" \in RowStatus
      BY <1>13 DEF LaunchFails, RowInv, RowStatus, Finished
    <3> QED
      BY <1>13, <3>1, RowTyped DEF LaunchFails
  <2>3. lock' \in LockT /\ (lock' = lock \/ lock' = Free)
    BY <1>13, FreeTyped DEF LaunchFails, FileInv
  <2>4. FileInv' /\ ShapeInv' /\ RowInv'
    BY <1>13, <2>1, <2>2, <2>3 DEF LaunchFails,
              FileInv, ShapeInv, RowInv, HasRow
  <2>5. FlagInv'
    BY <1>13, <2>1, <2>2, <2>3 DEF LaunchFails, FlagInv
  <2>6. FlatInv'
    BY <1>13, <2>1, <2>2, <2>3 DEF LaunchFails, FlatInv, Progress, Finished
  <2>7. PlatformInv'
    BY <1>13, <2>1, <2>2, <2>3 DEF LaunchFails, PlatformInv
  <2>8. raced' \/ TurnInv'
    BY <1>13, <2>1, <2>2, <2>3 DEF LaunchFails, TurnInv, PlatformInv, FlatInv
  <2>9. raced' \/ PackageInv'
    BY <1>13, <2>1, <2>2, <2>3 DEF LaunchFails, TurnInv, PackageInv, PackageOf, PlatformInv, FlatInv
  <2> QED
    BY <2>4, <2>5, <2>6, <2>7, <2>8, <2>9
<1>14. CASE StepFails(w)
  <2>1. /\ worker' \in [Worker -> WorkerT]
        /\ worker'[w].pc = "idle" /\ worker'[w].id = 0
        /\ \A v \in Worker : v # w => worker'[v] = worker[v]
    BY <1>14, IdleTyped DEF StepFails, FailInstall
  <2>2. rows' \in [Install -> RowT \cup {NoRow}] /\ \A j : HasRow(j) => HasRow(j)'
    <3>1. CASE worker[w].id = 0
      BY <1>14, <3>1 DEF StepFails, FailInstall, ShapeInv, HasRow
    <3>2. CASE worker[w].id # 0
      <4>1. HasRow(worker[w].id) /\ "failed" \in RowStatus
        BY <3>2 DEF RowInv, RowStatus, Finished
      <4> QED
        BY <1>14, <3>2, <4>1, RowTyped DEF StepFails, FailInstall
    <3> QED
      BY <3>1, <3>2
  <2>3. lock' \in LockT /\ (lock' = lock \/ lock' = Free)
    BY <1>14, FreeTyped DEF Finish, FileInv, StepFails, FailInstall
  <2>4. FileInv' /\ ShapeInv' /\ RowInv'
    BY <1>14, <2>1, <2>2, <2>3 DEF StepFails, FailInstall, Finish,
              FileInv, ShapeInv, RowInv, HasRow
  <2>5. FlagInv'
    BY <1>14, <2>1, <2>2, <2>3 DEF StepFails, FailInstall, Finish, FlagInv
  <2>6. FlatInv'
    BY <1>14, <2>1, <2>2, <2>3 DEF StepFails, FailInstall, Finish, FlatInv, Progress, Finished
  <2>7. PlatformInv'
    BY <1>14, <2>1, <2>2, <2>3 DEF StepFails, FailInstall, Finish, PlatformInv
  <2>8. raced' \/ TurnInv'
    BY <1>14, <2>1, <2>2, <2>3 DEF StepFails, FailInstall, Finish, TurnInv, PlatformInv, FlatInv
  <2>9. raced' \/ PackageInv'
    BY <1>14, <2>1, <2>2, <2>3 DEF StepFails, FailInstall, Finish, TurnInv, PackageInv, PackageOf, PlatformInv, FlatInv
  <2> QED
    BY <2>4, <2>5, <2>6, <2>7, <2>8, <2>9
<1> QED
  BY <1>1, <1>2, <1>3, <1>4, <1>5, <1>6, <1>7, <1>8, <1>9, <1>10, <1>11, <1>12, <1>13, <1>14 DEF WorkerStep

\* A program that ends takes its jobs with it, and its name from the lock.
LEMMA ProgramEndsTyped ==
  ASSUME IInv, ProgramEnds
  PROVE  /\ worker' \in [Worker -> WorkerT]
         /\ \A w \in Worker : worker'[w].pc = "idle" /\ worker'[w].id = 0
         /\ lock' \in LockT /\ lock'.token = lock.token
         /\ lock.owner = "executor" => lock'.owner = "executor"
<1>1. Idle \in WorkerT /\ Idle.pc = "idle" /\ Idle.id = 0
  BY DEF WorkerT, Pc, Idle
<1>2. lock \in LockT
  BY DEF IInv, FileInv
<1> QED
  BY <1>1, <1>2, LockTyped DEF ProgramEnds, LockT

\* A result is told for an installation of the history.
LEMMA ReportTyped ==
  ASSUME FileInv, RowInv, NEW i, HasRow(i), NEW s \in Finished
  PROVE  Reported(i, s) \subseteq ResultT /\ \A x \in Reported(i, s) : HasRow(x.id)
BY DEF FileInv, RowInv, HasRow, Reported, ResultT

LEMMA ExecutorIInv ==
  ASSUME IInv, ExecutorStep \/ ExecutorCrashes \/ RecoveryStarts
  PROVE  IInv'
<1> USE VersionAssumption DEF IInv, manager, files, process, history, Busy, TokenOf
<1>1. CASE LauncherRuns
  <2>1. executor' \in ExecutorT /\ executor'.pc = "working" /\ executor'.id = request
    BY <1>1, ExecutorTyped DEF LauncherRuns, ShapeInv, ExecutorPc, FlatInv
  <2>2. lock' \in LockT /\ lock'.token = lock.token /\ lock'.owner = "executor"
    BY <1>1, LockTyped DEF LauncherRuns, FileInv, LockT
  <2>3. request # 0 /\ HasRow(request)
    BY <1>1 DEF LauncherRuns, PlatformInv, RowInv
  <2>4. FlagInv'
    BY <1>1, <2>1, <2>2, <2>3 DEF LauncherRuns, running, FlagInv
  <2>5. FlatInv'
    BY <1>1, <2>1, <2>2, <2>3 DEF LauncherRuns, running, FlatInv, Progress, Finished
  <2>6. FileInv'
    BY <1>1, <2>1, <2>2, <2>3 DEF LauncherRuns, running, FileInv
  <2>7. ShapeInv'
    BY <1>1, <2>1, <2>2, <2>3 DEF LauncherRuns, running, ShapeInv
  <2>8. RowInv'
    BY <1>1, <2>1, <2>2, <2>3 DEF LauncherRuns, running, RowInv, HasRow
  <2>9. PlatformInv'
    BY <1>1, <2>1, <2>2, <2>3 DEF LauncherRuns, running, PlatformInv, ExecutorPc, Finished
  <2>10. raced' \/ TurnInv'
    BY <1>1, <2>1, <2>2, <2>3 DEF LauncherRuns, running, TurnInv, PlatformInv, FlatInv, Finished
  <2>11. raced' \/ PackageInv'
    BY <1>1, <2>1, <2>2, <2>3 DEF LauncherRuns, running, TurnInv, PackageInv, PackageOf, PlatformInv, FlatInv, Finished
  <2> QED
    BY <2>4, <2>5, <2>6, <2>7, <2>8, <2>9, <2>10, <2>11
<1>2. CASE LauncherRejects
  <2>1. request # 0 /\ HasRow(request) /\ request \in Install
    BY <1>2 DEF LauncherRejects, PlatformInv, RowInv, HasRow
  <2>2. /\ results' \subseteq ResultT /\ \A x \in results' : HasRow(x.id)
        /\ lock' \in LockT /\ (lock' = lock \/ lock' = Free)
        /\ request' \in {request, 0} /\ silent' \subseteq Install
    BY <1>2, <2>1, ReportTyped, FreeTyped DEF LauncherRejects, FileInv, RowInv, FlatInv, Finished
  <2>3. FlagInv'
    BY <1>2, <2>1, <2>2 DEF LauncherRejects, running, FlagInv
  <2>4. FlatInv'
    BY <1>2, <2>1, <2>2 DEF LauncherRejects, running, FlatInv, Progress, Finished
  <2>5. FileInv'
    BY <1>2, <2>1, <2>2 DEF LauncherRejects, running, FileInv
  <2>6. ShapeInv'
    BY <1>2, <2>1, <2>2 DEF LauncherRejects, running, ShapeInv
  <2>7. RowInv'
    BY <1>2, <2>1, <2>2 DEF LauncherRejects, running, RowInv, HasRow
  <2>8. PlatformInv'
    BY <1>2, <2>1, <2>2 DEF LauncherRejects, running, PlatformInv, ExecutorPc, Finished
  <2>9. raced' \/ TurnInv'
    BY <1>2, <2>1, <2>2 DEF LauncherRejects, running, TurnInv, PlatformInv, FlatInv, Finished
  <2>10. raced' \/ PackageInv'
    BY <1>2, <2>1, <2>2 DEF LauncherRejects, running, TurnInv, PackageInv, PackageOf, PlatformInv, FlatInv, Finished
  <2> QED
    BY <2>3, <2>4, <2>5, <2>6, <2>7, <2>8, <2>9, <2>10
<1>3. CASE TakeOver
  <2>1. executor.pc # "none" /\ HasRow(executor.id) /\ executor.id \in Install
    BY <1>3 DEF TakeOver, RowInv, HasRow, Finished
  <2>2. /\ executor' \in ExecutorT /\ request' \in {request, 0}
        /\ results' \subseteq ResultT /\ \A x \in results' : HasRow(x.id)
        /\ lock' \in LockT /\ silent' \subseteq Install
    <3>1. executor' \in ExecutorT
      <4>1. [executor EXCEPT !.pc = "waiting"] \in ExecutorT
            /\ [executor EXCEPT !.pc = "recovering"] \in ExecutorT
        BY ExecutorTyped DEF ExecutorPc, ShapeInv
      <4>2. \/ executor' = Nobody \/ executor' = [executor EXCEPT !.pc = "waiting"]
            \/ executor' = [executor EXCEPT !.pc = "recovering"]
        BY <1>3 DEF TakeOver, ExecutorAt
      <4> QED
        BY <4>1, <4>2, NobodyTyped
    <3>2. results' \subseteq ResultT /\ \A x \in results' : HasRow(x.id)
      <4>1. "failed" \in Finished
        BY DEF Finished
      <4>2. results' = results \/ results' = Reported(executor.id, "failed")
        BY <1>3 DEF TakeOver
      <4> QED
        BY <2>1, <4>1, <4>2, ReportTyped DEF FileInv, RowInv
    <3>3. lock' \in LockT
      <4>1. lock' = lock \/ lock' = [lock EXCEPT !.owner = "executor"]
        BY <1>3 DEF TakeOver
      <4> QED
        BY <4>1 DEF FileInv, LockT
    <3>4. request' \in {request, 0} /\ silent' \subseteq Install
      BY <1>3, <2>1 DEF TakeOver, FlatInv
    <3> QED
      BY <3>1, <3>2, <3>3, <3>4
  <2>3. \/ /\ lock.token = TokenOf(executor.id) /\ lock'.token = lock.token /\ lock'.owner = "executor"
           /\ executor'.pc = (IF executor.pc = "launched" THEN "waiting" ELSE "recovering")
           /\ executor'.id = executor.id
        \/ lock' = lock /\ executor'.pc = "none"
    BY <1>3, NobodyTyped DEF TakeOver, ExecutorAt, ShapeInv, ExecutorT, FileInv, LockT
  <2>4. FlagInv'
    BY <1>3, <2>1, <2>2, <2>3 DEF TakeOver, running, FlagInv
  <2>5. FlatInv'
    BY <1>3, <2>1, <2>2, <2>3 DEF TakeOver, running, FlatInv, Progress, Finished
  <2>6. FileInv'
    BY <1>3, <2>1, <2>2, <2>3 DEF TakeOver, running, FileInv
  <2>7. ShapeInv'
    BY <1>3, <2>1, <2>2, <2>3 DEF TakeOver, running, ShapeInv
  <2>8. RowInv'
    BY <1>3, <2>1, <2>2, <2>3 DEF TakeOver, running, RowInv, HasRow
  <2>9. PlatformInv'
    BY <1>3, <2>1, <2>2, <2>3 DEF TakeOver, running, PlatformInv, ExecutorPc, Finished
  <2>10. raced' \/ TurnInv'
    BY <1>3, <2>1, <2>2, <2>3 DEF TakeOver, running, TurnInv, PlatformInv, FlatInv, Finished
  <2>11. raced' \/ PackageInv'
    BY <1>3, <2>1, <2>2, <2>3 DEF TakeOver, running, TurnInv, PackageInv, PackageOf, PlatformInv, FlatInv, Finished
  <2> QED
    BY <2>4, <2>5, <2>6, <2>7, <2>8, <2>9, <2>10, <2>11
<1>4. CASE RefuseRequest
  <2>1. executor.pc # "none" /\ HasRow(executor.id) /\ executor.id \in Install
    BY <1>4 DEF RefuseRequest, RowInv, HasRow, Finished
  <2>2. executor' \in ExecutorT /\ executor'.pc = "none"
    BY <1>4, NobodyTyped DEF RefuseRequest
  <2>3. FlagInv'
    BY <1>4, <2>1, <2>2 DEF RefuseRequest, running, FlagInv
  <2>4. FlatInv'
    BY <1>4, <2>1, <2>2 DEF RefuseRequest, running, FlatInv, Progress, Finished
  <2>5. FileInv'
    BY <1>4, <2>1, <2>2 DEF RefuseRequest, running, FileInv
  <2>6. ShapeInv'
    BY <1>4, <2>1, <2>2 DEF RefuseRequest, running, ShapeInv
  <2>7. RowInv'
    BY <1>4, <2>1, <2>2 DEF RefuseRequest, running, RowInv, HasRow
  <2>8. PlatformInv'
    BY <1>4, <2>1, <2>2 DEF RefuseRequest, running, PlatformInv, ExecutorPc, Finished
  <2>9. raced' \/ TurnInv'
    BY <1>4, <2>1, <2>2 DEF RefuseRequest, running, TurnInv, PlatformInv, FlatInv, Finished
  <2>10. raced' \/ PackageInv'
    BY <1>4, <2>1, <2>2 DEF RefuseRequest, running, TurnInv, PackageInv, PackageOf, PlatformInv, FlatInv, Finished
  <2> QED
    BY <2>3, <2>4, <2>5, <2>6, <2>7, <2>8, <2>9, <2>10
<1>5. CASE HelperGivesUp
  <2>1. executor' \in ExecutorT /\ executor'.pc = "failed" /\ executor'.id = executor.id
    BY <1>5, ExecutorTyped DEF HelperGivesUp, ExecutorAt, ShapeInv, ExecutorPc, Finished
  <2>2. executor.pc # "none" /\ HasRow(executor.id) /\ executor.id \in Install
    BY <1>5 DEF HelperGivesUp, RowInv, HasRow, Finished
  <2>3. FlagInv'
    BY <1>5, <2>1, <2>2 DEF HelperGivesUp, running, FlagInv
  <2>4. FlatInv'
    BY <1>5, <2>1, <2>2 DEF HelperGivesUp, running, FlatInv, Progress, Finished
  <2>5. FileInv'
    BY <1>5, <2>1, <2>2 DEF HelperGivesUp, running, FileInv
  <2>6. ShapeInv'
    BY <1>5, <2>1, <2>2 DEF HelperGivesUp, running, ShapeInv
  <2>7. RowInv'
    BY <1>5, <2>1, <2>2 DEF HelperGivesUp, running, RowInv, HasRow
  <2>8. PlatformInv'
    BY <1>5, <2>1, <2>2 DEF HelperGivesUp, running, PlatformInv, ExecutorPc, Finished
  <2>9. raced' \/ TurnInv'
    BY <1>5, <2>1, <2>2 DEF HelperGivesUp, running, TurnInv, PlatformInv, FlatInv, Finished
  <2>10. raced' \/ PackageInv'
    BY <1>5, <2>1, <2>2 DEF HelperGivesUp, running, TurnInv, PackageInv, PackageOf, PlatformInv, FlatInv, Finished
  <2> QED
    BY <2>3, <2>4, <2>5, <2>6, <2>7, <2>8, <2>9, <2>10
<1>6. CASE HelperStopsService
  <2>1. FlagInv'
    BY <1>6 DEF HelperStopsService, running, FlagInv
  <2>2. FlatInv'
    BY <1>6 DEF HelperStopsService, running, FlatInv, Progress, Finished
  <2>3. FileInv'
    BY <1>6 DEF HelperStopsService, running, FileInv
  <2>4. ShapeInv'
    BY <1>6 DEF HelperStopsService, running, ShapeInv
  <2>5. RowInv'
    BY <1>6 DEF HelperStopsService, running, RowInv, HasRow
  <2>6. PlatformInv'
    BY <1>6 DEF HelperStopsService, running, PlatformInv, ExecutorPc, Finished
  <2>7. raced' \/ TurnInv'
    BY <1>6 DEF HelperStopsService, running, TurnInv, PlatformInv, FlatInv, Finished
  <2>8. raced' \/ PackageInv'
    BY <1>6 DEF HelperStopsService, running, TurnInv, PackageInv, PackageOf, PlatformInv, FlatInv, Finished
  <2> QED
    BY <2>1, <2>2, <2>3, <2>4, <2>5, <2>6, <2>7, <2>8
<1>7. CASE HelperWorks
  <2>1. executor' \in ExecutorT /\ executor'.pc = (IF executor.pc = "waiting" THEN "working" ELSE "restoring") /\ executor'.id = executor.id
    BY <1>7, ExecutorTyped DEF HelperWorks, ExecutorAt, ShapeInv, ExecutorPc, Finished
  <2>2. executor.pc # "none" /\ HasRow(executor.id) /\ executor.id \in Install
    BY <1>7 DEF HelperWorks, RowInv, HasRow, Finished
  <2>3. FlagInv'
    BY <1>7, <2>1, <2>2 DEF HelperWorks, running, FlagInv
  <2>4. FlatInv'
    BY <1>7, <2>1, <2>2 DEF HelperWorks, running, FlatInv, Progress, Finished
  <2>5. FileInv'
    BY <1>7, <2>1, <2>2 DEF HelperWorks, running, FileInv
  <2>6. ShapeInv'
    BY <1>7, <2>1, <2>2 DEF HelperWorks, running, ShapeInv
  <2>7. RowInv'
    BY <1>7, <2>1, <2>2 DEF HelperWorks, running, RowInv, HasRow
  <2>8. PlatformInv'
    BY <1>7, <2>1, <2>2 DEF HelperWorks, running, PlatformInv, ExecutorPc, Finished
  <2>9. raced' \/ TurnInv'
    BY <1>7, <2>1, <2>2 DEF HelperWorks, running, TurnInv, PlatformInv, FlatInv, Finished
  <2>10. raced' \/ PackageInv'
    BY <1>7, <2>1, <2>2 DEF HelperWorks, running, TurnInv, PackageInv, PackageOf, PlatformInv, FlatInv, Finished
  <2> QED
    BY <2>3, <2>4, <2>5, <2>6, <2>7, <2>8, <2>9, <2>10
<1>8. CASE LeaveUnchanged
  <2>1. executor' \in ExecutorT /\ executor'.pc = "failed" /\ executor'.id = executor.id
    BY <1>8, ExecutorTyped DEF LeaveUnchanged, ExecutorAt, ShapeInv, ExecutorPc, Finished
  <2>2. executor.pc # "none" /\ HasRow(executor.id) /\ executor.id \in Install
    BY <1>8 DEF LeaveUnchanged, RowInv, HasRow, Finished
  <2>3. FlagInv'
    BY <1>8, <2>1, <2>2 DEF LeaveUnchanged, running, FlagInv
  <2>4. FlatInv'
    BY <1>8, <2>1, <2>2 DEF LeaveUnchanged, running, FlatInv, Progress, Finished
  <2>5. FileInv'
    BY <1>8, <2>1, <2>2 DEF LeaveUnchanged, running, FileInv
  <2>6. ShapeInv'
    BY <1>8, <2>1, <2>2 DEF LeaveUnchanged, running, ShapeInv
  <2>7. RowInv'
    BY <1>8, <2>1, <2>2 DEF LeaveUnchanged, running, RowInv, HasRow
  <2>8. PlatformInv'
    BY <1>8, <2>1, <2>2 DEF LeaveUnchanged, running, PlatformInv, ExecutorPc, Finished
  <2>9. raced' \/ TurnInv'
    BY <1>8, <2>1, <2>2 DEF LeaveUnchanged, running, TurnInv, PlatformInv, FlatInv, Finished
  <2>10. raced' \/ PackageInv'
    BY <1>8, <2>1, <2>2 DEF LeaveUnchanged, running, TurnInv, PackageInv, PackageOf, PlatformInv, FlatInv, Finished
  <2> QED
    BY <2>3, <2>4, <2>5, <2>6, <2>7, <2>8, <2>9, <2>10
<1>9. CASE ReplaceProgram
  <2>1. executor' \in ExecutorT /\ executor'.pc = "replaced" /\ executor'.id = executor.id
    BY <1>9, ExecutorTyped DEF ReplaceProgram, ExecutorAt, ShapeInv, ExecutorPc, Finished
  <2>2. executor.pc # "none" /\ HasRow(executor.id) /\ executor.id \in Install
    BY <1>9 DEF ReplaceProgram, RowInv, HasRow, Finished
  <2>3. version' \in Version
    BY <1>9, <2>2 DEF ReplaceProgram, HasRow, RowT, FlatInv
  <2>4. FlagInv'
    BY <1>9, <2>1, <2>2, <2>3 DEF ReplaceProgram, running, FlagInv
  <2>5. FlatInv'
    BY <1>9, <2>1, <2>2, <2>3 DEF ReplaceProgram, running, FlatInv, Progress, Finished
  <2>6. FileInv'
    BY <1>9, <2>1, <2>2, <2>3 DEF ReplaceProgram, running, FileInv
  <2>7. ShapeInv'
    BY <1>9, <2>1, <2>2, <2>3 DEF ReplaceProgram, running, ShapeInv
  <2>8. RowInv'
    BY <1>9, <2>1, <2>2, <2>3 DEF ReplaceProgram, running, RowInv, HasRow
  <2>9. PlatformInv'
    BY <1>9, <2>1, <2>2, <2>3 DEF ReplaceProgram, running, PlatformInv, ExecutorPc, Finished
  <2>10. raced' \/ TurnInv'
    BY <1>9, <2>1, <2>2, <2>3 DEF ReplaceProgram, running, TurnInv, PlatformInv, FlatInv, Finished
  <2>11. raced' \/ PackageInv'
    BY <1>9, <2>1, <2>2, <2>3 DEF ReplaceProgram, running, TurnInv, PackageInv, PackageOf, PlatformInv, FlatInv, Finished
  <2> QED
    BY <2>4, <2>5, <2>6, <2>7, <2>8, <2>9, <2>10, <2>11
<1>10. CASE ExecutorStarts
  <2>1. executor' \in ExecutorT /\ executor'.pc = "success" /\ executor'.id = executor.id
    BY <1>10, ExecutorTyped DEF ExecutorStarts, ExecutorAt, ShapeInv, ExecutorPc, Finished
  <2>2. executor.pc # "none" /\ HasRow(executor.id) /\ executor.id \in Install
    BY <1>10 DEF ExecutorStarts, RowInv, HasRow, Finished
  <2>3. FlagInv'
    BY <1>10, <2>1, <2>2 DEF ExecutorStarts, running, FlagInv
  <2>4. FlatInv'
    BY <1>10, <2>1, <2>2 DEF ExecutorStarts, running, FlatInv, Progress, Finished
  <2>5. FileInv'
    BY <1>10, <2>1, <2>2 DEF ExecutorStarts, running, FileInv
  <2>6. ShapeInv'
    BY <1>10, <2>1, <2>2 DEF ExecutorStarts, running, ShapeInv
  <2>7. RowInv'
    BY <1>10, <2>1, <2>2 DEF ExecutorStarts, running, RowInv, HasRow
  <2>8. PlatformInv'
    BY <1>10, <2>1, <2>2 DEF ExecutorStarts, running, PlatformInv, ExecutorPc, Finished
  <2>9. raced' \/ TurnInv'
    BY <1>10, <2>1, <2>2 DEF ExecutorStarts, running, TurnInv, PlatformInv, FlatInv, Finished
  <2>10. raced' \/ PackageInv'
    BY <1>10, <2>1, <2>2 DEF ExecutorStarts, running, TurnInv, PackageInv, PackageOf, PlatformInv, FlatInv, Finished
  <2> QED
    BY <2>3, <2>4, <2>5, <2>6, <2>7, <2>8, <2>9, <2>10
<1>11. CASE TrialFails
  <2>1. executor' \in ExecutorT /\ executor'.pc = "restoring" /\ executor'.id = executor.id
    BY <1>11, ExecutorTyped DEF TrialFails, ExecutorAt, ShapeInv, ExecutorPc, Finished
  <2>2. executor.pc # "none" /\ HasRow(executor.id) /\ executor.id \in Install
    BY <1>11 DEF TrialFails, RowInv, HasRow, Finished
  <2>3. /\ worker' \in [Worker -> WorkerT]
        /\ \A w \in Worker : worker'[w].pc = "idle" /\ worker'[w].id = 0
        /\ lock' \in LockT /\ lock'.token = lock.token
        /\ lock.owner = "executor" => lock'.owner = "executor"
    BY <1>11, ProgramEndsTyped DEF TrialFails
  <2>4. FlagInv'
    BY <1>11, <2>1, <2>2, <2>3 DEF TrialFails, running, ProgramEnds, FlagInv
  <2>5. FlatInv'
    BY <1>11, <2>1, <2>2, <2>3 DEF TrialFails, running, ProgramEnds, FlatInv, Progress, Finished
  <2>6. FileInv'
    BY <1>11, <2>1, <2>2, <2>3 DEF TrialFails, running, ProgramEnds, FileInv
  <2>7. ShapeInv'
    BY <1>11, <2>1, <2>2, <2>3 DEF TrialFails, running, ProgramEnds, ShapeInv
  <2>8. RowInv'
    BY <1>11, <2>1, <2>2, <2>3 DEF TrialFails, running, ProgramEnds, RowInv, HasRow
  <2>9. PlatformInv'
    BY <1>11, <2>1, <2>2, <2>3 DEF TrialFails, running, ProgramEnds, PlatformInv, ExecutorPc, Finished
  <2>10. raced' \/ TurnInv'
    BY <1>11, <2>1, <2>2, <2>3 DEF TrialFails, running, ProgramEnds, TurnInv, PlatformInv, FlatInv, Finished
  <2>11. raced' \/ PackageInv'
    BY <1>11, <2>1, <2>2, <2>3 DEF TrialFails, running, ProgramEnds, TurnInv, PackageInv, PackageOf, PlatformInv, FlatInv, Finished
  <2> QED
    BY <2>4, <2>5, <2>6, <2>7, <2>8, <2>9, <2>10, <2>11
<1>12. CASE RestoreProgram
  <2>1. executor' \in ExecutorT /\ executor'.pc = "rolled_back" /\ executor'.id = executor.id
    BY <1>12, ExecutorTyped DEF RestoreProgram, ExecutorAt, ShapeInv, ExecutorPc, Finished
  <2>2. executor.pc # "none" /\ HasRow(executor.id) /\ executor.id \in Install
    BY <1>12 DEF RestoreProgram, RowInv, HasRow, Finished
  <2>3. version' \in Version
    BY <1>12, <2>2 DEF RestoreProgram, HasRow, RowT, FlatInv
  <2>4. FlagInv'
    BY <1>12, <2>1, <2>2, <2>3 DEF RestoreProgram, running, FlagInv
  <2>5. FlatInv'
    BY <1>12, <2>1, <2>2, <2>3 DEF RestoreProgram, running, FlatInv, Progress, Finished
  <2>6. FileInv'
    BY <1>12, <2>1, <2>2, <2>3 DEF RestoreProgram, running, FileInv
  <2>7. ShapeInv'
    BY <1>12, <2>1, <2>2, <2>3 DEF RestoreProgram, running, ShapeInv
  <2>8. RowInv'
    BY <1>12, <2>1, <2>2, <2>3 DEF RestoreProgram, running, RowInv, HasRow
  <2>9. PlatformInv'
    BY <1>12, <2>1, <2>2, <2>3 DEF RestoreProgram, running, PlatformInv, ExecutorPc, Finished
  <2>10. raced' \/ TurnInv'
    BY <1>12, <2>1, <2>2, <2>3 DEF RestoreProgram, running, TurnInv, PlatformInv, FlatInv, Finished
  <2>11. raced' \/ PackageInv'
    BY <1>12, <2>1, <2>2, <2>3 DEF RestoreProgram, running, TurnInv, PackageInv, PackageOf, PlatformInv, FlatInv, Finished
  <2> QED
    BY <2>4, <2>5, <2>6, <2>7, <2>8, <2>9, <2>10, <2>11
<1>13. CASE RestoreFails
  <2>1. executor' \in ExecutorT /\ executor'.pc = "failed" /\ executor'.id = executor.id
    BY <1>13, ExecutorTyped DEF RestoreFails, ExecutorAt, ShapeInv, ExecutorPc, Finished
  <2>2. executor.pc # "none" /\ HasRow(executor.id) /\ executor.id \in Install
    BY <1>13 DEF RestoreFails, RowInv, HasRow, Finished
  <2>3. version' \in Version
    BY <1>13, <2>2 DEF RestoreFails, HasRow, RowT, FlatInv
  <2>4. /\ worker' \in [Worker -> WorkerT]
        /\ \A w \in Worker : worker'[w].pc = "idle" /\ worker'[w].id = 0
        /\ lock' \in LockT /\ lock'.token = lock.token
        /\ lock.owner = "executor" => lock'.owner = "executor"
    BY <1>13, ProgramEndsTyped DEF RestoreFails
  <2>5. FlagInv'
    BY <1>13, <2>1, <2>2, <2>3, <2>4 DEF RestoreFails, running, ProgramEnds, FlagInv
  <2>6. FlatInv'
    BY <1>13, <2>1, <2>2, <2>3, <2>4 DEF RestoreFails, running, ProgramEnds, FlatInv, Progress, Finished
  <2>7. FileInv'
    BY <1>13, <2>1, <2>2, <2>3, <2>4 DEF RestoreFails, running, ProgramEnds, FileInv
  <2>8. ShapeInv'
    BY <1>13, <2>1, <2>2, <2>3, <2>4 DEF RestoreFails, running, ProgramEnds, ShapeInv
  <2>9. RowInv'
    BY <1>13, <2>1, <2>2, <2>3, <2>4 DEF RestoreFails, running, ProgramEnds, RowInv, HasRow
  <2>10. PlatformInv'
    BY <1>13, <2>1, <2>2, <2>3, <2>4 DEF RestoreFails, running, ProgramEnds, PlatformInv, ExecutorPc, Finished
  <2>11. raced' \/ TurnInv'
    BY <1>13, <2>1, <2>2, <2>3, <2>4 DEF RestoreFails, running, ProgramEnds, TurnInv, PlatformInv, FlatInv, Finished
  <2>12. raced' \/ PackageInv'
    BY <1>13, <2>1, <2>2, <2>3, <2>4 DEF RestoreFails, running, ProgramEnds, TurnInv, PackageInv, PackageOf, PlatformInv, FlatInv, Finished
  <2> QED
    BY <2>5, <2>6, <2>7, <2>8, <2>9, <2>10, <2>11, <2>12
<1>14. CASE HelperFails
  <2>1. executor' \in ExecutorT /\ executor'.pc = "failed" /\ executor'.id = executor.id
    BY <1>14, ExecutorTyped DEF HelperFails, ExecutorAt, ShapeInv, ExecutorPc, Finished
  <2>2. executor.pc # "none" /\ HasRow(executor.id) /\ executor.id \in Install
    BY <1>14 DEF HelperFails, RowInv, HasRow, Finished
  <2>3. FlagInv'
    BY <1>14, <2>1, <2>2 DEF HelperFails, running, FlagInv
  <2>4. FlatInv'
    BY <1>14, <2>1, <2>2 DEF HelperFails, running, FlatInv, Progress, Finished
  <2>5. FileInv'
    BY <1>14, <2>1, <2>2 DEF HelperFails, running, FileInv
  <2>6. ShapeInv'
    BY <1>14, <2>1, <2>2 DEF HelperFails, running, ShapeInv
  <2>7. RowInv'
    BY <1>14, <2>1, <2>2 DEF HelperFails, running, RowInv, HasRow
  <2>8. PlatformInv'
    BY <1>14, <2>1, <2>2 DEF HelperFails, running, PlatformInv, ExecutorPc, Finished
  <2>9. raced' \/ TurnInv'
    BY <1>14, <2>1, <2>2 DEF HelperFails, running, TurnInv, PlatformInv, FlatInv, Finished
  <2>10. raced' \/ PackageInv'
    BY <1>14, <2>1, <2>2 DEF HelperFails, running, TurnInv, PackageInv, PackageOf, PlatformInv, FlatInv, Finished
  <2> QED
    BY <2>3, <2>4, <2>5, <2>6, <2>7, <2>8, <2>9, <2>10
<1>15. CASE CompletionFails
  <2>1. executor' \in ExecutorT /\ executor'.pc = "kept" /\ executor'.id = executor.id
    BY <1>15, ExecutorTyped DEF CompletionFails, ExecutorAt, ShapeInv, ExecutorPc, Finished
  <2>2. executor.pc # "none" /\ HasRow(executor.id) /\ executor.id \in Install
    BY <1>15 DEF CompletionFails, RowInv, HasRow, Finished
  <2>3. FlagInv'
    BY <1>15, <2>1, <2>2 DEF CompletionFails, running, FlagInv
  <2>4. FlatInv'
    BY <1>15, <2>1, <2>2 DEF CompletionFails, running, FlatInv, Progress, Finished
  <2>5. FileInv'
    BY <1>15, <2>1, <2>2 DEF CompletionFails, running, FileInv
  <2>6. ShapeInv'
    BY <1>15, <2>1, <2>2 DEF CompletionFails, running, ShapeInv
  <2>7. RowInv'
    BY <1>15, <2>1, <2>2 DEF CompletionFails, running, RowInv, HasRow
  <2>8. PlatformInv'
    BY <1>15, <2>1, <2>2 DEF CompletionFails, running, PlatformInv, ExecutorPc, Finished
  <2>9. raced' \/ TurnInv'
    BY <1>15, <2>1, <2>2 DEF CompletionFails, running, TurnInv, PlatformInv, FlatInv, Finished
  <2>10. raced' \/ PackageInv'
    BY <1>15, <2>1, <2>2 DEF CompletionFails, running, TurnInv, PackageInv, PackageOf, PlatformInv, FlatInv, Finished
  <2> QED
    BY <2>3, <2>4, <2>5, <2>6, <2>7, <2>8, <2>9, <2>10
<1>16. CASE ExecutorReports
  <2>1. executor' \in ExecutorT /\ executor'.pc = "leaving" /\ executor'.id = executor.id
    BY <1>16, ExecutorTyped DEF ExecutorReports, ExecutorAt, ShapeInv, ExecutorPc, Finished
  <2>2. executor.pc # "none" /\ HasRow(executor.id) /\ executor.id \in Install
    BY <1>16 DEF ExecutorReports, RowInv, HasRow, Finished
  <2>3. /\ results' \subseteq ResultT /\ \A x \in results' : HasRow(x.id)
        /\ silent' \subseteq Install
    BY <1>16, <2>2, ReportTyped DEF ExecutorReports, FileInv, RowInv, FlatInv
  <2>4. FlagInv'
    BY <1>16, <2>1, <2>2, <2>3 DEF ExecutorReports, running, FlagInv
  <2>5. FlatInv'
    BY <1>16, <2>1, <2>2, <2>3 DEF ExecutorReports, running, FlatInv, Progress, Finished
  <2>6. FileInv'
    BY <1>16, <2>1, <2>2, <2>3 DEF ExecutorReports, running, FileInv
  <2>7. ShapeInv'
    BY <1>16, <2>1, <2>2, <2>3 DEF ExecutorReports, running, ShapeInv
  <2>8. RowInv'
    BY <1>16, <2>1, <2>2, <2>3 DEF ExecutorReports, running, RowInv, HasRow
  <2>9. PlatformInv'
    BY <1>16, <2>1, <2>2, <2>3 DEF ExecutorReports, running, PlatformInv, ExecutorPc, Finished
  <2>10. raced' \/ TurnInv'
    BY <1>16, <2>1, <2>2, <2>3 DEF ExecutorReports, running, TurnInv, PlatformInv, FlatInv, Finished
  <2>11. raced' \/ PackageInv'
    BY <1>16, <2>1, <2>2, <2>3 DEF ExecutorReports, running, TurnInv, PackageInv, PackageOf, PlatformInv, FlatInv, Finished
  <2> QED
    BY <2>4, <2>5, <2>6, <2>7, <2>8, <2>9, <2>10, <2>11
<1>17. CASE ExecutorLeaves
  <2>1. executor' \in ExecutorT /\ executor'.pc = "none"
    BY <1>17, NobodyTyped DEF ExecutorLeaves
  <2>2. lock' \in LockT
    BY <1>17, LockTyped, FreeTyped DEF ExecutorLeaves, Abandoned, FileInv, LockT
  <2>3. FlagInv'
    BY <1>17, <2>1, <2>2 DEF ExecutorLeaves, running, FlagInv
  <2>4. FlatInv'
    BY <1>17, <2>1, <2>2 DEF ExecutorLeaves, running, FlatInv, Progress, Finished
  <2>5. FileInv'
    BY <1>17, <2>1, <2>2 DEF ExecutorLeaves, running, FileInv
  <2>6. ShapeInv'
    BY <1>17, <2>1, <2>2 DEF ExecutorLeaves, running, ShapeInv
  <2>7. RowInv'
    BY <1>17, <2>1, <2>2 DEF ExecutorLeaves, running, RowInv, HasRow
  <2>8. PlatformInv'
    BY <1>17, <2>1, <2>2 DEF ExecutorLeaves, running, PlatformInv, ExecutorPc, Finished
  <2>9. raced' \/ TurnInv'
    BY <1>17, <2>1, <2>2 DEF ExecutorLeaves, running, TurnInv, PlatformInv, FlatInv, Finished
  <2>10. raced' \/ PackageInv'
    BY <1>17, <2>1, <2>2 DEF ExecutorLeaves, running, TurnInv, PackageInv, PackageOf, PlatformInv, FlatInv, Finished
  <2> QED
    BY <2>3, <2>4, <2>5, <2>6, <2>7, <2>8, <2>9, <2>10
<1>18. CASE ExecutorCrashes
  <2>1. executor' \in ExecutorT /\ executor'.pc = "none"
    BY <1>18, NobodyTyped DEF ExecutorCrashes
  <2>2. executor.pc # "none" /\ HasRow(executor.id) /\ executor.id \in Install
    BY <1>18 DEF ExecutorCrashes, RowInv, HasRow, Finished
  <2>3. /\ lock' \in LockT /\ lock'.token = lock.token
        /\ lock'.owner = (IF lock.owner = "executor" THEN "none" ELSE lock.owner)
    BY <1>18, LockTyped DEF ExecutorCrashes, Abandoned, FileInv, LockT
  <2>4. FlagInv'
    BY <1>18, <2>1, <2>2, <2>3 DEF ExecutorCrashes, running, FlagInv
  <2>5. FlatInv'
    BY <1>18, <2>1, <2>2, <2>3 DEF ExecutorCrashes, running, FlatInv, Progress, Finished
  <2>6. FileInv'
    BY <1>18, <2>1, <2>2, <2>3 DEF ExecutorCrashes, running, FileInv
  <2>7. ShapeInv'
    BY <1>18, <2>1, <2>2, <2>3 DEF ExecutorCrashes, running, ShapeInv
  <2>8. RowInv'
    BY <1>18, <2>1, <2>2, <2>3 DEF ExecutorCrashes, running, RowInv, HasRow
  <2>9. PlatformInv'
    BY <1>18, <2>1, <2>2, <2>3 DEF ExecutorCrashes, running, PlatformInv, ExecutorPc, Finished
  <2>10. raced' \/ TurnInv'
    BY <1>18, <2>1, <2>2, <2>3 DEF ExecutorCrashes, running, TurnInv, PlatformInv, FlatInv, Finished
  <2>11. raced' \/ PackageInv'
    BY <1>18, <2>1, <2>2, <2>3 DEF ExecutorCrashes, running, TurnInv, PackageInv, PackageOf, PlatformInv, FlatInv, Finished
  <2> QED
    BY <2>4, <2>5, <2>6, <2>7, <2>8, <2>9, <2>10, <2>11
<1>19. CASE RecoveryStarts
  <2>1. journal # 0 /\ HasRow(journal) /\ journal \in Install /\ executor.pc = "none"
    BY <1>19 DEF RecoveryStarts, RowInv, HasRow
  <2>2. /\ executor' \in ExecutorT /\ executor'.id = journal
        /\ executor'.pc \in (IF docker THEN {"replaced", "restoring"} ELSE {"recover"})
    <3>1. \E c \in (IF docker THEN {"replaced", "restoring"} ELSE {"recover"}) :
              executor' = [pc |-> c, id |-> journal]
      BY <1>19 DEF RecoveryStarts
    <3> QED
      BY <2>1, <3>1 DEF ExecutorT, ExecutorPc
  <2>3. /\ lock' \in LockT
        /\ lock' = (IF docker THEN [token |-> MaxJobs + journal, owner |-> "executor"] ELSE lock)
    <3>1. MaxJobs + journal \in 0..(MaxJobs + MaxInstalls)
      BY <2>1 DEF Install
    <3> QED
      BY <1>19, <3>1 DEF RecoveryStarts, FileInv, LockT
  <2>4. FlagInv'
    BY <1>19, <2>1, <2>2, <2>3 DEF RecoveryStarts, running, FlagInv
  <2>5. FlatInv'
    BY <1>19, <2>1, <2>2, <2>3 DEF RecoveryStarts, running, FlatInv, Progress, Finished
  <2>6. FileInv'
    BY <1>19, <2>1, <2>2, <2>3 DEF RecoveryStarts, running, FileInv
  <2>7. ShapeInv'
    BY <1>19, <2>1, <2>2, <2>3 DEF RecoveryStarts, running, ShapeInv
  <2>8. RowInv'
    BY <1>19, <2>1, <2>2, <2>3 DEF RecoveryStarts, running, RowInv, HasRow
  <2>9. PlatformInv'
    BY <1>19, <2>1, <2>2, <2>3 DEF RecoveryStarts, running, PlatformInv, ExecutorPc, Finished
  <2>10. raced' \/ TurnInv'
    <3>1. lock.owner = "none" /\ UNCHANGED <<docker, up, active, held, worker, raced, request>>
      BY <1>19 DEF RecoveryStarts
    <3>2. ~raced => ~active /\ \A w \in Worker : ~Busy(w)
      BY <3>1 DEF TurnInv
    <3>3. CASE docker
      <4>1. ~up /\ ~exiting' /\ executor'.pc \in {"replaced", "restoring"}
        BY <1>19, <2>2, <3>3 DEF RecoveryStarts, FlagInv
      <4> QED
        BY <2>2, <2>3, <3>1, <3>2, <3>3, <4>1 DEF TurnInv
    <3>4. CASE ~docker
      <4>1. (up' => exiting') /\ executor'.pc = "recover"
        BY <1>19, <2>2, <3>4 DEF RecoveryStarts
      <4> QED
        BY <2>2, <2>3, <3>1, <3>2, <3>4, <4>1 DEF TurnInv
    <3> QED
      BY <3>3, <3>4
  <2>11. raced' \/ PackageInv'
    BY <1>19, <2>1, <2>2, <2>3 DEF RecoveryStarts, running, TurnInv, PackageInv, PackageOf, PlatformInv, FlatInv, Finished
  <2> QED
    BY <2>4, <2>5, <2>6, <2>7, <2>8, <2>9, <2>10, <2>11
<1> QED
  BY <1>1, <1>2, <1>3, <1>4, <1>5, <1>6, <1>7, <1>8, <1>9, <1>10, <1>11, <1>12, <1>13, <1>14, <1>15, <1>16, <1>17, <1>18, <1>19 DEF ExecutorStep

\* What is delivered or marked as interrupted is a row, and stays one.
LEMMA DeliveredTyped ==
  ASSUME IInv
  PROVE  Delivered(rows) \in [Install -> RowT \cup {NoRow}]
         /\ \A i : HasRow(i) => Delivered(rows)[i] \in RowT
<1>1. ASSUME NEW i \in Install, NEW x \in results, x.id = i
      PROVE  [rows[i] EXCEPT !.status = (CHOOSE y \in results : y.id = i).status] \in RowT
  <2>1. PICK y \in results : y = (CHOOSE z \in results : z.id = i) /\ y.id = i
    BY <1>1
  <2>2. y.status \in RowStatus /\ rows[i] \in RowT
    BY <2>1 DEF IInv, FileInv, ResultT, RowStatus, RowInv, HasRow
  <2>3. [rows[i] EXCEPT !.status = y.status] \in RowT
    BY <2>2 DEF RowT
  <2> QED
    BY <2>1, <2>3
<1> QED
  BY <1>1 DEF Delivered, IInv, ShapeInv, HasRow

LEMMA InterruptedTyped ==
  ASSUME NEW rs \in [Install -> RowT \cup {NoRow}]
  PROVE  /\ Interrupted(rs) \in [Install -> RowT \cup {NoRow}]
         /\ \A i \in Install : rs[i] \in RowT => Interrupted(rs)[i] \in RowT
<1>1. \A r \in RowT : [r EXCEPT !.status = "failed"] \in RowT
  BY DEF RowT, RowStatus, Finished
<1> QED
  BY <1>1 DEF Interrupted

LEMMA TickIInv ==
  ASSUME IInv, TickStep
  PROVE  IInv'
<1> USE VersionAssumption DEF IInv, manager, files, process, history, Busy, TokenOf
<1>1. CASE TickConsumes
  <2>1. rows' \in [Install -> RowT \cup {NoRow}] /\ \A j : HasRow(j) => HasRow(j)'
    BY <1>1, DeliveredTyped DEF TickConsumes, HasRow
  <2>2. ShapeInv' /\ PlatformInv'
    BY <1>1, <2>1 DEF TickConsumes,
              ShapeInv, PlatformInv
  <2>3. FlagInv'
    BY <1>1, <2>1 DEF TickConsumes, FlagInv
  <2>4. FlatInv'
    BY <1>1, <2>1 DEF TickConsumes, FlatInv
  <2>5. FileInv'
    BY <1>1, <2>1 DEF TickConsumes, FileInv
  <2>6. RowInv'
    BY <1>1, <2>1 DEF TickConsumes, RowInv, HasRow
  <2>7. raced' \/ TurnInv'
    BY <1>1, <2>1 DEF TickConsumes, TurnInv, PlatformInv, FlatInv
  <2>8. raced' \/ PackageInv'
    BY <1>1, <2>1 DEF TickConsumes, TurnInv, PackageInv, PackageOf, PlatformInv, FlatInv
  <2> QED
    BY <2>2, <2>3, <2>4, <2>5, <2>6, <2>7, <2>8
<1>2. CASE RefreshReads
  <2>1. FileInv' /\ ShapeInv' /\ RowInv' /\ PlatformInv' /\ (raced' \/ TurnInv') /\ (raced' \/ PackageInv')
    BY <1>2 DEF RefreshReads,
              FileInv, ShapeInv, RowInv, HasRow, PlatformInv, TurnInv, PackageInv, PackageOf
  <2>2. FlagInv'
    BY <1>2 DEF RefreshReads, FlagInv
  <2>3. FlatInv'
    BY <1>2 DEF RefreshReads, FlatInv, Finished
  <2> QED
    BY <2>1, <2>2, <2>3
<1>3. CASE RefreshFinishes
  <2>1. lock' \in LockT /\ (held = 0 => lock' = lock)
    BY <1>3, FreeTyped DEF RefreshFinishes, Finish, FileInv
  <2>2. ~raced' => ~active /\ ~raced /\ lock' = lock /\ held' = held
    BY <1>3, <2>1 DEF RefreshFinishes, Finish, PlatformInv, FlagInv
  <2>3. FileInv' /\ ShapeInv' /\ RowInv'
    BY <1>3, <2>1, <2>2 DEF RefreshFinishes, Finish,
              FileInv, ShapeInv, RowInv, HasRow
  <2>4. FlagInv'
    BY <1>3, <2>1, <2>2 DEF RefreshFinishes, Finish, FlagInv
  <2>5. FlatInv'
    BY <1>3, <2>1, <2>2 DEF RefreshFinishes, Finish, FlatInv, Progress, Finished
  <2>6. PlatformInv'
    BY <1>3, <2>1, <2>2 DEF RefreshFinishes, Finish, PlatformInv
  <2>7. raced' \/ TurnInv'
    BY <1>3, <2>1, <2>2 DEF RefreshFinishes, Finish, TurnInv, PlatformInv, FlatInv
  <2>8. raced' \/ PackageInv'
    BY <1>3, <2>1, <2>2 DEF RefreshFinishes, Finish, TurnInv, PackageInv, PackageOf, PlatformInv, FlatInv
  <2> QED
    BY <2>3, <2>4, <2>5, <2>6, <2>7, <2>8
<1> QED
  BY <1>1, <1>2, <1>3 DEF TickStep

LEMMA ProgramIInv ==
  ASSUME IInv, ProgramStops \/ ProgramCrashes \/ ProgramStarts
  PROVE  IInv'
<1> USE VersionAssumption DEF IInv, manager, files, process, history, Busy, TokenOf
<1>1. CASE ProgramStops \/ ProgramCrashes
  <2>1. /\ worker' \in [Worker -> WorkerT]
        /\ \A w \in Worker : worker'[w].pc = "idle" /\ worker'[w].id = 0
        /\ lock' \in LockT /\ lock'.token = lock.token
        /\ lock.owner = "executor" => lock'.owner = "executor"
    BY <1>1, ProgramEndsTyped DEF ProgramStops, ProgramCrashes
  <2>2. FlagInv'
    BY <1>1, <2>1 DEF ProgramStops, ProgramCrashes, ProgramEnds, FlagInv
  <2>3. FlatInv'
    BY <1>1, <2>1 DEF ProgramStops, ProgramCrashes, ProgramEnds, FlatInv, Progress, Finished
  <2>4. FileInv'
    BY <1>1, <2>1 DEF ProgramStops, ProgramCrashes, ProgramEnds, FileInv
  <2>5. ShapeInv'
    BY <1>1, <2>1 DEF ProgramStops, ProgramCrashes, ProgramEnds, ShapeInv
  <2>6. RowInv'
    BY <1>1, <2>1 DEF ProgramStops, ProgramCrashes, ProgramEnds, RowInv, HasRow
  <2>7. PlatformInv'
    BY <1>1, <2>1 DEF ProgramStops, ProgramCrashes, ProgramEnds, PlatformInv
  <2>8. raced' \/ TurnInv'
    BY <1>1, <2>1 DEF ProgramStops, ProgramCrashes, ProgramEnds, TurnInv, PlatformInv, FlatInv
  <2>9. raced' \/ PackageInv'
    BY <1>1, <2>1 DEF ProgramStops, ProgramCrashes, ProgramEnds, TurnInv, PackageInv, PackageOf, PlatformInv, FlatInv
  <2> QED
    BY <2>2, <2>3, <2>4, <2>5, <2>6, <2>7, <2>8, <2>9
<1>2. CASE ProgramStarts
  <2>1. rows' \in [Install -> RowT \cup {NoRow}] /\ \A j : HasRow(j) => HasRow(j)'
    BY <1>2, DeliveredTyped, InterruptedTyped DEF ProgramStarts, HasRow
  <2>2. ShapeInv'
    BY <1>2, <2>1 DEF ProgramStarts,
              ShapeInv
  <2>3. FlagInv'
    BY <1>2, <2>1 DEF ProgramStarts, FlagInv
  <2>4. FlatInv'
    BY <1>2, <2>1 DEF ProgramStarts, FlatInv
  <2>5. FileInv'
    BY <1>2, <2>1 DEF ProgramStarts, FileInv
  <2>6. RowInv'
    BY <1>2, <2>1 DEF ProgramStarts, RowInv, HasRow
  <2>7. PlatformInv'
    BY <1>2, <2>1 DEF ProgramStarts, PlatformInv
  <2>8. raced' \/ TurnInv'
    BY <1>2, <2>1 DEF ProgramStarts, TurnInv, PlatformInv, FlatInv
  <2>9. raced' \/ PackageInv'
    BY <1>2, <2>1 DEF ProgramStarts, TurnInv, PackageInv, PackageOf, PlatformInv, FlatInv
  <2> QED
    BY <2>2, <2>3, <2>4, <2>5, <2>6, <2>7, <2>8, <2>9
<1> QED
  BY <1>1, <1>2

LEMMA StepIInv == IInv /\ [Next]_vars => IInv'
<1> SUFFICES ASSUME IInv, [Next]_vars
             PROVE  IInv'
  OBVIOUS
<1>1. CASE UNCHANGED vars
  BY <1>1 DEF vars, IInv, FlagInv, FlatInv, FileInv, ShapeInv, RowInv, HasRow, PlatformInv, TurnInv, Busy,
              PackageInv, PackageOf
<1> QED
  BY <1>1, WorkerIInv, ExecutorIInv, TickIInv, ProgramIInv DEF Next

LEMMA Invariance == Spec => []IInv
BY InitIInv, StepIInv, PTL DEF Spec

\* Jobs, locks, rows, files and executor have their types in every state.
THEOREM TypeCorrect == Spec => []TypeOK
<1>1. IInv => TypeOK
  BY TypesOfParts DEF IInv
<1> QED
  BY <1>1, Invariance, PTL

\* At most one job works at a time, and it holds the lock file: unless a tick
\* has ended another job than the one it saw fail (update/manager.go:9, web/server.go:1743).
THEOREM OneJobWorks == Spec => []OneJobAtATime
<1>1. IInv => OneJobAtATime
  <2> SUFFICES ASSUME IInv, ~raced
               PROVE  OneJob
    BY DEF OneJobAtATime
  <2>1. TurnInv
    BY DEF IInv
  <2>2. CASE Working = {}
    BY <2>2, FS_EmptySet DEF OneJob
  <2>3. CASE Working # {}
    <3>1. PICK w \in Working : TRUE
      BY <2>3
    <3>2. Working = {w}
      BY <2>1, <3>1 DEF TurnInv, Working, Busy
    <3>3. Cardinality(Working) = 1
      BY <3>2, FS_Singleton
    <3> QED
      BY <2>1, <3>1, <3>3 DEF OneJob, TurnInv, Working, Busy
  <2> QED
    BY <2>2, <2>3
<1> QED
  BY <1>1, Invariance, PTL

\* An executor finds the package verified and the database backed up for its
\* own installation until it has used them (runUpdateInstall, LaunchUpdater).
THEOREM PackageIsVerified == Spec => []ExecutorHasVerified
<1>1. IInv => ExecutorHasVerified
  BY DEF IInv, PackageInv, PackageOf, ExecutorHasVerified
<1> QED
  BY <1>1, Invariance, PTL
===============================================================================
