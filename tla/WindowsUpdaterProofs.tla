------------------------ MODULE WindowsUpdaterProofs ------------------------
(***************************************************************************)
(* Theorems about WindowsUpdater for every set of versions and any numbers *)
(* of installations and crashes: type correctness, that no program serves  *)
(* on parts of another version, truth of the history, and that program and *)
(* helper implement UpdateTransaction.                                     *)
(***************************************************************************)
EXTENDS WindowsUpdater, TLAPS

\* The program is at an installation of its own, or has handed it to the helper.
Asking == {"installing", "backedup", "requested", "given"}
\* The helper is at an installation and has changed nothing yet.
Preparing == {"begin", "wait", "backup", "copying", "verify", "saving", "journal"}
\* It changes the files, or has them tried.
Changing == {"replace", "replacing", "moveaway", "movein", "start", "health", "commit"}
\* A program may run beside it.
Starting == {"boot", "open", "opened", "delivered", "up"}

\* Whole files of v, and a database that v can read.
Fits(c, v) == c.state = "whole" /\ \A w \in c.by : w <= v
Good(v) == v \in Version /\ app = AllOf(v) /\ Fits(db, v)

Installing == helper.at \in Preparing \cup {"giveup"} /\ ~helper.recover

\* The transaction is open, and the lock is still that of its installation.
Recoverable == Begun /\ ~Completed /\ lock.token = journal.request.id

Ends(t) == IF t.done = "success" THEN t.request.to ELSE t.request.from

\* What the helper is at goes with what it is for.
HelperInv ==
    /\ helper.at # "none" => helper.req \in Request /\ helper.req.from < helper.req.to
    /\ helper.at # "none" /\ helper.recover =>
          /\ helper.back
          /\ helper.at \in {"begin", "wait"} \cup Changing \cup {"finalize", "clear", "release"}
    /\ Installing => ~helper.back
    /\ helper.at \in {"moveaway", "movein"} => helper.back
    /\ helper.at \in {"replace", "replacing"} => helper.n \in 1..3

\* The lock says whose turn it is, and of which installation it is.
LockInv ==
    /\ lock.owner = "helper" <=> helper.at \notin {"none", "begin"}
    /\ lock.owner = "helper" => lock.token = helper.req.id
    /\ helper.at = "begin" /\ ~helper.recover => lock.token = helper.req.id
    /\ helper.at = "begin" /\ prog = "handed" => lock.owner = "program"
    /\ lock.owner = "program" => prog \in Asking \cup {"up", "handed"}
    /\ prog \in Asking => lock.owner = "program"
    /\ prog = "given" => lock.token = req.id
    /\ prog \in {"installing", "backedup", "requested"} => lock.token = Begin
    /\ lock.token > 0 => lock.token = installs

\* Who runs beside whom, and which version and request it has.
TurnInv ==
    /\ prog = "down" <=> pver = 0
    /\ prog = "boot" => pver = app["exe"]
    /\ prog \in Asking => helper.at = "none"
    /\ helper.at \in {"begin", "wait"} => prog = "down" \/ (prog = "handed" /\ ~helper.recover)
    /\ helper.at \in (Preparing \ {"begin", "wait"}) \cup (Changing \ {"health", "commit"}) =>
          prog = "down"
    /\ helper.at \in {"giveup", "health"} => prog \in Starting \cup {"down"}
    /\ helper.at \in {"commit", "finalize", "clear", "release"} => prog \in {"up", "down"}
    /\ prog \in Asking \cup {"handed"} =>
          /\ req \in Request /\ req.id = installs
          /\ req.from = pver /\ req.from < req.to

JournalInv ==
    /\ Begun =>
          /\ journal.request.from < journal.request.to
          /\ journal.request.id <= installs
          /\ journal.done # "failed"
    /\ Begun /\ (prog \in Asking \cup {"handed"} \/ Installing) => journal.request.id # installs
    /\ helper.at \in Changing \/ (helper.at \in {"begin", "wait"} /\ helper.recover) =>
          journal = [request |-> helper.req, done |-> "none"]
    /\ helper.at \in {"finalize", "clear"} =>
          journal = [request |-> helper.req, done |-> Decision]

\* Files and database fit the version that runs next; within a transaction what
\* is there comes from one of its versions, and the backup is complete.
FileInv ==
    /\ ~Begun => Good(app["exe"])
    /\ Completed => Good(Ends(journal))
    /\ prog \in {"open"} \cup Serving => Good(pver)
    /\ prog \in Serving => pver \in db.by
    /\ Installing => Good(helper.req.from)
    /\ Recoverable =>
          /\ \A p \in Part : app[p] \in {0, journal.request.from, journal.request.to}
          /\ \A v \in db.by : v <= journal.request.to
          /\ backup[journal.request.from].app = AllOf(journal.request.from)
          /\ Fits(backup[journal.request.from].db, journal.request.from)

\* How far the helper has come with that.
ProgressInv ==
    /\ helper.at \in {"verify", "saving", "journal"} =>
          Fits(backup[helper.req.from].db, helper.req.from)
    /\ helper.at = "journal" => backup[helper.req.from].app = AllOf(helper.req.from)
    /\ helper.at \in {"replace", "replacing"} =>
          /\ \A i \in 1..3 : i < helper.n => app[Order[i]] = Expected
          /\ ~helper.back => db.state = "whole"
    /\ helper.at \in {"moveaway", "movein"} => app = AllOf(helper.req.from)
    /\ helper.at \in {"start", "health", "commit"} => Good(Expected)
    /\ helper.at = "commit" => Expected \in db.by

\* A decision is in the row, or in a file from which it will come there; the row
\* is open when it is taken.
HistoryInv ==
    /\ installs > 0 => row # "none"
    /\ Recoverable => result = "none"
    /\ (\/ prog \in Asking
        \/ helper.at \in Preparing \cup Changing /\ ~helper.recover /\ ~helper.back
        \/ helper.at \in {"start", "health", "commit"}) =>
          row = "open" /\ result = "none"
    /\ helper.at \in {"finalize", "clear"} => truth = Decision
    /\ helper.at = "clear" => truth \in {row, result}
    /\ truth # "none" =>
          /\ row \in Status => row = truth
          /\ result \in {"none", truth}
          /\ Begun => journal.done = truth /\ journal.request.id = installs
          /\ Begun \/ truth \in {row, result}
          /\ helper.at \in {"none", "finalize", "clear", "release"}
          /\ prog \notin Asking \cup {"handed"}
          /\ prog = "delivered" => row = truth

IInv == /\ TypeOK /\ HelperInv /\ LockInv /\ TurnInv /\ JournalInv /\ FileInv /\ ProgressInv
        /\ HistoryInv

\* The types that TypeOK gives the helper, the lock and one backup.
HelperT == [at : HelperStage, recover : BOOLEAN, back : BOOLEAN,
            req : Request \cup {NoRequest}, n : 0..3]
LockT == [token : Token, owner : {"program", "helper", "dead"}]
CopyT == [app : Files, db : Content]

----------------------------------------------------------------------------
(* What the definitions come to                                             *)

LEMMA OrdersAreThree ==
  /\ Len(ReplaceOrder) = 3 /\ Len(RestoreOrder) = 3
  /\ ReplaceOrder[1] = "exe" /\ ReplaceOrder[2] = "static" /\ ReplaceOrder[3] = "updater"
  /\ RestoreOrder[1] = "exe" /\ RestoreOrder[2] = "updater" /\ RestoreOrder[3] = "static"
BY DEF ReplaceOrder, RestoreOrder

\* What TypeOK says of the fields that guards look at.
LEMMA TypesOf ==
  ASSUME TypeOK
  PROVE  /\ helper \in HelperT
         /\ helper.at \in HelperStage /\ helper.recover \in BOOLEAN /\ helper.back \in BOOLEAN
         /\ helper.n \in 0..3
         /\ lock.token \in Int /\ lock.owner \in {"program", "helper", "dead"}
         /\ Begun => /\ journal.request \in Request /\ journal.done \in Status \cup {"none"}
                     /\ journal \in Transaction
         /\ ~Begun => journal.done = "none"
         /\ installs \in 0..MaxInstalls /\ installs \in Nat /\ crashes \in 0..MaxCrashes
BY BoundsAssumption, OrdersAreThree DEF TypeOK, HelperT, Begun, None, Transaction, Token,
   Begin

LEMMA RequestsTyped ==
  ASSUME NEW r \in Request
  PROVE  /\ r.id \in 1..MaxInstalls /\ r.id \in Nat /\ r.id > 0
         /\ r.from \in Version /\ r.to \in Version
         /\ r.from \in Nat /\ r.to \in Nat /\ r.from # 0 /\ r.to # 0
<1>1. r.id \in 1..MaxInstalls /\ r.from \in Version /\ r.to \in Version
  BY DEF Request
<1>2. \A i \in 1..MaxInstalls : i \in Nat /\ i > 0
  BY BoundsAssumption
<1>3. \A v \in Version : v \in Nat /\ v # 0
  BY VersionAssumption
<1> QED
  BY <1>1, <1>2, <1>3

\* A whole application says its version.
LEMMA WholeFiles ==
  ASSUME NEW v, NEW w
  PROVE  /\ AllOf(v)["exe"] = v
         /\ AllOf(v) = AllOf(w) => v = w
         /\ \A p \in Part : AllOf(v)[p] = v
BY DEF AllOf, Part

\* A program opens a database that fits it.
LEMMA OpenedFits ==
  ASSUME NEW c, NEW v \in Version, \A w \in c.by : w <= v
  PROVE  Fits([state |-> "whole", by |-> c.by \cup {v}], v)
BY VersionAssumption DEF Fits

\* What a version can read, a newer one can.
LEMMA NewerFits ==
  ASSUME NEW c \in Content, NEW v \in Version, NEW w \in Version, v <= w, Fits(c, v)
  PROVE  Fits(c, w)
<1>1. \A u \in c.by : u \in Nat
  BY VersionAssumption DEF Content
<1> QED
  BY <1>1, VersionAssumption DEF Fits

\* What a step leaves of the helper's state.
LEMMA HelperNext ==
  ASSUME helper \in HelperT, NEW s \in HelperStage, NEW k \in 0..3,
         \/ helper' = [helper EXCEPT !.at = s] /\ k = helper.n
         \/ helper' = [helper EXCEPT !.at = s, !.n = k]
         \/ helper' = [helper EXCEPT !.n = k, !.at = s]
  PROVE  /\ helper' \in HelperT /\ helper'.at = s /\ helper'.n = k
         /\ helper'.req = helper.req /\ helper'.back = helper.back
         /\ helper'.recover = helper.recover
<1>1. DOMAIN helper = {"at", "recover", "back", "req", "n"}
  BY DEF HelperT
<1>2. helper' \in HelperT
  BY DEF HelperT
<1> QED
  BY <1>1, <1>2

\* The same of one that turns back.
LEMMA HelperBack ==
  ASSUME helper \in HelperT, NEW s \in HelperStage, NEW b \in BOOLEAN, NEW k \in 0..3,
         helper' = [helper EXCEPT !.at = s, !.back = b, !.n = k]
  PROVE  /\ helper' \in HelperT /\ helper'.at = s /\ helper'.n = k
         /\ helper'.req = helper.req /\ helper'.back = b
         /\ helper'.recover = helper.recover
<1>1. DOMAIN helper = {"at", "recover", "back", "req", "n"}
  BY DEF HelperT
<1>2. helper' \in HelperT
  BY DEF HelperT
<1> QED
  BY <1>1, <1>2

\* The state of a helper that begins.
LEMMA HelperStarts ==
  ASSUME NEW r \in Request
  PROVE  /\ LET h == [NoHelper EXCEPT !.at = "begin", !.recover = TRUE, !.back = TRUE,
                                       !.req = r]
            IN  h \in HelperT /\ h.at = "begin" /\ h.recover /\ h.back /\ h.req = r
         /\ LET h == [NoHelper EXCEPT !.at = "begin", !.req = r]
            IN  h \in HelperT /\ h.at = "begin" /\ ~h.recover /\ ~h.back /\ h.req = r
<1>1. /\ DOMAIN NoHelper = {"at", "recover", "back", "req", "n"}
      /\ ~NoHelper.recover /\ ~NoHelper.back /\ NoHelper \in HelperT
  BY DEF NoHelper, HelperT, HelperStage
<1>2. "begin" \in HelperStage
  BY DEF HelperStage
<1>3. /\ [NoHelper EXCEPT !.at = "begin", !.recover = TRUE, !.back = TRUE, !.req = r]
            \in HelperT
      /\ [NoHelper EXCEPT !.at = "begin", !.req = r] \in HelperT
  BY <1>1, <1>2 DEF HelperT
<1> QED
  BY <1>1, <1>3

\* A helper that gives up gives its lock back and tells it.
LEMMA HelperGivesUp ==
  ASSUME IInv, GiveUp, helper.at \notin {"none", "begin"}
  PROVE  /\ helper' = NoHelper /\ helper'.at = "none" /\ lock' = Free
         /\ result' = IF helper.recover THEN result ELSE ResultOf(helper.req.id, "failed")
BY TypesOf DEF IInv, GiveUp, HelperEnds, NoHelper, Released, LockInv

LEMMA FilesTyped ==
  ASSUME TypeOK
  PROVE  app \in Files /\ app["exe"] \in Version \cup {0} /\ db \in Content
BY DEF TypeOK, Files, Part

LEMMA CopiesTyped ==
  ASSUME TypeOK, NEW v \in Version
  PROVE  /\ backup \in [Version -> CopyT] /\ backup[v] \in CopyT
         /\ backup[v].app \in Files /\ backup[v].db \in Content
BY DEF TypeOK, CopyT

\* One half of one version's backup is replaced.
LEMMA CopyChanges ==
  ASSUME NEW b \in [Version -> CopyT], NEW v \in Version, NEW c \in Content, NEW a \in Files
  PROVE  /\ [b EXCEPT ![v].db = c] \in [Version -> CopyT]
         /\ [b EXCEPT ![v].app = a] \in [Version -> CopyT]
         /\ [b EXCEPT ![v].db = c][v] = [app |-> b[v].app, db |-> c]
         /\ [b EXCEPT ![v].app = a][v] = [app |-> a, db |-> b[v].db]
BY DEF CopyT

LEMMA ContentsTyped ==
  /\ Torn \in Content /\ Missing \in Content
  /\ \A S \in SUBSET Version : [state |-> "whole", by |-> S] \in Content
BY DEF Torn, Missing, Content

LEMMA LocksTyped ==
  ASSUME NEW w \in LockT, NEW o \in {"program", "helper", "dead"}, NEW t \in Token
  PROVE  /\ [w EXCEPT !.owner = o] \in LockT /\ [w EXCEPT !.token = t] \in LockT
         /\ Free \in LockT /\ [token |-> Begin, owner |-> "program"] \in LockT
BY DEF LockT, Free, Token

LEMMA NothingTyped ==
  NoHelper \in HelperT /\ NoHelper.at = "none" /\ NoRequest.id = 0 /\ Free \in LockT
BY DEF NoHelper, HelperT, HelperStage, NoRequest, LockT, Free, Token

\* The type invariant by variable, of a state and of the next one.
LEMMA TypesNow ==
  ASSUME TypeOK
  PROVE  /\ app \in Files /\ db \in Content /\ backup \in [Version -> CopyT]
         /\ journal \in Transaction \cup {None} /\ lock \in LockT
         /\ result \in Status \cup {"none"} /\ row \in Status \cup {"none", "open"}
         /\ prog \in ProgStage /\ pver \in Version \cup {0} /\ helper \in HelperT
         /\ req \in Request \cup {NoRequest} /\ supervised \in BOOLEAN
         /\ truth \in Status \cup {"none"}
         /\ installs \in 0..MaxInstalls /\ crashes \in 0..MaxCrashes
BY OrdersAreThree DEF TypeOK, CopyT, LockT, HelperT

LEMMA TypesAfter ==
  ASSUME app' \in Files, db' \in Content, backup' \in [Version -> CopyT],
         journal' \in Transaction \cup {None}, lock' \in LockT,
         result' \in Status \cup {"none"}, row' \in Status \cup {"none", "open"},
         prog' \in ProgStage, pver' \in Version \cup {0}, helper' \in HelperT,
         req' \in Request \cup {NoRequest}, supervised' \in BOOLEAN,
         truth' \in Status \cup {"none"},
         installs' \in 0..MaxInstalls, crashes' \in 0..MaxCrashes
  PROVE  TypeOK'
BY OrdersAreThree DEF TypeOK, CopyT, LockT, HelperT

LEMMA FilesChange ==
  ASSUME app \in Files, NEW p \in Part, NEW v \in Version \cup {0}
  PROVE  [app EXCEPT ![p] = v] \in Files
BY DEF Files

\* A decision leaves the request of the journal as it is.
LEMMA JournalChanges ==
  ASSUME NEW t \in Transaction, NEW d \in Status
  PROVE  /\ [t EXCEPT !.done = d] \in Transaction
         /\ [t EXCEPT !.done = d].request = t.request
         /\ [t EXCEPT !.done = d].done = d
         /\ t # None /\ [t EXCEPT !.done = d] # None
         /\ t.request \in Request
         /\ \A r \in Request :
               t.request = r => [t EXCEPT !.done = d] = [request |-> r, done |-> d]
BY NothingTyped, RequestsTyped DEF Transaction, None

LEMMA JournalsOf ==
  ASSUME NEW r \in Request, NEW d \in Status \cup {"none"}
  PROVE  /\ [request |-> r, done |-> d] \in Transaction
         /\ [request |-> r, done |-> d] # None
BY NothingTyped, RequestsTyped DEF Transaction, None

\* With the last part in, the application is that of the version the helper is at,
\* in the order of replace (main.go:260) and in that of restore (main.go:328).
LEMMA PartReplaced ==
  ASSUME IInv, MoveIn
  PROVE  /\ app' = [app EXCEPT ![ThisPart] = Expected]
         /\ ThisPart \in Part
         /\ \A p \in Part : app'[p] \in {0, helper.req.from, helper.req.to}
         /\ \A i \in 1..3 : i <= helper.n => app'[Order[i]] = Expected
         /\ helper.n = 3 => app' = AllOf(Expected)
<1>1. /\ helper.at = "replacing" /\ helper.n \in 1..3 /\ helper.req \in Request
      /\ helper.back \in BOOLEAN
  BY TypesOf DEF IInv, MoveIn, HelperInv
<1>2. Recoverable /\ journal.request = helper.req
  BY <1>1, JournalsOf DEF IInv, JournalInv, LockInv, Recoverable, Begun, Completed, Changing
<1>3. /\ backup[helper.req.from].app = AllOf(helper.req.from)
      /\ \A p \in Part : app[p] \in {0, helper.req.from, helper.req.to}
  BY <1>2 DEF IInv, FileInv
<1>4. ThisPart \in Part /\ Order[1] \in Part /\ Order[2] \in Part /\ Order[3] \in Part
      /\ Order[1] # Order[2] /\ Order[2] # Order[3] /\ Order[1] # Order[3]
      /\ Part = {Order[1], Order[2], Order[3]}
  BY <1>1, OrdersAreThree DEF ThisPart, Order, Part
<1>5. app' = [app EXCEPT ![ThisPart] = Expected]
  <2>1. (IF helper.back THEN Saved.app[ThisPart] ELSE helper.req.to) = Expected
    BY <1>3, <1>4, WholeFiles DEF Saved, Expected
  <2> QED
    BY <2>1 DEF MoveIn
<1>6. app \in Files /\ DOMAIN app = Part
  BY TypesNow DEF IInv, Files
<1>7. \A i \in 1..3 : i < helper.n => app[Order[i]] = Expected
  BY <1>1 DEF IInv, ProgressInv
<1>8. ASSUME NEW i \in 1..3, i <= helper.n
      PROVE  app'[Order[i]] = Expected
  <2>1. CASE i = helper.n
    BY <1>5, <1>6, <1>4, <2>1 DEF ThisPart
  <2>2. CASE i < helper.n
    <3>1. Order[i] # ThisPart /\ Order[i] \in Part
      BY <1>1, <1>4, <2>2 DEF ThisPart
    <3> QED
      BY <1>5, <1>6, <1>7, <2>2, <3>1
  <2> QED
    BY <1>1, <1>8, <2>1, <2>2
<1>9. \A p \in Part : app'[p] \in {0, helper.req.from, helper.req.to}
  BY <1>3, <1>5, <1>6 DEF Expected
<1>10. helper.n = 3 => app' = AllOf(Expected)
  <2> SUFFICES ASSUME helper.n = 3
               PROVE  app' = AllOf(Expected)
    OBVIOUS
  <2>1. \A p \in Part : app'[p] = Expected
    BY <1>4, <1>8
  <2>2. app' = [p \in Part |-> app'[p]]
    BY <1>5, <1>6
  <2> QED
    BY <2>1, <2>2 DEF AllOf
<1> QED
  BY <1>4, <1>5, <1>8, <1>9, <1>10

----------------------------------------------------------------------------
(* Every step keeps the invariant, by groups of actions                     *)

\* The program starts, ticks and stops.
LEMMA StartStepInv ==
  ASSUME IInv,
         \/ ProgramStarts \/ BootContinues \/ StartRecovery \/ OpenDatabase
         \/ DeliverAtStart \/ Interrupt \/ Tick \/ ProgramStops
  PROVE  IInv'
<1>1. CASE ProgramStarts
  <2>a. TypeOK'
    BY <1>1, TypesNow, TypesAfter, FilesTyped DEF IInv, ProgramStarts, ProgStage, bounds,
       fileVars
  <2>b. HelperInv' /\ LockInv'
    BY <1>1 DEF HelperInv, IInv, LockInv, ProgramStarts, Asking, Installing, bounds,
       fileVars
  <2>c. TurnInv' /\ JournalInv'
    BY <1>1 DEF IInv, JournalInv, ProgramStarts, TurnInv, Asking, Begun, Changing,
       Installing, Preparing, bounds, fileVars
  <2>d. FileInv' /\ ProgressInv'
    BY <1>1 DEF FileInv, IInv, ProgramStarts, ProgressInv, Begun, Completed, Good,
       Installing, Recoverable, Serving, fileVars
  <2>e. HistoryInv'
    BY <1>1 DEF HistoryInv, IInv, ProgramStarts, Asking, Begun, Completed, Recoverable,
       bounds, fileVars
  <2> QED
    BY <2>a, <2>b, <2>c, <2>d, <2>e DEF IInv
<1>2. CASE BootContinues
  <2>1. /\ journal' \in {journal, None} /\ result' \in Status \cup {"none"}
        /\ row' \in Status \cup {"none", "open"}
    BY <1>2, TypesOf, TypesNow DEF BootContinues, IInv, FinalizeCompleted, Deliver,
       Completed, ResultOf
  <2>2. Good(app["exe"])
    <3>1. CASE ~Begun
      BY <3>1 DEF IInv, FileInv
    <3>2. CASE Completed
      BY <3>2, WholeFiles DEF IInv, FileInv, Good
    <3>3. CASE LockActive
      <4>1. helper.at \in {"giveup", "health"}
        BY <1>2, <3>3, TypesOf DEF IInv, BootContinues, LockActive, LockInv, TurnInv,
           Asking, HelperStage, Preparing, Changing
      <4>2. \E v : Good(v)
        BY <4>1 DEF IInv, HelperInv, FileInv, ProgressInv, Installing, Changing
      <4> QED
        BY <4>2, WholeFiles DEF Good
    <3> QED
      BY <1>2, <3>1, <3>2, <3>3 DEF BootContinues, NothingToRecover
  <2>3. /\ prog = "boot" /\ pver = app["exe"] /\ prog' = "open" /\ pver' = pver
        /\ UNCHANGED <<app, db, backup, lock, row, req, helper, truth, bounds>>
        /\ journal' = journal \/ ~Begun'
    BY <1>2 DEF BootContinues, ProgramAt, FinalizeCompleted, Begun, IInv, TurnInv
  <2>a. TypeOK'
    BY <2>1, <2>3, TypesNow, TypesAfter DEF BootContinues, IInv, ProgStage, bounds
  <2>b. HelperInv' /\ LockInv'
    BY <2>3 DEF BootContinues, HelperInv, IInv, LockInv, Asking, Installing, bounds
  <2>c. TurnInv' /\ JournalInv'
    BY <1>2, <2>3 DEF BootContinues, IInv, JournalInv, TurnInv, Asking, Begun, Completed,
       Installing, NothingToRecover, Starting, bounds
  <2>d. FileInv' /\ ProgressInv'
    BY <2>2, <2>3 DEF FileInv, IInv, ProgressInv, Begun, Completed, Expected, Good,
       Installing, None, Order, Recoverable, Serving
  <2>e. HistoryInv'
    BY <1>2, <2>3 DEF BootContinues, HistoryInv, IInv, Asking, Begun, Changing, Completed,
       FinalizeCompleted, JournalInv, None, Recoverable, ResultOf, TurnInv, bounds
  <2> QED
    BY <2>a, <2>b, <2>c, <2>d, <2>e DEF IInv
<1>3. CASE StartRecovery
  <2>c1. CASE app["updater"] # 0 /\ helper.at = "none"
    <3>1. journal \in Transaction /\ journal.request \in Request /\ journal.done = "none"
      BY <1>3, TypesOf DEF StartRecovery, IInv, NothingToRecover, Begun, Completed
    <3>2. helper' = [NoHelper EXCEPT !.at = "begin", !.recover = TRUE, !.back = TRUE,
                                     !.req = journal.request]
      BY <1>3, <2>c1 DEF StartRecovery
    <3>3. /\ helper'.at = "begin" /\ helper'.recover /\ helper'.back
          /\ helper'.req = journal.request /\ helper' \in HelperT
      BY <3>1, <3>2, HelperStarts
    <3>4. journal = [request |-> journal.request, done |-> "none"]
      BY <3>1 DEF Transaction
    <3>a. TypeOK'
      BY <1>3, <3>3, TypesNow, TypesAfter DEF IInv, StartRecovery, LockT, Orphan, ProgStage,
         ProgramEnds, bounds
    <3>b. HelperInv' /\ LockInv'
      BY <1>3, <2>c1, <3>1, <3>2 DEF HelperInv, IInv, LockInv, StartRecovery, Asking,
         Installing, JournalInv, NothingToRecover, Orphan, ProgramEnds, bounds
    <3>c. TurnInv' /\ JournalInv'
      BY <1>3, <3>3, <3>4 DEF IInv, JournalInv, StartRecovery, TurnInv, Asking, Installing,
         NothingToRecover, ProgramEnds, bounds
    <3>d. FileInv' /\ ProgressInv'
      BY <1>3, <3>3 DEF FileInv, IInv, ProgressInv, StartRecovery, Begun, Completed,
         Installing, NothingToRecover, Orphan, ProgramEnds, Recoverable, Serving
    <3>e. HistoryInv'
      BY <1>3, <3>3, <3>4, TypesOf, RequestsTyped DEF HistoryInv, IInv, StartRecovery,
         Asking, JournalInv, NothingToRecover, Orphan, ProgramEnds, Recoverable
    <3> QED
      BY <3>a, <3>b, <3>c, <3>d, <3>e DEF IInv
  <2>c2. CASE ~(app["updater"] # 0 /\ helper.at = "none")
    <3>1. helper' = helper
      BY <1>3, <2>c2 DEF StartRecovery
    <3>a. TypeOK'
      BY <1>3, <3>1, TypesNow, TypesAfter DEF IInv, StartRecovery, LockT, Orphan, ProgStage,
         ProgramEnds, bounds
    <3>b. HelperInv' /\ LockInv'
      BY <1>3, <3>1 DEF HelperInv, IInv, LockInv, StartRecovery, Asking, Installing, Orphan,
         ProgramEnds, bounds
    <3>c. TurnInv' /\ JournalInv'
      BY <1>3, <3>1 DEF IInv, JournalInv, StartRecovery, TurnInv, Asking, Installing,
         NothingToRecover, ProgramEnds, bounds
    <3>d. FileInv' /\ ProgressInv'
      BY <1>3, <3>1 DEF FileInv, IInv, ProgressInv, StartRecovery, Begun, Completed,
         Expected, Good, Installing, Order, Orphan, ProgramEnds, Recoverable, Serving
    <3>e. HistoryInv'
      BY <1>3, <3>1 DEF HistoryInv, IInv, StartRecovery, Asking, Completed,
         NothingToRecover, Orphan, ProgramEnds, Recoverable, TurnInv, bounds
    <3> QED
      BY <3>a, <3>b, <3>c, <3>d, <3>e DEF IInv
  <2> QED
    BY <2>c1, <2>c2
<1>4. CASE OpenDatabase
  <2>1. /\ pver \in Version /\ Good(pver) /\ db.state = "whole"
        /\ \A v \in Version : Good(v) => v = pver
    BY <1>4, WholeFiles DEF OpenDatabase, IInv, FileInv, Good, Fits
  <2>2. /\ db' = [state |-> "whole", by |-> db.by \cup {pver}] /\ Fits(db', pver)
        /\ lock' = lock /\ prog' = "opened" /\ pver' = pver /\ db' \in Content
    BY <1>4, <2>1, OpenedFits, TypesNow DEF OpenDatabase, ProgramAt, IInv, Good, Fits,
       Content
  <2>3. \A v : Good(v) => Good(v)'
    BY <1>4, <2>1, <2>2 DEF OpenDatabase, Good
  <2>4. Recoverable =>
          /\ pver <= journal.request.to
          /\ \A p \in Part : app'[p] \in {0, journal.request.from, journal.request.to}
          /\ \A v \in db'.by : v <= journal.request.to
    <3> SUFFICES ASSUME Recoverable
                 PROVE  /\ pver <= journal.request.to
                        /\ \A p \in Part :
                              app'[p] \in {0, journal.request.from, journal.request.to}
                        /\ \A v \in db'.by : v <= journal.request.to
      OBVIOUS
    <3>1. /\ journal.request.from \in Nat /\ journal.request.to \in Nat
          /\ journal.request.from < journal.request.to
          /\ journal.request.from # 0 /\ journal.request.to # 0
      BY TypesOf, RequestsTyped DEF IInv, JournalInv, Recoverable
    <3>2. /\ app["exe"] = pver /\ pver \in Nat /\ pver # 0
          /\ pver \in {0, journal.request.from, journal.request.to}
          /\ \A v \in db.by : v <= journal.request.to
      BY <2>1, WholeFiles, VersionAssumption DEF Good, IInv, FileInv, Part
    <3>3. pver <= journal.request.to
      BY <3>1, <3>2
    <3> QED
      BY <1>4, <2>2, <3>2, <3>3 DEF OpenDatabase, IInv, FileInv
  <2>5. /\ prog = "open" /\ helper.at \in {"none", "giveup", "health"}
        /\ UNCHANGED <<app, backup, journal, result, row, req, helper, truth, bounds>>
    BY <1>4, TypesOf DEF OpenDatabase, IInv, TurnInv, HelperStage, Starting, Preparing,
       Changing, LockInv, Asking
  <2>a. TypeOK'
    BY <2>2, <2>5, TypesNow, TypesAfter DEF IInv, OpenDatabase, Orphan, ProgStage, bounds
  <2>b. HelperInv' /\ LockInv'
    BY <2>2, <2>5 DEF HelperInv, IInv, LockInv, OpenDatabase, Asking, Installing, bounds
  <2>c. TurnInv' /\ JournalInv'
    BY <2>2, <2>5 DEF IInv, JournalInv, OpenDatabase, TurnInv, Asking, Begun, Installing,
       Starting, bounds
  <2>d. FileInv' /\ ProgressInv'
    BY <2>2, <2>3, <2>4, <2>5 DEF FileInv, IInv, ProgressInv, Begun, Completed, Expected,
       Installing, Recoverable
  <2>e. HistoryInv'
    BY <2>2, <2>5 DEF HistoryInv, IInv, OpenDatabase, Asking, Begun, Completed, Recoverable,
       bounds
  <2> QED
    BY <2>a, <2>b, <2>c, <2>d, <2>e DEF IInv
<1>5. CASE DeliverAtStart
  <2>1. /\ journal' \in {journal, None} /\ result' \in Status \cup {"none"}
        /\ row' \in Status \cup {"none", "open"}
    BY <1>5, TypesOf, TypesNow DEF DeliverAtStart, IInv, FinalizeCompleted, Deliver,
       Completed, ResultOf
  <2>2. Completed => Good(app["exe"])
    BY WholeFiles DEF IInv, FileInv, Good
  <2>a. TypeOK'
    BY <1>5, <2>1, TypesNow, TypesAfter DEF DeliverAtStart, IInv, ProgStage, ProgramAt,
       bounds
  <2>b. HelperInv' /\ LockInv'
    BY <1>5 DEF DeliverAtStart, HelperInv, IInv, LockInv, Asking, Installing, ProgramAt,
       bounds
  <2>c. TurnInv' /\ JournalInv'
    BY <1>5 DEF DeliverAtStart, IInv, JournalInv, TurnInv, Asking, Begun, Completed,
       Deliver, Installing, ProgramAt, Starting, bounds
  <2>d. FileInv' /\ ProgressInv'
    BY <1>5, <2>2 DEF DeliverAtStart, FileInv, IInv, ProgressInv, Begun, Changing,
       Completed, Deliver, Expected, Good, Installing, None, ProgramAt, Recoverable,
       Serving, TurnInv
  <2>e. HistoryInv'
    BY <1>5, TypesOf DEF DeliverAtStart, HistoryInv, IInv, Asking, Begun, Changing,
       Completed, Deliver, JournalInv, LockActive, LockInv, ProgramAt, ResultOf, TurnInv,
       bounds
  <2> QED
    BY <2>a, <2>b, <2>c, <2>d, <2>e DEF IInv
<1>6. CASE Interrupt
  <2>1. /\ prog = "delivered" /\ prog' = "up"
        /\ UNCHANGED <<app, db, backup, journal, lock, result, req, helper, truth, bounds>>
        /\ row' = row \/ (row = "open" /\ row' = "failed" /\ ~LockActive)
        /\ truth # "none" => row = truth
    BY <1>6 DEF Interrupt, ProgramAt, IInv, HistoryInv
  <2>2. /\ truth # "none" => row' = row
        /\ row' # "none" <=> row # "none"
        /\ helper.at # "none" => row' = row
    <3>1. truth # "none" => truth # "open"
      BY TypesNow DEF IInv, Status
    <3>2. helper.at # "none" => LockActive
      BY <2>1, TypesOf, RequestsTyped DEF IInv, LockActive, LockInv, TurnInv, HelperInv
    <3> QED
      BY <2>1, <3>1, <3>2
  <2>a. TypeOK'
    BY <1>6, TypesNow, TypesAfter DEF IInv, Interrupt, ProgStage, ProgramAt, Status, bounds
  <2>b. HelperInv' /\ LockInv'
    BY <2>1 DEF HelperInv, IInv, Interrupt, LockInv, Asking, Installing, bounds
  <2>c. TurnInv' /\ JournalInv'
    BY <1>6 DEF IInv, Interrupt, JournalInv, TurnInv, Asking, Begun, Installing, ProgramAt,
       Starting, bounds
  <2>d. FileInv' /\ ProgressInv'
    BY <1>6 DEF FileInv, IInv, Interrupt, ProgressInv, Begun, Changing, Completed, Decision,
       Expected, Good, Installing, JournalInv, ProgramAt, Recoverable, Serving, TurnInv
  <2>e. HistoryInv'
    BY <2>1, <2>2 DEF HistoryInv, IInv, Asking, Begun, Completed, Recoverable, TurnInv,
       bounds
  <2> QED
    BY <2>a, <2>b, <2>c, <2>d, <2>e DEF IInv
<1>7. CASE Tick
  <2>1. /\ journal' \in {journal, None} /\ result' \in Status \cup {"none"}
        /\ row' \in Status \cup {"none", "open"}
    BY <1>7, TypesOf, TypesNow DEF Tick, IInv, FinalizeCompleted, Deliver, Completed,
       ResultOf
  <2>2. Completed => Good(app["exe"])
    BY WholeFiles DEF IInv, FileInv, Good
  <2>a. TypeOK'
    BY <1>7, <2>1, TypesNow, TypesAfter DEF IInv, Tick, ProgStage, ProgramAt, bounds
  <2>b. HelperInv' /\ LockInv'
    BY <1>7 DEF HelperInv, IInv, LockInv, Tick, Asking, Installing, ProgramAt, bounds
  <2>c. TurnInv' /\ JournalInv'
    BY <1>7, RequestsTyped DEF IInv, JournalInv, Tick, TurnInv, Asking, Begun, Decision,
       Deliver, HelperInv, HistoryInv, Installing, LockActive, LockInv, Preparing,
       ProgramAt, Starting, Status, bounds
  <2>d. FileInv' /\ ProgressInv'
    BY <1>7, <2>2 DEF FileInv, IInv, ProgressInv, Tick, Begun, Completed, Deliver, Expected,
       Good, Installing, None, Order, ProgramAt, Recoverable, Serving
  <2>e. HistoryInv'
    BY <1>7, WholeFiles DEF HistoryInv, IInv, Tick, Asking, Begun, Changing, Decision,
       Deliver, Ends, FileInv, Good, JournalInv, NoRequest, None, ProgramAt, ResultOf,
       Serving, TurnInv, bounds
  <2> QED
    BY <2>a, <2>b, <2>c, <2>d, <2>e DEF IInv
<1>8. CASE ProgramStops
  <2>a. TypeOK'
    BY <1>8, TypesNow, TypesAfter DEF IInv, ProgramStops, LockT, Orphan, ProgStage,
       ProgramEnds, bounds
  <2>b. HelperInv' /\ LockInv'
    BY <1>8 DEF HelperInv, IInv, LockInv, ProgramStops, Asking, Installing, Orphan,
       ProgramEnds, bounds
  <2>c. TurnInv' /\ JournalInv'
    BY <1>8 DEF IInv, JournalInv, ProgramStops, TurnInv, Asking, Begun, Decision,
       Installing, ProgramEnds, bounds
  <2>d. FileInv' /\ ProgressInv'
    BY <1>8 DEF FileInv, IInv, ProgramStops, ProgressInv, Begun, Completed, Expected, Good,
       Installing, Order, Orphan, ProgramEnds, Recoverable, Serving
  <2>e. HistoryInv'
    BY <1>8 DEF HistoryInv, IInv, ProgramStops, Asking, Begun, Completed, Decision, Orphan,
       ProgramEnds, Recoverable, bounds
  <2> QED
    BY <2>a, <2>b, <2>c, <2>d, <2>e DEF IInv
<1> QED
  BY <1>1, <1>2, <1>3, <1>4, <1>5, <1>6, <1>7, <1>8

\* The program installs.
LEMMA AskStepInv ==
  ASSUME IInv,
         \/ (\E v \in Version : InstallBegins(v)) \/ InstallFails
         \/ BackupDatabase \/ WriteUpdateRequest \/ HandOff \/ LaunchUpdater
         \/ Shutdown
  PROVE  IInv'
<1>1. CASE \E v \in Version : InstallBegins(v)
  <2> PICK v \in Version : InstallBegins(v)
    BY <1>1
  <2>1. /\ Good(pver) /\ pver \in Version /\ installs' \in 1..MaxInstalls
        /\ installs' = installs + 1 /\ installs \in Nat
    BY TypesOf, BoundsAssumption DEF InstallBegins, IInv, FileInv, Serving, Good
  <2>2. /\ req' \in Request /\ req'.id = installs' /\ req'.from = pver /\ req'.from < req'.to
        /\ lock' \in LockT /\ lock'.token = Begin /\ lock'.token < 0 /\ lock'.owner = "program"
    BY <2>1, VersionAssumption DEF InstallBegins, Request, LockT, Token, Begin
  <2>3. helper.at \notin {"begin", "wait"} /\ ~LockActive /\ pver' = pver
    BY DEF InstallBegins, IInv, TurnInv, ProgramAt
  <2>a. TypeOK'
    BY <2>1, <2>2, TypesNow, TypesAfter DEF IInv, InstallBegins, ProgStage, ProgramAt
  <2>b. HelperInv' /\ LockInv'
    BY <2>3, RequestsTyped DEF HelperInv, IInv, InstallBegins, LockInv, Asking, Begin,
       Installing, LockActive, ProgramAt
  <2>c. TurnInv' /\ JournalInv'
    BY <2>2, TypesOf, RequestsTyped DEF IInv, InstallBegins, JournalInv, TurnInv, Asking,
       Begun, HelperInv, LockActive, LockInv, ProgramAt
  <2>d. FileInv' /\ ProgressInv'
    BY <2>1, <2>2, <2>3, TypesOf, RequestsTyped DEF FileInv, IInv, InstallBegins,
       ProgressInv, Begun, Completed, Good, HelperInv, Installing, LockActive, LockInv,
       Recoverable, Serving
  <2>e. HistoryInv'
    BY RequestsTyped DEF HistoryInv, IInv, InstallBegins, HelperInv, LockActive, LockInv
  <2> QED
    BY <2>a, <2>b, <2>c, <2>d, <2>e DEF IInv
<1>2. CASE InstallFails
  <2>a. TypeOK'
    BY <1>2, TypesNow, TypesAfter DEF IInv, InstallFails, Free, LockT, ProgStage, ProgramAt,
       Status, Token, bounds
  <2>b. HelperInv' /\ LockInv'
    BY <1>2 DEF HelperInv, IInv, InstallFails, LockInv, Asking, Free, Installing, ProgramAt,
       TurnInv
  <2>c. TurnInv' /\ JournalInv'
    BY <1>2 DEF IInv, InstallFails, JournalInv, TurnInv, Asking, Begun, ProgramAt, bounds
  <2>d. FileInv' /\ ProgressInv'
    BY <1>2, TypesOf, RequestsTyped DEF FileInv, IInv, InstallFails, ProgressInv, Begun,
       Changing, Completed, Free, Good, Installing, ProgramAt, Recoverable, Serving,
       Starting, TurnInv
  <2>e. HistoryInv'
    BY <1>2 DEF HistoryInv, IInv, InstallFails, Asking, ProgramAt, TurnInv
  <2> QED
    BY <2>a, <2>b, <2>c, <2>d, <2>e DEF IInv
<1>3. CASE BackupDatabase
  <2>a. TypeOK'
    BY <1>3, TypesNow, TypesAfter, FilesTyped, CopiesTyped, CopyChanges, ContentsTyped
       DEF BackupDatabase, IInv, ProgStage, ProgramAt, bounds
  <2>b. HelperInv' /\ LockInv'
    BY <1>3 DEF BackupDatabase, HelperInv, IInv, LockInv, Asking, Begin, Installing,
       ProgramAt
  <2>c. TurnInv' /\ JournalInv'
    BY <1>3 DEF BackupDatabase, IInv, JournalInv, TurnInv, Asking, Begun, ProgramAt, bounds
  <2>d. FileInv' /\ ProgressInv'
    BY <1>3, TypesOf, RequestsTyped DEF BackupDatabase, FileInv, IInv, ProgressInv, Asking,
       Begun, Completed, Good, Installing, JournalInv, LockInv, ProgramAt, Recoverable,
       Serving
  <2>e. HistoryInv'
    BY <1>3 DEF BackupDatabase, HistoryInv, IInv, Asking, Begin, TurnInv
  <2> QED
    BY <2>a, <2>b, <2>c, <2>d, <2>e DEF IInv
<1>4. CASE WriteUpdateRequest
  <2>a. TypeOK'
    BY <1>4, TypesNow, TypesAfter, FilesTyped, CopiesTyped, CopyChanges, ContentsTyped
       DEF IInv, WriteUpdateRequest, ProgStage, ProgramAt, bounds
  <2>b. HelperInv' /\ LockInv'
    BY <1>4 DEF HelperInv, IInv, LockInv, WriteUpdateRequest, Asking, Begin, Installing,
       ProgramAt
  <2>c. TurnInv' /\ JournalInv'
    BY <1>4 DEF IInv, JournalInv, TurnInv, WriteUpdateRequest, Asking, Begun, ProgramAt,
       bounds
  <2>d. FileInv' /\ ProgressInv'
    BY <1>4 DEF FileInv, IInv, ProgressInv, WriteUpdateRequest, Begun, Completed, Expected,
       Good, Installing, Order, ProgramAt, Recoverable, Serving
  <2>e. HistoryInv'
    BY <1>4 DEF HistoryInv, IInv, WriteUpdateRequest, Asking, Begin, TurnInv
  <2> QED
    BY <2>a, <2>b, <2>c, <2>d, <2>e DEF IInv
<1>5. CASE HandOff
  <2>1. /\ req \in Request /\ lock' \in LockT
        /\ lock'.token = req.id /\ lock'.owner = lock.owner
    BY <1>5, LocksTyped, TypesNow, RequestsTyped DEF HandOff, IInv, TurnInv, Asking, LockT,
       Token
  <2>a. TypeOK'
    BY <1>5, <2>1, TypesNow, TypesAfter DEF HandOff, IInv, ProgStage, ProgramAt, bounds
  <2>b. HelperInv' /\ LockInv'
    BY <1>5 DEF HandOff, HelperInv, IInv, LockInv, Asking, Installing, ProgramAt, TurnInv,
       bounds
  <2>c. TurnInv' /\ JournalInv'
    BY <1>5 DEF HandOff, IInv, JournalInv, TurnInv, Asking, Begun, ProgramAt, bounds
  <2>d. FileInv' /\ ProgressInv'
    BY <1>5 DEF FileInv, HandOff, IInv, ProgressInv, Asking, Begun, Completed, Good,
       Installing, JournalInv, ProgramAt, Recoverable, Serving, TurnInv
  <2>e. HistoryInv'
    BY <1>5, <2>1 DEF HandOff, HistoryInv, IInv, Asking, Begun, Changing, Completed,
       Preparing, ProgramAt, ProgressInv, Recoverable, Serving, Starting, Status, TurnInv,
       bounds
  <2> QED
    BY <2>a, <2>b, <2>c, <2>d, <2>e DEF IInv
<1>6. CASE LaunchUpdater
  <2>1. /\ req \in Request /\ helper' \in HelperT /\ helper'.at = "begin"
        /\ ~helper'.recover /\ ~helper'.back /\ helper'.req = req
    <3>1. req \in Request
      BY <1>6 DEF LaunchUpdater, IInv, TurnInv, Asking
    <3>2. helper' = [NoHelper EXCEPT !.at = "begin", !.req = req]
      BY <1>6 DEF LaunchUpdater
    <3> QED
      BY <3>1, <3>2, HelperStarts
  <2>a. TypeOK'
    BY <1>6, <2>1, TypesNow, TypesAfter DEF IInv, LaunchUpdater, ProgStage, ProgramAt,
       bounds, fileVars
  <2>b. HelperInv' /\ LockInv'
    BY <1>6, <2>1 DEF HelperInv, IInv, LaunchUpdater, LockInv, Asking, ProgramAt, TurnInv,
       bounds, fileVars
  <2>c. TurnInv' /\ JournalInv'
    BY <1>6, <2>1 DEF IInv, JournalInv, LaunchUpdater, TurnInv, Asking, Begun, Changing,
       ProgramAt, bounds, fileVars
  <2>d. FileInv' /\ ProgressInv'
    BY <1>6 DEF FileInv, IInv, LaunchUpdater, ProgressInv, Asking, Begun, Completed, Good,
       JournalInv, ProgramAt, Recoverable, Serving, TurnInv, fileVars
  <2>e. HistoryInv'
    BY <1>6 DEF HistoryInv, IInv, LaunchUpdater, Asking, fileVars
  <2> QED
    BY <2>a, <2>b, <2>c, <2>d, <2>e DEF IInv
<1>7. CASE Shutdown
  <2>a. TypeOK'
    BY <1>7, TypesNow, TypesAfter DEF IInv, Shutdown, LockT, Orphan, ProgStage, ProgramEnds,
       bounds
  <2>b. HelperInv' /\ LockInv'
    BY <1>7 DEF HelperInv, IInv, LockInv, Shutdown, Asking, Installing, Orphan, ProgramEnds,
       bounds
  <2>c. TurnInv' /\ JournalInv'
    BY <1>7 DEF IInv, JournalInv, Shutdown, TurnInv, Asking, Begun, ProgramEnds, bounds
  <2>d. FileInv' /\ ProgressInv'
    BY <1>7 DEF FileInv, IInv, ProgressInv, Shutdown, Begun, Completed, Expected, Good,
       Installing, Order, Orphan, ProgramEnds, Recoverable, Serving
  <2>e. HistoryInv'
    BY <1>7 DEF HistoryInv, IInv, Shutdown, Asking, Begun, Completed, Orphan, ProgramEnds,
       Recoverable, TurnInv, bounds
  <2> QED
    BY <2>a, <2>b, <2>c, <2>d, <2>e DEF IInv
<1> QED
  BY <1>1, <1>2, <1>3, <1>4, <1>5, <1>6, <1>7

\* The helper begins, and has the backup completed.
LEMMA PrepareStepInv ==
  ASSUME IInv,
         \/ RefuseRequest \/ TakeOver \/ StopService \/ Waited \/ WaitFails
         \/ FinalizeBackup \/ FinalizeDone \/ BackupFiles \/ BackupFilesDone
         \/ StartUnchanged \/ TellUnchanged \/ WriteTransaction
  PROVE  IInv'
<1>1. CASE RefuseRequest
  <2>a. TypeOK'
    BY <1>1, TypesNow, TypesAfter DEF IInv, RefuseRequest, HelperEnds, HelperStage, HelperT,
       NoHelper, bounds, fileVars
  <2>b. HelperInv' /\ LockInv'
    BY <1>1 DEF HelperInv, IInv, LockInv, RefuseRequest, HelperEnds, NoHelper, bounds,
       fileVars
  <2>c. TurnInv' /\ JournalInv'
    BY <1>1 DEF IInv, JournalInv, RefuseRequest, TurnInv, Begun, Changing, HelperEnds,
       Installing, NoHelper, Preparing, bounds, fileVars
  <2>d. FileInv' /\ ProgressInv'
    BY <1>1 DEF FileInv, IInv, ProgressInv, RefuseRequest, Begun, Completed, Good,
       HelperEnds, Installing, NoHelper, Preparing, Recoverable, fileVars
  <2>e. HistoryInv'
    BY <1>1 DEF HistoryInv, IInv, RefuseRequest, Begun, Changing, Completed, HelperEnds,
       NoHelper, Preparing, Recoverable, bounds, fileVars
  <2> QED
    BY <2>a, <2>b, <2>c, <2>d, <2>e DEF IInv
<1>2. CASE TakeOver
  <2>c1. CASE lock.token = helper.req.id
    <3>1. /\ helper' \in HelperT /\ helper'.at = "wait" /\ helper'.req = helper.req
          /\ helper'.recover = helper.recover /\ helper'.back = helper.back
          /\ lock' = [lock EXCEPT !.owner = "helper"] /\ result' = result
      BY <1>2, <2>c1, TypesNow DEF TakeOver, HelperAt, IInv, HelperT, HelperStage
    <3>2. lock' \in LockT /\ lock'.token = lock.token /\ lock'.owner = "helper"
      BY <3>1, TypesNow DEF LockT, IInv
    <3>a. TypeOK'
      BY <1>2, <3>1, <3>2, TypesNow, TypesAfter DEF IInv, TakeOver, bounds
    <3>b. HelperInv' /\ LockInv'
      BY <1>2, <2>c1, <3>1 DEF HelperInv, IInv, LockInv, TakeOver, Installing, Preparing,
         TurnInv, bounds
    <3>c. TurnInv' /\ JournalInv'
      BY <1>2, <3>1 DEF IInv, JournalInv, TakeOver, TurnInv, Begun, Changing, Installing,
         Preparing, bounds
    <3>d. FileInv' /\ ProgressInv'
      BY <1>2, <3>1 DEF FileInv, IInv, ProgressInv, TakeOver, Begun, Completed, Good,
         Installing, Preparing, Recoverable
    <3>e. HistoryInv'
      BY <1>2, <3>1 DEF HistoryInv, IInv, TakeOver, Begun, Completed, Preparing,
         Recoverable, bounds
    <3> QED
      BY <3>a, <3>b, <3>c, <3>d, <3>e DEF IInv
  <2>c2. CASE lock.token # helper.req.id
    <3>1. helper' = NoHelper /\ lock' = lock /\ result' = result /\ helper.recover
      BY <1>2, <2>c2 DEF TakeOver, HelperEnds, IInv, LockInv
    <3>a. TypeOK'
      BY <1>2, <3>1, TypesNow, TypesAfter DEF IInv, TakeOver, HelperStage, HelperT,
         NoHelper, bounds
    <3>b. HelperInv' /\ LockInv'
      BY <1>2, <3>1 DEF HelperInv, IInv, LockInv, TakeOver, NoHelper, bounds
    <3>c. TurnInv' /\ JournalInv'
      BY <1>2, <3>1 DEF IInv, JournalInv, TakeOver, TurnInv, Begun, Changing, Installing,
         NoHelper, Preparing, bounds
    <3>d. FileInv' /\ ProgressInv'
      BY <1>2, <3>1 DEF FileInv, IInv, ProgressInv, TakeOver, Begun, Completed, Good,
         Installing, NoHelper, Preparing, Recoverable
    <3>e. HistoryInv'
      BY <1>2, <3>1 DEF HistoryInv, IInv, TakeOver, Begun, Changing, Completed, NoHelper,
         Preparing, Recoverable, bounds
    <3> QED
      BY <3>a, <3>b, <3>c, <3>d, <3>e DEF IInv
  <2> QED
    BY <2>c1, <2>c2
<1>3. CASE StopService
  <2>a. TypeOK'
    BY <1>3, TypesNow, TypesAfter DEF IInv, StopService, ProgStage, ProgramEnds, bounds,
       fileVars
  <2>b. HelperInv' /\ LockInv'
    BY <1>3 DEF HelperInv, IInv, LockInv, StopService, Asking, Installing, ProgramEnds,
       bounds, fileVars
  <2>c. TurnInv' /\ JournalInv'
    BY <1>3 DEF IInv, JournalInv, StopService, TurnInv, Asking, Begun, ProgramEnds, bounds,
       fileVars
  <2>d. FileInv' /\ ProgressInv'
    BY <1>3 DEF FileInv, IInv, ProgressInv, StopService, Begun, Completed, Good, Installing,
       ProgramEnds, Recoverable, Serving, fileVars
  <2>e. HistoryInv'
    BY <1>3 DEF HistoryInv, IInv, StopService, HelperInv, Installing, Preparing, TurnInv,
       fileVars
  <2> QED
    BY <2>a, <2>b, <2>c, <2>d, <2>e DEF IInv
<1>4. CASE Waited
  <2>1. /\ helper' \in HelperT /\ helper'.req = helper.req
        /\ helper'.recover = helper.recover /\ helper'.back = helper.back
        /\ helper'.at = (IF helper.recover THEN "replace" ELSE "backup")
        /\ helper.recover => helper'.n = 1
    <3>1. /\ helper \in HelperT /\ 1 \in 0..3
          /\ "replace" \in HelperStage /\ "backup" \in HelperStage
      BY TypesNow DEF IInv, HelperStage
    <3>2. CASE helper.recover
      <4>1. helper' = [helper EXCEPT !.at = "replace", !.n = 1]
        BY <1>4, <3>2 DEF Waited
      <4> QED
        BY <3>1, <3>2, <4>1, HelperNext
    <3>3. CASE ~helper.recover
      <4>1. helper' = [helper EXCEPT !.at = "backup"]
        BY <1>4, <3>3 DEF Waited
      <4>2. helper.n \in 0..3
        BY <3>1 DEF HelperT
      <4> QED
        BY <3>1, <3>3, <4>1, <4>2, HelperNext
    <3> QED
      BY <3>2, <3>3
  <2>a. TypeOK'
    BY <1>4, <2>1, TypesNow, TypesAfter DEF IInv, Waited, bounds, fileVars
  <2>b. HelperInv' /\ LockInv'
    BY <1>4 DEF HelperInv, IInv, LockInv, Waited, Changing, Installing, Preparing, bounds,
       fileVars
  <2>c. TurnInv' /\ JournalInv'
    BY <1>4 DEF IInv, JournalInv, TurnInv, Waited, Begun, Changing, Installing, Preparing,
       bounds, fileVars
  <2>d. FileInv' /\ ProgressInv'
    BY <1>4 DEF FileInv, IInv, ProgressInv, Waited, Begun, Completed, Good, HelperInv,
       Installing, Preparing, Recoverable, fileVars
  <2>e. HistoryInv'
    BY <1>4 DEF HistoryInv, IInv, Waited, Begun, Completed, Preparing, Recoverable, bounds,
       fileVars
  <2> QED
    BY <2>a, <2>b, <2>c, <2>d, <2>e DEF IInv
<1>5. CASE WaitFails
  <2>a. TypeOK'
    BY <1>5, TypesNow, TypesAfter DEF IInv, WaitFails, Free, GiveUp, HelperEnds,
       HelperStage, HelperT, LockT, NoHelper, Released, ResultOf, Status, Token, bounds
  <2>b. HelperInv' /\ LockInv'
    BY <1>5 DEF HelperInv, IInv, LockInv, WaitFails, Free, GiveUp, HelperEnds, NoHelper,
       Released, TurnInv
  <2>c. TurnInv' /\ JournalInv'
    BY <1>5 DEF IInv, JournalInv, TurnInv, WaitFails, Begun, Changing, GiveUp, HelperEnds,
       Installing, NoHelper, Preparing, bounds
  <2>d. FileInv' /\ ProgressInv'
    BY <1>5, TypesOf, RequestsTyped DEF FileInv, IInv, ProgressInv, WaitFails, Begun,
       Completed, Free, GiveUp, Good, HelperEnds, Installing, NoHelper, Preparing,
       Recoverable, Released
  <2>e. HistoryInv'
    BY <1>5, TypesOf, RequestsTyped DEF HistoryInv, IInv, WaitFails, Begun, Changing, Free,
       GiveUp, HelperEnds, LockInv, NoHelper, Preparing, Recoverable, Released, bounds
  <2> QED
    BY <2>a, <2>b, <2>c, <2>d, <2>e DEF IInv
<1>6. CASE FinalizeBackup
  <2>a. TypeOK'
    BY <1>6, TypesNow, TypesAfter, CopiesTyped, CopyChanges, ContentsTyped, RequestsTyped
       DEF FinalizeBackup, IInv, HelperAt, HelperStage, HelperT, bounds
  <2>b. HelperInv' /\ LockInv'
    BY <1>6 DEF FinalizeBackup, HelperInv, IInv, LockInv, Changing, HelperAt, Installing,
       Preparing, bounds
  <2>c. TurnInv' /\ JournalInv'
    BY <1>6 DEF FinalizeBackup, IInv, JournalInv, TurnInv, Begun, Changing, HelperAt,
       Installing, Preparing, bounds
  <2>d. FileInv' /\ ProgressInv'
    BY <1>6, RequestsTyped DEF FileInv, FinalizeBackup, IInv, ProgressInv, Begun, Changing,
       Completed, Good, HelperAt, HelperInv, Installing, JournalInv, LockInv, Preparing,
       Recoverable
  <2>e. HistoryInv'
    BY <1>6 DEF FinalizeBackup, HistoryInv, IInv, Changing, HelperAt, HelperInv, Installing,
       Preparing
  <2> QED
    BY <2>a, <2>b, <2>c, <2>d, <2>e DEF IInv
<1>7. CASE FinalizeDone
  <2>1. /\ helper.req.from \in Version /\ db \in Content /\ Good(helper.req.from)
        /\ backup'[helper.req.from].db = db
        /\ backup' \in [Version -> CopyT]
    <3>1. /\ helper.req \in Request /\ Good(helper.req.from)
      BY <1>7 DEF FinalizeDone, IInv, HelperInv, FileInv, Installing, Preparing, Changing
    <3>2. helper.req.from \in Version /\ db \in Content /\ backup \in [Version -> CopyT]
      BY <3>1, RequestsTyped, TypesNow DEF IInv
    <3>3. backup' = [backup EXCEPT ![helper.req.from].db = db]
      BY <1>7 DEF FinalizeDone
    <3> QED
      BY <3>1, <3>2, <3>3 DEF CopyT
  <2>a. TypeOK'
    BY <1>7, <2>1, TypesNow, TypesAfter DEF FinalizeDone, IInv, HelperAt, HelperStage,
       HelperT, bounds
  <2>b. HelperInv' /\ LockInv'
    BY <1>7 DEF FinalizeDone, HelperInv, IInv, LockInv, Changing, HelperAt, Installing,
       Preparing, bounds
  <2>c. TurnInv' /\ JournalInv'
    BY <1>7 DEF FinalizeDone, IInv, JournalInv, TurnInv, Begun, Changing, HelperAt,
       Installing, Preparing, bounds
  <2>d. FileInv' /\ ProgressInv'
    BY <1>7, <2>1 DEF FileInv, FinalizeDone, IInv, ProgressInv, Begun, Changing, Completed,
       Good, HelperAt, HelperInv, HistoryInv, Recoverable
  <2>e. HistoryInv'
    BY <1>7 DEF FinalizeDone, HistoryInv, IInv, Changing, HelperAt, HelperInv, Installing,
       Preparing
  <2> QED
    BY <2>a, <2>b, <2>c, <2>d, <2>e DEF IInv
<1>8. CASE BackupFiles
  <2>1. /\ helper.req.from \in Version
        /\ backup'[helper.req.from].db = backup[helper.req.from].db
        /\ backup' \in [Version -> CopyT]
    <3>1. helper.req \in Request
      BY <1>8 DEF BackupFiles, IInv, HelperInv
    <3>2. /\ helper.req.from \in Version /\ backup \in [Version -> CopyT]
          /\ NoFiles \in Files
      BY <3>1, RequestsTyped, TypesNow DEF IInv, NoFiles, Files
    <3>3. backup' = [backup EXCEPT ![helper.req.from].app = NoFiles]
      BY <1>8 DEF BackupFiles
    <3> QED
      BY <3>2, <3>3 DEF CopyT
  <2>a. TypeOK'
    BY <1>8, <2>1, TypesNow, TypesAfter DEF BackupFiles, IInv, HelperAt, HelperStage,
       HelperT, bounds
  <2>b. HelperInv' /\ LockInv'
    BY <1>8 DEF BackupFiles, HelperInv, IInv, LockInv, Changing, HelperAt, Installing,
       Preparing, bounds
  <2>c. TurnInv' /\ JournalInv'
    BY <1>8 DEF BackupFiles, IInv, JournalInv, TurnInv, Begun, Changing, HelperAt,
       Installing, Preparing, bounds
  <2>d. FileInv' /\ ProgressInv'
    BY <1>8, RequestsTyped, OrdersAreThree, WholeFiles, NothingTyped DEF BackupFiles,
       FileInv, IInv, ProgressInv, Begun, Changing, Completed, Good, HelperAt, HelperInv,
       Installing, JournalInv, LockInv, Preparing, Recoverable
  <2>e. HistoryInv'
    BY <1>8 DEF BackupFiles, HistoryInv, IInv, Changing, HelperAt, HelperInv, Installing,
       Preparing
  <2> QED
    BY <2>a, <2>b, <2>c, <2>d, <2>e DEF IInv
<1>9. CASE BackupFilesDone
  <2>1. /\ helper.req.from \in Version
        /\ backup'[helper.req.from].db = backup[helper.req.from].db
        /\ backup'[helper.req.from].app = app
        /\ backup' \in [Version -> CopyT]
    <3>1. helper.req \in Request
      BY <1>9 DEF BackupFilesDone, IInv, HelperInv
    <3>2. helper.req.from \in Version /\ backup \in [Version -> CopyT] /\ app \in Files
      BY <3>1, RequestsTyped, TypesNow DEF IInv
    <3>3. backup' = [backup EXCEPT ![helper.req.from].app = app]
      BY <1>9 DEF BackupFilesDone
    <3> QED
      BY <3>2, <3>3 DEF CopyT
  <2>a. TypeOK'
    BY <1>9, <2>1, TypesNow, TypesAfter DEF BackupFilesDone, IInv, HelperAt, HelperStage,
       HelperT, bounds
  <2>b. HelperInv' /\ LockInv'
    BY <1>9 DEF BackupFilesDone, HelperInv, IInv, LockInv, Changing, HelperAt, Installing,
       Preparing, bounds
  <2>c. TurnInv' /\ JournalInv'
    BY <1>9 DEF BackupFilesDone, IInv, JournalInv, TurnInv, Begun, Changing, HelperAt,
       Installing, Preparing, bounds
  <2>d. FileInv' /\ ProgressInv'
    BY <1>9, <2>1 DEF BackupFilesDone, FileInv, IInv, ProgressInv, Begun, Changing,
       Completed, Good, HelperAt, HelperInv, Installing, Preparing, Recoverable
  <2>e. HistoryInv'
    BY <1>9 DEF BackupFilesDone, HistoryInv, IInv, Changing, HelperAt, HelperInv,
       Installing, Preparing
  <2> QED
    BY <2>a, <2>b, <2>c, <2>d, <2>e DEF IInv
<1>10. CASE StartUnchanged
  <2>1. /\ Good(helper.req.from) /\ pver' = helper.req.from /\ pver' \in Version /\ pver' # 0
        /\ helper.req \in Request
    <3>1. /\ helper.req \in Request /\ Good(helper.req.from) /\ pver' = app["exe"]
      BY <1>10 DEF StartUnchanged, IInv, FileInv, HelperInv, Installing, Preparing, Changing
    <3> QED
      BY <3>1, WholeFiles, RequestsTyped DEF Good
  <2>a. TypeOK'
    BY <1>10, <2>1, TypesNow, TypesAfter DEF IInv, StartUnchanged, HelperAt, HelperStage,
       HelperT, ProgStage, bounds, fileVars
  <2>b. HelperInv' /\ LockInv'
    BY <1>10 DEF HelperInv, IInv, LockInv, StartUnchanged, Asking, Changing, HelperAt,
       Installing, Preparing, bounds, fileVars
  <2>c. TurnInv' /\ JournalInv'
    BY <1>10, <2>1 DEF IInv, JournalInv, StartUnchanged, TurnInv, Asking, Begun, Changing,
       HelperAt, Installing, Preparing, Starting, bounds, fileVars
  <2>d. FileInv' /\ ProgressInv'
    BY <1>10, <2>1 DEF FileInv, IInv, ProgressInv, StartUnchanged, Begun, Completed, Good,
       HelperAt, Recoverable, Serving, fileVars
  <2>e. HistoryInv'
    BY <1>10 DEF HistoryInv, IInv, StartUnchanged, Changing, HelperAt, HelperInv,
       Installing, Preparing, fileVars
  <2> QED
    BY <2>a, <2>b, <2>c, <2>d, <2>e DEF IInv
<1>11. CASE TellUnchanged
  <2>a. TypeOK'
    BY <1>11, TypesNow, TypesAfter DEF IInv, TellUnchanged, Free, GiveUp, HelperEnds,
       HelperStage, HelperT, LockT, NoHelper, Released, ResultOf, Status, Token, bounds
  <2>b. HelperInv' /\ LockInv'
    BY <1>11 DEF HelperInv, IInv, LockInv, TellUnchanged, Free, GiveUp, HelperEnds,
       NoHelper, Released, Starting, TurnInv
  <2>c. TurnInv' /\ JournalInv'
    BY <1>11 DEF IInv, JournalInv, TellUnchanged, TurnInv, Begun, Changing, GiveUp,
       HelperEnds, Installing, NoHelper, Preparing, bounds
  <2>d. FileInv' /\ ProgressInv'
    BY <1>11, TypesOf, RequestsTyped DEF FileInv, IInv, ProgressInv, TellUnchanged, Begun,
       Completed, Free, GiveUp, Good, HelperEnds, Installing, NoHelper, Preparing,
       Recoverable, Released
  <2>e. HistoryInv'
    BY <1>11, TypesOf, RequestsTyped DEF HistoryInv, IInv, TellUnchanged, Begun, Changing,
       Free, GiveUp, HelperEnds, LockInv, NoHelper, Preparing, Recoverable, Released, bounds
  <2> QED
    BY <2>a, <2>b, <2>c, <2>d, <2>e DEF IInv
<1>12. CASE WriteTransaction
  <2>1. /\ helper.req \in Request /\ Good(helper.req.from) /\ helper.req.from < helper.req.to
        /\ lock.token = helper.req.id /\ ~helper.back
        /\ helper.req.from \in Nat /\ helper.req.to \in Nat
    <3>1. /\ helper.req \in Request /\ Good(helper.req.from) /\ helper.req.from < helper.req.to
          /\ lock.token = helper.req.id /\ ~helper.back
      BY <1>12, TypesOf DEF WriteTransaction, IInv, FileInv, HelperInv, LockInv, Installing,
         Preparing, Changing
    <3> QED
      BY <3>1, RequestsTyped
  <2>2. /\ journal' = [request |-> helper.req, done |-> "none"] /\ journal' \in Transaction
        /\ journal'.request = helper.req /\ journal'.done = "none" /\ journal' # None
        /\ helper'.at = "replace" /\ helper'.n = 1 /\ helper' \in HelperT
        /\ helper'.req = helper.req /\ helper'.back = helper.back
        /\ helper'.recover = helper.recover
    <3>1. /\ journal' = [request |-> helper.req, done |-> "none"]
          /\ helper' = [helper EXCEPT !.at = "replace", !.n = 1]
      BY <1>12 DEF WriteTransaction
    <3>2. /\ helper' \in HelperT /\ helper'.at = "replace" /\ helper'.n = 1
          /\ helper'.req = helper.req /\ helper'.back = helper.back
          /\ helper'.recover = helper.recover
      <4>1. helper \in HelperT /\ 1 \in 0..3 /\ "replace" \in HelperStage
        BY TypesNow DEF IInv, HelperStage
      <4> QED
        BY <3>1, <4>1, HelperNext
    <3> QED
      BY <2>1, <3>1, <3>2, JournalsOf
  <2>3. /\ \A p \in Part : app[p] = helper.req.from
        /\ \A v \in db.by : v <= helper.req.from /\ v \in Nat /\ v <= helper.req.to
    <3>1. \A v \in db.by : v \in Nat
      BY TypesNow, VersionAssumption DEF IInv, Content
    <3> QED
      BY <2>1, <3>1, WholeFiles DEF Good, Fits
  <2>4. Fits(backup[helper.req.from].db, helper.req.from) /\ db.state = "whole"
    BY <1>12, <2>1 DEF WriteTransaction, IInv, ProgressInv, Good, Fits
  <2>a. TypeOK'
    BY <1>12, <2>1, <2>2, TypesNow, TypesAfter DEF IInv, WriteTransaction, bounds
  <2>b. HelperInv' /\ LockInv'
    BY <1>12, <2>1, VersionAssumption DEF HelperInv, IInv, LockInv, WriteTransaction, bounds
  <2>c. TurnInv' /\ JournalInv'
    BY <1>12, <2>1, VersionAssumption, BoundsAssumption, RequestsTyped
       DEF IInv, JournalInv, TurnInv, WriteTransaction, Installing, LockInv, Preparing,
       bounds
  <2>d. FileInv' /\ ProgressInv'
    BY <1>12, <2>1, <2>2, <2>3, <2>4 DEF FileInv, IInv, ProgressInv, WriteTransaction,
       Begun, Ends, Good
  <2>e. HistoryInv'
    BY <1>12, <2>1 DEF HistoryInv, IInv, WriteTransaction, HelperInv, Preparing
  <2> QED
    BY <2>a, <2>b, <2>c, <2>d, <2>e DEF IInv
<1> QED
  BY <1>1, <1>2, <1>3, <1>4, <1>5, <1>6, <1>7, <1>8, <1>9, <1>10, <1>11, <1>12

\* The helper changes files and database, and has them tried.
LEMMA ChangeStepInv ==
  ASSUME IInv,
         \/ MoveAway \/ MoveIn \/ StepFails \/ RestoreDatabase \/ RestoreDone
         \/ RestoreFails \/ StartProgram \/ Healthy \/ Undo \/ StopFails
  PROVE  IInv'
<1>1. CASE MoveAway
  <2>1. /\ ThisPart \in Part /\ app \in Files /\ app' = [app EXCEPT ![ThisPart] = 0]
        /\ app' \in Files /\ \A p \in Part : p # ThisPart => app'[p] = app[p]
    BY <1>1, TypesOf, TypesNow, OrdersAreThree, FilesChange DEF MoveAway, IInv, HelperInv,
       ThisPart, Order, Part, Files
  <2>2. /\ helper' \in HelperT /\ helper'.at = "replacing" /\ helper'.n = helper.n
        /\ helper'.req = helper.req /\ helper'.back = helper.back
        /\ helper'.recover = helper.recover
    BY <1>1, TypesNow DEF MoveAway, HelperAt, IInv, HelperT, HelperStage
  <2>3. \A i \in 1..3 : i < helper.n => Order[i] # ThisPart /\ Order[i] \in Part
    BY <1>1, TypesOf, OrdersAreThree DEF MoveAway, IInv, HelperInv, ThisPart, Order, Part
  <2>a. TypeOK'
    BY <1>1, <2>1, <2>2, TypesNow, TypesAfter DEF IInv, MoveAway, bounds
  <2>b. HelperInv' /\ LockInv'
    BY <1>1, <2>2 DEF HelperInv, IInv, LockInv, MoveAway, Changing, Installing, Preparing,
       bounds
  <2>c. TurnInv' /\ JournalInv'
    BY <1>1, <2>2 DEF IInv, JournalInv, MoveAway, TurnInv, Begun, Changing, Installing,
       Preparing, bounds
  <2>d. FileInv' /\ ProgressInv'
    BY <1>1, <2>2, <2>3 DEF FileInv, IInv, MoveAway, ProgressInv, Begun, Changing,
       Completed, Expected, HelperInv, Installing, JournalInv, NoRequest, None, Order,
       Preparing, Recoverable, Serving, TurnInv
  <2>e. HistoryInv'
    BY <1>1, <2>2 DEF HistoryInv, IInv, MoveAway, Asking, Begun, Changing, Completed,
       Preparing, Recoverable, bounds
  <2> QED
    BY <2>a, <2>b, <2>c, <2>d, <2>e DEF IInv
<1>2. CASE MoveIn
  <2>1. /\ helper.n \in 1..3 /\ helper.req \in Request /\ helper \in HelperT
        /\ LastPart <=> helper.n = 3
    BY <1>2, TypesNow, OrdersAreThree DEF MoveIn, IInv, HelperInv, LastPart, Order
  <2>2. /\ helper' \in HelperT /\ helper'.req = helper.req /\ helper'.back = helper.back
        /\ helper'.recover = helper.recover
        /\ helper.n # 3 => helper'.at = "replace" /\ helper'.n = helper.n + 1
        /\ helper.n = 3 => helper'.at = IF helper.back THEN "moveaway" ELSE "start"
    <3>1. CASE helper.n = 3
      <4>1. helper' = [helper EXCEPT !.n = 0,
                                     !.at = IF helper.back THEN "moveaway" ELSE "start"]
        BY <1>2, <2>1, <3>1 DEF MoveIn
      <4>2. 0 \in 0..3 /\ {"moveaway", "start"} \subseteq HelperStage
        BY DEF HelperStage
      <4> QED
        BY <2>1, <3>1, <4>1, <4>2, HelperNext
    <3>2. CASE helper.n # 3
      <4>1. helper' = [helper EXCEPT !.at = "replace", !.n = @ + 1]
        BY <1>2, <2>1, <3>2 DEF MoveIn
      <4>2. helper.n + 1 \in 0..3 /\ "replace" \in HelperStage
        BY <2>1, <3>2 DEF HelperStage
      <4> QED
        BY <2>1, <3>2, <4>1, <4>2, HelperNext
    <3> QED
      BY <3>1, <3>2
  <2>3. /\ app' \in Files /\ Order' = Order /\ Expected' = Expected
        /\ helper.n = 3 => app' = AllOf(Expected)
        /\ \A i \in 1..3 : i <= helper.n => app'[Order[i]] = Expected
        /\ \A p \in Part : app'[p] \in {0, helper.req.from, helper.req.to}
    BY <1>2, <2>1, <2>2, PartReplaced, FilesChange, TypesNow, RequestsTyped
       DEF IInv, Order, Expected
  <2>4. /\ helper.at = "replacing"
        /\ UNCHANGED <<db, backup, journal, lock, result, row, req, prog, pver, truth, bounds>>
    BY <1>2 DEF MoveIn
  <2>5. /\ Recoverable /\ Recoverable' /\ journal.request = helper.req
        /\ helper.back => Expected = helper.req.from
        /\ ~helper.back => Expected = helper.req.to /\ Fits(db, helper.req.to)
        /\ helper.req.to \in Version
    <3>1. Recoverable /\ journal.request = helper.req
      BY <2>1, <2>4, JournalsOf DEF IInv, JournalInv, LockInv, Recoverable, Begun,
         Completed, Changing
    <3>2. \A v \in db.by : v <= helper.req.to
      BY <3>1 DEF IInv, FileInv
    <3>3. ~helper.back => db.state = "whole"
      BY <2>4 DEF IInv, ProgressInv
    <3> QED
      BY <2>1, <2>4, <3>1, <3>2, <3>3, RequestsTyped DEF Expected, Fits, Recoverable, Begun,
         Completed
  <2>a. TypeOK'
    BY <2>2, <2>3, <2>4, TypesNow, TypesAfter, FilesChange, RequestsTyped
       DEF IInv, MoveIn, HelperStage, HelperT, LastPart, Order, Saved, ThisPart, bounds
  <2>b. HelperInv' /\ LockInv'
    BY <2>2, <2>4 DEF HelperInv, IInv, LockInv, Changing, Installing, Preparing, bounds
  <2>c. TurnInv' /\ JournalInv'
    BY <2>2, <2>4 DEF IInv, JournalInv, TurnInv, Begun, Changing, Installing, Preparing,
       bounds
  <2>d. FileInv'
    BY <1>2, <2>1, <2>2, <2>3, <2>4 DEF FileInv, IInv, Begun, Changing, Completed,
       HelperInv, Installing, JournalInv, NoRequest, None, Preparing, Recoverable, Serving,
       TurnInv
  <2>e. ProgressInv'
    BY <2>1, <2>2, <2>3, <2>4, <2>5 DEF IInv, ProgressInv, Decision, Ends, Good
  <2>f. HistoryInv'
    BY <2>2, <2>4, <2>5 DEF HistoryInv, IInv, Changing, HelperInv, bounds
  <2> QED
    BY <2>a, <2>b, <2>c, <2>d, <2>e, <2>f DEF IInv
<1>3. CASE StepFails
  <2>c1. CASE helper.back
    <3>1. /\ helper' = NoHelper /\ helper'.at = "none" /\ lock' = Free
          /\ result' = IF helper.recover THEN result ELSE ResultOf(helper.req.id, "failed")
          /\ result' \in Status \cup {"none"}
      <4>1. GiveUp /\ helper.at \notin {"none", "begin"}
        BY <1>3, <2>c1 DEF StepFails
      <4> QED
        BY <4>1, HelperGivesUp, TypesNow DEF IInv, ResultOf, Status
    <3>2. UNCHANGED <<app, db, backup, journal, row, req, prog, pver, truth, bounds>>
      BY <1>3 DEF StepFails
    <3>a. TypeOK'
      BY <3>1, <3>2, TypesNow, TypesAfter, NothingTyped DEF IInv, bounds
    <3>b. HelperInv' /\ LockInv'
      BY <1>3, <3>1 DEF HelperInv, IInv, LockInv, StepFails, Changing, Free, NoHelper,
         TurnInv
    <3>c. TurnInv' /\ JournalInv'
      BY <3>1, <3>2 DEF IInv, JournalInv, StepFails, TurnInv, Begun, Changing, Installing,
         Preparing, bounds
    <3>d. FileInv' /\ ProgressInv'
      BY <1>3, <3>1 DEF FileInv, IInv, ProgressInv, StepFails, Begun, Changing, Completed,
         Good, Installing, JournalInv, LockInv, Preparing, Recoverable
    <3>e. HistoryInv'
      BY <1>3, <3>1, RequestsTyped DEF HistoryInv, IInv, StepFails, Changing, Free,
         HelperInv, JournalInv, Preparing, Recoverable, TurnInv, bounds
    <3> QED
      BY <3>a, <3>b, <3>c, <3>d, <3>e DEF IInv
  <2>c2. CASE ~helper.back
    <3>1. /\ helper'.at = "replace" /\ helper'.back /\ helper'.n = 1 /\ helper' \in HelperT
          /\ helper'.req = helper.req /\ helper'.recover = helper.recover
          /\ UNCHANGED <<lock, result>>
      <4>1. GoBack /\ UNCHANGED <<lock, result>>
        BY <1>3, <2>c2 DEF StepFails
      <4>2. helper \in HelperT
        BY TypesNow DEF IInv
      <4>3. 1 \in 0..3 /\ "replace" \in HelperStage
        BY DEF HelperStage
      <4>4. helper' = [helper EXCEPT !.at = "replace", !.back = TRUE, !.n = 1]
        BY <4>1 DEF GoBack
      <4> QED
        BY <4>1, <4>2, <4>3, <4>4, HelperBack
    <3>2. UNCHANGED <<app, db, backup, journal, row, req, prog, pver, truth, bounds>>
      BY <1>3 DEF StepFails
    <3>a. TypeOK'
      BY <3>1, <3>2, TypesNow, TypesAfter DEF IInv, bounds
    <3>b. HelperInv' /\ LockInv'
      BY <1>3, <2>c2, <3>1 DEF HelperInv, IInv, LockInv, StepFails, Installing, Preparing,
         bounds
    <3>c. TurnInv' /\ JournalInv'
      BY <1>3, <3>1 DEF IInv, JournalInv, StepFails, TurnInv, Begun, Changing, Completed,
         Installing, Preparing, bounds
    <3>d. FileInv' /\ ProgressInv'
      BY <3>1, <3>2 DEF FileInv, IInv, ProgressInv, StepFails, Begun, Completed, Good,
         Installing, Preparing, Recoverable
    <3>e. HistoryInv'
      BY <1>3, <3>1 DEF HistoryInv, IInv, StepFails, Begun, Completed, Recoverable, bounds
    <3> QED
      BY <3>a, <3>b, <3>c, <3>d, <3>e DEF IInv
  <2> QED
    BY <2>c1, <2>c2, TypesOf DEF IInv
<1>4. CASE RestoreDatabase
  <2>1. db'.by = {} /\ db' \in Content
    BY <1>4, ContentsTyped DEF RestoreDatabase, Missing
  <2>a. TypeOK'
    BY <1>4, <2>1, TypesNow, TypesAfter DEF IInv, RestoreDatabase, HelperAt, HelperStage,
       HelperT, bounds
  <2>b. HelperInv' /\ LockInv'
    BY <1>4 DEF HelperInv, IInv, LockInv, RestoreDatabase, Changing, HelperAt, Installing,
       Preparing, bounds
  <2>c. TurnInv' /\ JournalInv'
    BY <1>4 DEF IInv, JournalInv, RestoreDatabase, TurnInv, Begun, Changing, HelperAt,
       Installing, Preparing, bounds
  <2>d. FileInv' /\ ProgressInv'
    BY <1>4, <2>1 DEF FileInv, IInv, ProgressInv, RestoreDatabase, Begun, Changing,
       Completed, HelperAt, HelperInv, Installing, JournalInv, NoRequest, None, Preparing,
       Recoverable, Serving, TurnInv
  <2>e. HistoryInv'
    BY <1>4 DEF HistoryInv, IInv, RestoreDatabase, Begun, Completed, HelperAt, HelperInv,
       Recoverable, bounds
  <2> QED
    BY <2>a, <2>b, <2>c, <2>d, <2>e DEF IInv
<1>5. CASE RestoreDone
  <2>1. Recoverable /\ journal.request = helper.req /\ helper.req \in Request
    BY <1>5, JournalsOf DEF RestoreDone, IInv, HelperInv, LockInv, JournalInv, Changing,
       Recoverable, Begun, Completed
  <2>2. /\ db' = backup[helper.req.from].db /\ db' \in Content /\ Fits(db', helper.req.from)
        /\ helper.req.from \in Version /\ helper.req.from < helper.req.to
        /\ helper.req.from \in Nat /\ helper.req.to \in Nat
    BY <1>5, <2>1, RequestsTyped, CopiesTyped DEF RestoreDone, Saved, IInv, FileInv,
       JournalInv, Recoverable
  <2>3. \A v \in db'.by : v \in Nat /\ v <= helper.req.to
    BY <2>2, VersionAssumption DEF Fits, Content
  <2>a. TypeOK'
    BY <1>5, <2>2, TypesNow, TypesAfter DEF IInv, RestoreDone, HelperAt, HelperStage,
       HelperT, bounds
  <2>b. HelperInv' /\ LockInv'
    BY <1>5 DEF HelperInv, IInv, LockInv, RestoreDone, Begun, Changing, Completed, Decision,
       Ends, Expected, HelperAt, Installing, Preparing, bounds
  <2>c. TurnInv' /\ JournalInv'
    BY <1>5 DEF IInv, JournalInv, RestoreDone, TurnInv, Begun, Changing, Completed,
       Decision, Ends, Expected, HelperAt, Installing, Preparing, bounds
  <2>d. FileInv' /\ ProgressInv'
    BY <1>5, <2>1, <2>2, <2>3 DEF FileInv, IInv, ProgressInv, RestoreDone, Begun, Changing,
       Ends, Expected, Good, HelperAt, HelperInv, JournalInv, Recoverable, Serving, TurnInv
  <2>e. HistoryInv'
    BY <1>5, <2>1, VersionAssumption, RequestsTyped DEF HistoryInv, IInv, RestoreDone,
       HelperAt, LockInv
  <2> QED
    BY <2>a, <2>b, <2>c, <2>d, <2>e DEF IInv
<1>6. CASE RestoreFails
  <2>a. TypeOK'
    BY <1>6, TypesNow, TypesAfter DEF IInv, RestoreFails, Free, GiveUp, HelperEnds,
       HelperStage, HelperT, LockT, NoHelper, Released, ResultOf, Status, Token, bounds
  <2>b. HelperInv' /\ LockInv'
    BY <1>6 DEF HelperInv, IInv, LockInv, RestoreFails, Changing, Free, GiveUp, HelperEnds,
       NoHelper, Released, TurnInv
  <2>c. TurnInv' /\ JournalInv'
    BY <1>6 DEF IInv, JournalInv, RestoreFails, TurnInv, Begun, Changing, GiveUp,
       HelperEnds, Installing, NoHelper, Preparing, bounds
  <2>d. FileInv' /\ ProgressInv'
    BY <1>6 DEF FileInv, IInv, ProgressInv, RestoreFails, Begun, Changing, Completed,
       GiveUp, Good, HelperEnds, Installing, JournalInv, NoHelper, Preparing, Recoverable,
       Released
  <2>e. HistoryInv'
    BY <1>6, RequestsTyped DEF HistoryInv, IInv, RestoreFails, Changing, Free, GiveUp,
       HelperEnds, HelperInv, JournalInv, NoHelper, Preparing, Recoverable, Released,
       TurnInv, bounds
  <2> QED
    BY <2>a, <2>b, <2>c, <2>d, <2>e DEF IInv
<1>7. CASE StartProgram
  <2>a. TypeOK'
    BY <1>7, TypesNow, TypesAfter, FilesTyped DEF IInv, StartProgram, HelperAt, HelperStage,
       HelperT, ProgStage, bounds, fileVars
  <2>b. HelperInv' /\ LockInv'
    BY <1>7 DEF HelperInv, IInv, LockInv, StartProgram, Asking, Changing, HelperAt,
       Installing, Preparing, bounds, fileVars
  <2>c. TurnInv' /\ JournalInv'
    BY <1>7 DEF IInv, JournalInv, StartProgram, TurnInv, Asking, Begun, Changing, HelperAt,
       Installing, Preparing, Starting, bounds, fileVars
  <2>d. FileInv' /\ ProgressInv'
    BY <1>7 DEF FileInv, IInv, ProgressInv, StartProgram, Begun, Completed, Expected, Good,
       HelperAt, Installing, Preparing, Recoverable, Serving, fileVars
  <2>e. HistoryInv'
    BY <1>7 DEF HistoryInv, IInv, StartProgram, HelperAt, fileVars
  <2> QED
    BY <2>a, <2>b, <2>c, <2>d, <2>e DEF IInv
<1>8. CASE Healthy
  <2>a. TypeOK'
    BY <1>8, TypesNow, TypesAfter DEF Healthy, IInv, HelperAt, HelperStage, HelperT, bounds,
       fileVars
  <2>b. HelperInv' /\ LockInv'
    BY <1>8 DEF Healthy, HelperInv, IInv, LockInv, Changing, Completed, HelperAt,
       Installing, Preparing, bounds, fileVars
  <2>c. TurnInv' /\ JournalInv'
    BY <1>8 DEF Healthy, IInv, JournalInv, TurnInv, Begun, Changing, Decision, HelperAt,
       Installing, Preparing, bounds, fileVars
  <2>d. FileInv' /\ ProgressInv'
    BY <1>8 DEF FileInv, Healthy, IInv, ProgressInv, Begun, Completed, Expected, Good,
       HelperAt, Installing, Preparing, Recoverable, Serving, fileVars
  <2>e. HistoryInv'
    BY <1>8 DEF Healthy, HistoryInv, IInv, HelperAt, fileVars
  <2> QED
    BY <2>a, <2>b, <2>c, <2>d, <2>e DEF IInv
<1>9. CASE Undo
  <2>c1. CASE helper.back
    <3>1. /\ helper' = NoHelper /\ helper'.at = "none" /\ lock' = Free
          /\ result' = IF helper.recover THEN result ELSE ResultOf(helper.req.id, "failed")
          /\ result' \in Status \cup {"none"}
      <4>1. GiveUp /\ helper.at \notin {"none", "begin"}
        BY <1>9, <2>c1 DEF Undo
      <4> QED
        BY <4>1, HelperGivesUp, TypesNow DEF IInv, ResultOf, Status
    <3>4. UNCHANGED <<app, db, backup, journal, row, req, truth, bounds>>
      BY <1>9 DEF Undo
    <3>2. (prog' = prog /\ pver' = pver) \/ (prog' = "down" /\ pver' = 0)
      BY <1>9 DEF Undo, ProgramEnds
    <3>a. TypeOK'
      BY <3>1, <3>4, <3>2, TypesNow, TypesAfter, NothingTyped DEF IInv, ProgStage, bounds
    <3>b. HelperInv' /\ LockInv'
      BY <1>9, <3>1, <3>2 DEF HelperInv, IInv, LockInv, Undo, Asking, Free, NoHelper
    <3>c. TurnInv' /\ JournalInv'
      BY <3>1, <3>4, <3>2 DEF IInv, JournalInv, TurnInv, Undo, Asking, Begun, Changing,
         Installing, Preparing, bounds
    <3>d. FileInv' /\ ProgressInv'
      BY <1>9, <3>1, <3>2 DEF FileInv, IInv, ProgressInv, Undo, Begun, Changing, Completed,
         Good, Installing, JournalInv, LockInv, Preparing, Recoverable, Serving
    <3>e. HistoryInv'
      BY <1>9, <3>1, <3>2, RequestsTyped DEF HistoryInv, IInv, Undo, Asking, Changing, Free,
         HelperInv, JournalInv, Preparing, Recoverable, TurnInv
    <3> QED
      BY <3>a, <3>b, <3>c, <3>d, <3>e DEF IInv
  <2>c2. CASE ~helper.back
    <3>1. /\ helper'.at = "replace" /\ helper'.back /\ helper'.n = 1 /\ helper' \in HelperT
          /\ helper'.req = helper.req /\ helper'.recover = helper.recover
          /\ UNCHANGED <<lock, result>>
      <4>1. GoBack /\ UNCHANGED <<lock, result>>
        BY <1>9, <2>c2 DEF Undo
      <4>2. helper \in HelperT
        BY TypesNow DEF IInv
      <4>3. 1 \in 0..3 /\ "replace" \in HelperStage
        BY DEF HelperStage
      <4>4. helper' = [helper EXCEPT !.at = "replace", !.back = TRUE, !.n = 1]
        BY <4>1 DEF GoBack
      <4> QED
        BY <4>1, <4>2, <4>3, <4>4, HelperBack
    <3>2. prog' = "down" /\ pver' = 0
      BY <1>9, <2>c2 DEF Undo, ProgramEnds
    <3>4. UNCHANGED <<app, db, backup, journal, row, req, truth, bounds>>
      BY <1>9 DEF Undo
    <3>a. TypeOK'
      BY <3>1, <3>2, <3>4, TypesNow, TypesAfter DEF IInv, ProgStage, bounds
    <3>b. HelperInv' /\ LockInv'
      BY <1>9, <2>c2, <3>1, <3>2 DEF HelperInv, IInv, LockInv, Undo, Asking, Installing,
         Preparing, bounds
    <3>c. TurnInv' /\ JournalInv'
      BY <1>9, <2>c2, <3>1, <3>2 DEF IInv, JournalInv, TurnInv, Undo, Asking, Begun,
         Changing, Installing, Preparing, bounds
    <3>d. FileInv' /\ ProgressInv'
      BY <3>1, <3>2, <3>4 DEF FileInv, IInv, ProgressInv, Undo, Begun, Completed, Good,
         Installing, Preparing, Recoverable, Serving
    <3>e. HistoryInv'
      BY <1>9, <2>c2, <3>1 DEF HistoryInv, IInv, Undo
    <3> QED
      BY <3>a, <3>b, <3>c, <3>d, <3>e DEF IInv
  <2> QED
    BY <2>c1, <2>c2, TypesOf DEF IInv
<1>10. CASE StopFails
  <2>a. TypeOK'
    BY <1>10, TypesNow, TypesAfter DEF IInv, StopFails, Free, GiveUp, HelperEnds,
       HelperStage, HelperT, LockT, NoHelper, Released, ResultOf, Status, Token, bounds
  <2>b. HelperInv' /\ LockInv'
    BY <1>10 DEF HelperInv, IInv, LockInv, StopFails, Free, GiveUp, HelperEnds, NoHelper,
       Released, Starting, TurnInv
  <2>c. TurnInv' /\ JournalInv'
    BY <1>10 DEF IInv, JournalInv, StopFails, TurnInv, Begun, Changing, Completed, GiveUp,
       HelperEnds, Installing, NoHelper, Preparing, bounds
  <2>d. FileInv' /\ ProgressInv'
    BY <1>10 DEF FileInv, IInv, ProgressInv, StopFails, Begun, Changing, Completed, GiveUp,
       Good, HelperEnds, Installing, JournalInv, NoHelper, Preparing, Recoverable, Released
  <2>e. HistoryInv'
    BY <1>10, RequestsTyped, OrdersAreThree DEF HistoryInv, IInv, StopFails, Changing, Free,
       GiveUp, HelperEnds, HelperInv, JournalInv, NoHelper, Preparing, Recoverable,
       Released, TurnInv
  <2> QED
    BY <2>a, <2>b, <2>c, <2>d, <2>e DEF IInv
<1> QED
  BY <1>1, <1>2, <1>3, <1>4, <1>5, <1>6, <1>7, <1>8, <1>9, <1>10

\* The helper decides; either process is gone.
LEMMA DecideStepInv ==
  ASSUME IInv,
         \/ Complete \/ WriteResult \/ ClearTransaction \/ Release
         \/ ProgramCrashes \/ HelperCrashes
  PROVE  IInv'
<1>1. CASE Complete
  <2>1. /\ journal \in Transaction /\ journal.request = helper.req /\ journal.done = "none"
        /\ Decision \in Status /\ Decision # "failed" /\ helper.req \in Request
    <3>1. /\ helper.req \in Request /\ journal = [request |-> helper.req, done |-> "none"]
      BY <1>1 DEF Complete, IInv, HelperInv, JournalInv, Changing
    <3>2. Decision \in Status /\ Decision # "failed"
      BY DEF Decision, Status
    <3> QED
      BY <3>1, <3>2, JournalsOf
  <2>2. /\ journal' \in Transaction /\ journal'.request = helper.req /\ journal'.done = Decision
        /\ journal' # None /\ journal' = [request |-> helper.req, done |-> Decision]
        /\ truth' = Decision
    BY <1>1, <2>1, JournalChanges DEF Complete
  <2>a. TypeOK'
    BY <1>1, <2>1, <2>2, TypesNow, TypesAfter DEF Complete, IInv, HelperAt, HelperStage,
       HelperT, bounds
  <2>b. HelperInv' /\ LockInv'
    BY <1>1 DEF Complete, HelperInv, IInv, LockInv, HelperAt, Installing, Preparing, bounds
  <2>c. TurnInv' /\ JournalInv'
    BY <1>1 DEF Complete, IInv, JournalInv, TurnInv, Begun, Changing, Completed, Decision,
       Ends, HelperAt, HelperInv, Installing, NoRequest, None, Preparing, bounds
  <2>d. FileInv' /\ ProgressInv'
    BY <1>1, <2>2 DEF Complete, FileInv, IInv, ProgressInv, Begun, Completed, Decision,
       Ends, Expected, Good, HelperAt, Installing, Preparing, Recoverable
  <2>e. HistoryInv'
    BY <1>1, <2>1, <2>2, RequestsTyped DEF Complete, HistoryInv, IInv, Begun, Decision,
       HelperAt, LockInv, Status, TurnInv, bounds
  <2> QED
    BY <2>a, <2>b, <2>c, <2>d, <2>e DEF IInv
<1>2. CASE WriteResult
  <2>1. journal.done = Decision /\ Decision \in Status /\ helper.req.id = installs
    BY <1>2, TypesOf, RequestsTyped DEF WriteResult, IInv, HelperInv, JournalInv, LockInv,
       Decision, Status
  <2>2. result' = Decision
    BY <1>2, <2>1 DEF WriteResult, ResultOf
  <2>a. TypeOK'
    BY <1>2, <2>1, <2>2, TypesNow, TypesAfter DEF IInv, WriteResult, HelperAt, HelperStage,
       HelperT, bounds
  <2>b. HelperInv' /\ LockInv'
    BY <1>2 DEF HelperInv, IInv, LockInv, WriteResult, HelperAt, Installing, Preparing,
       bounds
  <2>c. TurnInv' /\ JournalInv'
    BY <1>2 DEF IInv, JournalInv, TurnInv, WriteResult, Begun, Changing, Decision, HelperAt,
       Installing, Preparing, bounds
  <2>d. FileInv' /\ ProgressInv'
    BY <1>2 DEF FileInv, IInv, ProgressInv, WriteResult, Begun, Completed, Good, HelperAt,
       Installing, Preparing, Recoverable
  <2>e. HistoryInv'
    BY <1>2, <2>1, <2>2 DEF HistoryInv, IInv, WriteResult, Changing, Completed, Decision,
       HelperAt, JournalInv, Preparing, Recoverable, bounds
  <2> QED
    BY <2>a, <2>b, <2>c, <2>d, <2>e DEF IInv
<1>3. CASE ClearTransaction
  <2>1. Good(app["exe"])
    BY <1>3, WholeFiles DEF ClearTransaction, IInv, JournalInv, FileInv, Completed,
       Decision, Good
  <2>a. TypeOK'
    BY <1>3, TypesNow, TypesAfter DEF ClearTransaction, IInv, HelperAt, HelperStage,
       HelperT, bounds
  <2>b. HelperInv' /\ LockInv'
    BY <1>3 DEF ClearTransaction, HelperInv, IInv, LockInv, HelperAt, Installing, Preparing,
       bounds
  <2>c. TurnInv' /\ JournalInv'
    BY <1>3 DEF ClearTransaction, IInv, JournalInv, TurnInv, Begun, Changing, HelperAt,
       Preparing
  <2>d. FileInv' /\ ProgressInv'
    BY <1>3, <2>1 DEF ClearTransaction, FileInv, IInv, ProgressInv, Begun, Completed, Good,
       HelperAt, Installing, None, Preparing, Recoverable
  <2>e. HistoryInv'
    BY <1>3 DEF ClearTransaction, HistoryInv, IInv, Begun, Changing, HelperAt, Preparing,
       Recoverable, bounds
  <2> QED
    BY <2>a, <2>b, <2>c, <2>d, <2>e DEF IInv
<1>4. CASE Release
  <2>a. TypeOK'
    BY <1>4, TypesNow, TypesAfter DEF IInv, Release, Free, HelperEnds, HelperStage, HelperT,
       LockT, NoHelper, Released, Token, bounds
  <2>b. HelperInv' /\ LockInv'
    BY <1>4 DEF HelperInv, IInv, LockInv, Release, Free, HelperEnds, NoHelper, Released,
       TurnInv
  <2>c. TurnInv' /\ JournalInv'
    BY <1>4 DEF IInv, JournalInv, Release, TurnInv, Begun, Changing, HelperEnds, Installing,
       NoHelper, Preparing, bounds
  <2>d. FileInv' /\ ProgressInv'
    BY <1>4, TypesOf, RequestsTyped DEF FileInv, IInv, ProgressInv, Release, Begun,
       Completed, Free, Good, HelperEnds, Installing, NoHelper, Preparing, Recoverable,
       Released
  <2>e. HistoryInv'
    BY <1>4, TypesOf, RequestsTyped DEF HistoryInv, IInv, Release, Begun, Changing, Free,
       HelperEnds, LockInv, NoHelper, Preparing, Recoverable, Released, bounds
  <2> QED
    BY <2>a, <2>b, <2>c, <2>d, <2>e DEF IInv
<1>5. CASE ProgramCrashes
  <2>a. TypeOK'
    BY <1>5, TypesNow, TypesAfter, BoundsAssumption DEF IInv, ProgramCrashes, Crash, LockT,
       Orphan, ProgStage, ProgramEnds
  <2>b. HelperInv' /\ LockInv'
    BY <1>5 DEF HelperInv, IInv, LockInv, ProgramCrashes, Asking, Installing, Orphan,
       ProgramEnds
  <2>c. TurnInv' /\ JournalInv'
    BY <1>5 DEF IInv, JournalInv, ProgramCrashes, TurnInv, Asking, Begun, Decision,
       Installing, ProgramEnds
  <2>d. FileInv' /\ ProgressInv'
    BY <1>5 DEF FileInv, IInv, ProgramCrashes, ProgressInv, Begun, Completed, Expected,
       Good, Installing, Order, Orphan, ProgramEnds, Recoverable, Serving
  <2>e. HistoryInv'
    BY <1>5 DEF HistoryInv, IInv, ProgramCrashes, Asking, Begun, Completed, Decision,
       Orphan, ProgramEnds, Recoverable
  <2> QED
    BY <2>a, <2>b, <2>c, <2>d, <2>e DEF IInv
<1>6. CASE HelperCrashes
  <2>a. TypeOK'
    BY <1>6, TypesNow, TypesAfter, BoundsAssumption DEF HelperCrashes, IInv, Crash,
       HelperEnds, HelperStage, HelperT, LockT, NoHelper, Orphan
  <2>b. HelperInv' /\ LockInv'
    BY <1>6 DEF HelperCrashes, HelperInv, IInv, LockInv, HelperEnds, NoHelper, Orphan
  <2>c. TurnInv' /\ JournalInv'
    BY <1>6 DEF HelperCrashes, IInv, JournalInv, TurnInv, Begun, Changing, HelperEnds,
       Installing, NoHelper, Preparing
  <2>d. FileInv' /\ ProgressInv'
    BY <1>6 DEF FileInv, HelperCrashes, IInv, ProgressInv, Begun, Completed, Good,
       HelperEnds, Installing, NoHelper, Orphan, Preparing, Recoverable
  <2>e. HistoryInv'
    BY <1>6 DEF HelperCrashes, HistoryInv, IInv, Begun, Changing, Completed, HelperEnds,
       NoHelper, Orphan, Preparing, Recoverable
  <2> QED
    BY <2>a, <2>b, <2>c, <2>d, <2>e DEF IInv
<1> QED
  BY <1>1, <1>2, <1>3, <1>4, <1>5, <1>6

----------------------------------------------------------------------------
(* The invariant                                                            *)

LEMMA InitIInv == Init => IInv
<1> SUFFICES ASSUME Init
             PROVE  IInv
  OBVIOUS
<1>1. PICK u \in Version : app = AllOf(u) /\ db = [state |-> "whole", by |-> {u}]
  BY DEF Init
<1>2. /\ u \in Nat /\ u # 0 /\ app["exe"] = u /\ Fits(db, u) /\ db \in Content
      /\ app \in Files /\ NoFiles \in Files
  BY <1>1, WholeFiles, VersionAssumption DEF Fits, Content, Files, AllOf, NoFiles
<1>3. ~Begun /\ ~Completed /\ helper = NoHelper /\ lock = Free
  BY DEF Init, Begun, Completed, None
<1>4. /\ prog = "down" /\ pver = 0 /\ helper.at = "none" /\ lock.token = 0
      /\ lock.owner = "dead" /\ truth = "none" /\ installs = 0 /\ result = "none"
  BY <1>3, NothingTyped DEF Init, Free
<1>a. TypeOK
  BY <1>1, <1>2, BoundsAssumption, OrdersAreThree, ContentsTyped, NothingTyped
     DEF Init, TypeOK, ProgStage, HelperT, LockT
<1>b. HelperInv /\ LockInv /\ TurnInv /\ ProgressInv
  BY <1>4 DEF HelperInv, LockInv, TurnInv, ProgressInv, Installing, Preparing, Changing,
     Asking, Serving, Starting
<1>c. JournalInv /\ FileInv
  BY <1>1, <1>2, <1>3, <1>4 DEF JournalInv, FileInv, Good, Installing, Preparing, Changing,
     Recoverable, Serving, Asking
<1>d. HistoryInv
  BY <1>3, <1>4 DEF HistoryInv, Recoverable, Preparing, Changing, Asking
<1> QED
  BY <1>a, <1>b, <1>c, <1>d DEF IInv

LEMMA StepIInv == IInv /\ [Next]_vars => IInv'
<1> SUFFICES ASSUME IInv, [Next]_vars
             PROVE  IInv'
  OBVIOUS
<1>1. CASE UNCHANGED vars
  BY <1>1 DEF vars, fileVars, IInv, TypeOK, HelperInv, LockInv, TurnInv, JournalInv,
     FileInv, ProgressInv, HistoryInv, Installing, Recoverable, Begun, Completed, Good,
     Ends, Order, Expected, Decision
<1>2. CASE ProgramStep
  BY <1>2, StartStepInv, AskStepInv DEF ProgramStep
<1>3. CASE HelperStep
  BY <1>3, PrepareStepInv, ChangeStepInv, DecideStepInv DEF HelperStep
<1>4. CASE ProgramCrashes \/ HelperCrashes
  BY <1>4, DecideStepInv
<1> QED
  BY <1>1, <1>2, <1>3, <1>4 DEF Next

LEMMA Invariance == Spec => []IInv
BY InitIInv, StepIInv, PTL DEF Spec

\* Every reachable state has the types that TypeOK gives it, of any number of
\* installations and crashes.
THEOREM TypeCorrect == Spec => []TypeOK
<1>1. IInv => TypeOK
  BY DEF IInv
<1> QED
  BY <1>1, Invariance, PTL

\* Wherever replacement or restore was cut off (replace and restore of the
\* helper's main.go), no program works with parts of another version, or on a
\* database that a newer one has opened.
THEOREM ServesWholeFiles == Spec => []ServesWhole
<1>1. IInv => ServesWhole
  BY DEF IInv, FileInv, ServesWhole, Good, Fits
<1> QED
  BY <1>1, Invariance, PTL

\* The row of the history never contradicts the helper's decision, though it is
\* restored with the database (restore), delivered from a file (consumeUpdateResults) and
\* marked as interrupted by other starts (InterruptUnfinishedUpdates).
THEOREM HistoryHolds == Spec => []HistoryIsTrue
<1>1. IInv => HistoryIsTrue
  BY DEF IInv, HistoryInv, HistoryIsTrue
<1> QED
  BY <1>1, Invariance, PTL

----------------------------------------------------------------------------
(* Program and helper implement UpdateTransaction                           *)

\* The version that UpdateTransaction sees.
Current == IF Whole THEN app["exe"] ELSE 0

LEMMA CurrentIsWhole ==
  ASSUME NEW v \in Version, app = AllOf(v)
  PROVE  Current = v /\ Current # 0
BY WholeFiles, VersionAssumption DEF Current, Whole

\* Parts of two versions are one of them, or no version.
LEMMA MixedIsNone ==
  ASSUME NEW r \in Request, \A p \in Part : app'[p] \in {0, r.from, r.to}
  PROVE  Current' \in {0, r.from, r.to}
BY DEF Current, Part

LEMMA OpenTransactions ==
  ASSUME NEW r \in Request, NEW d \in Status \cup {"none"}
  PROVE  /\ TransactionOf([request |-> r, done |-> d]) =
               [from |-> r.from, to |-> r.to, fate |-> IF d = "none" THEN "open" ELSE d]
         /\ TransactionOf([request |-> r, done |-> d]) # Transacted!NoTxn
<1>1. [request |-> r, done |-> d] # None
  BY JournalsOf
<1>2. TransactionOf([request |-> r, done |-> d]) =
        [from |-> r.from, to |-> r.to, fate |-> IF d = "none" THEN "open" ELSE d]
  BY <1>1 DEF TransactionOf
<1>3. \A x, y, z : [from |-> x, to |-> y, fate |-> z] # [fate |-> "none"]
  <2>1. \A x, y, z : "from" \in DOMAIN [from |-> x, to |-> y, fate |-> z]
    OBVIOUS
  <2>2. "from" \notin DOMAIN [fate |-> "none"]
    OBVIOUS
  <2> QED
    BY <2>1, <2>2
<1> QED
  BY <1>2, <1>3 DEF Transacted!NoTxn

\* A step that changes neither files nor journal, and starts no service.
LEMMA ProgramOnly ==
  ASSUME UNCHANGED <<app, db, journal>>, prog' \in Serving => prog \in Serving
  PROVE  Transacted!Next \/ UNCHANGED Transacted!absVars
<1>1. CASE prog \in Serving /\ prog' \notin Serving
  <2>1. Transacted!Stop
    BY <1>1 DEF Transacted!Stop, Whole
  <2> QED
    BY <2>1 DEF Transacted!Next
<1>2. CASE prog' \in Serving <=> prog \in Serving
  BY <1>2 DEF Transacted!absVars, Whole
<1> QED
  BY <1>1, <1>2

\* The journal of a decided transaction is removed.
LEMMA JournalCloses ==
  ASSUME IInv, Completed, journal' = None, UNCHANGED <<app, db>>,
         prog' \in Serving <=> prog \in Serving
  PROVE  Transacted!Next
<1>1. /\ journal \in Transaction /\ journal.request \in Request /\ journal.done \in Status
      /\ journal = [request |-> journal.request, done |-> journal.done]
  BY TypesOf DEF IInv, Completed, Transaction
<1>2. /\ TransactionOf(journal).from = journal.request.from
      /\ TransactionOf(journal).to = journal.request.to
      /\ TransactionOf(journal).fate = journal.done
      /\ TransactionOf(journal) # Transacted!NoTxn
      /\ journal.done \notin {"none", "open"}
  <2>1. TransactionOf(journal) =
          [from |-> journal.request.from, to |-> journal.request.to,
           fate |-> IF journal.done = "none" THEN "open" ELSE journal.done]
    BY <1>1, OpenTransactions
  <2>2. TransactionOf(journal) # Transacted!NoTxn
    BY <1>1, OpenTransactions
  <2>3. journal.done \notin {"none", "open"}
    BY <1>1 DEF Status
  <2> QED
    BY <2>1, <2>2, <2>3
<1>3. Current = Ends(journal) /\ Good(Ends(journal))
  BY CurrentIsWhole DEF IInv, FileInv, Good
<1>4. Current = Transacted!Outcome(TransactionOf(journal), TransactionOf(journal).fate)
  BY <1>2, <1>3 DEF Transacted!Outcome, Ends
<1>5. TransactionOf(journal') = Transacted!NoTxn
  BY DEF TransactionOf, Transacted!NoTxn
<1>6. Transacted!Close
  BY <1>2, <1>4, <1>5 DEF Transacted!Close, Transacted!Open, Current, Whole
<1> QED
  BY <1>6 DEF Transacted!Next

\* A helper that changes files has an open transaction in hand.
LEMMA JournalInHand ==
  ASSUME IInv, helper.at \in Changing \ {"health", "commit"}
  PROVE  /\ Transacted!InHand /\ prog = "down" /\ helper.req \in Request
         /\ Recoverable /\ journal.request = helper.req
         /\ TransactionOf(journal) =
               [from |-> helper.req.from, to |-> helper.req.to, fate |-> "open"]
<1>1. /\ helper.req \in Request /\ journal = [request |-> helper.req, done |-> "none"]
      /\ prog = "down" /\ lock.token = helper.req.id
  BY TypesOf DEF IInv, HelperInv, JournalInv, TurnInv, LockInv, Changing
<1>2. journal # None /\ journal.request = helper.req /\ journal.done = "none"
  BY <1>1, JournalsOf
<1>3. /\ TransactionOf(journal) =
           [from |-> helper.req.from, to |-> helper.req.to, fate |-> "open"]
      /\ TransactionOf(journal) # Transacted!NoTxn
  BY <1>1, OpenTransactions
<1> QED
  BY <1>1, <1>2, <1>3 DEF Transacted!InHand, Transacted!Open, Recoverable, Begun, Completed,
     Serving

LEMMA InitRefines == Init => Transacted!Init
<1> SUFFICES ASSUME Init
             PROVE  Transacted!Init
  OBVIOUS
<1>1. PICK u \in Version : app = AllOf(u) /\ db = [state |-> "whole", by |-> {u}]
  BY DEF Init
<1>2. Current = u
  BY <1>1, CurrentIsWhole
<1> QED
  BY <1>1, <1>2 DEF Init, Transacted!Init, Transacted!NoTxn, Current, TransactionOf, Serving

LEMMA ProgramRefines ==
  ASSUME IInv, ProgramStep
  PROVE  Transacted!Next \/ UNCHANGED Transacted!absVars
<1>1. CASE \/ ProgramStarts \/ StartRecovery \/ Interrupt \/ ProgramStops \/ InstallFails
           \/ BackupDatabase \/ WriteUpdateRequest \/ HandOff \/ LaunchUpdater \/ Shutdown
  BY <1>1, ProgramOnly DEF ProgramStarts, StartRecovery, Interrupt, ProgramStops,
     InstallFails, BackupDatabase, WriteUpdateRequest, HandOff, LaunchUpdater, Shutdown,
     ProgramAt, ProgramEnds, fileVars, Serving
<1>2. CASE \E v \in Version : InstallBegins(v)
  BY <1>2, ProgramOnly DEF InstallBegins, ProgramAt, Serving
<1>3. CASE BootContinues \/ DeliverAtStart \/ Tick
  <2>1. /\ UNCHANGED <<app, db>>
        /\ prog' \in Serving <=> prog \in Serving
        /\ journal' = journal \/ (journal' = None /\ Completed)
    BY <1>3 DEF BootContinues, DeliverAtStart, Tick, FinalizeCompleted, Deliver, ProgramAt,
       Serving
  <2>2. CASE journal' = journal
    BY <2>1, <2>2, ProgramOnly
  <2>3. CASE journal' = None /\ Completed
    BY <2>1, <2>3, JournalCloses
  <2> QED
    BY <2>1, <2>2, <2>3
<1>4. CASE OpenDatabase
  <2>1. prog = "open" /\ Good(pver) /\ db.state = "whole" /\ \A v \in db.by : v <= pver
    BY <1>4 DEF OpenDatabase, IInv, FileInv, Good, Fits
  <2>2. /\ prog' = "opened" /\ db'.by = db.by \cup {pver} /\ UNCHANGED <<app, journal>>
    BY <1>4, <2>1 DEF OpenDatabase, ProgramAt
  <2>3. Current = pver /\ Current # 0
    BY <2>1, CurrentIsWhole DEF Good
  <2>4. Transacted!Serve
    BY <2>1, <2>2, <2>3 DEF Transacted!Serve, Current, Whole, Serving
  <2> QED
    BY <2>4 DEF Transacted!Next
<1> QED
  BY <1>1, <1>2, <1>3, <1>4 DEF ProgramStep

LEMMA HelperRefines ==
  ASSUME IInv, HelperStep
  PROVE  Transacted!Next \/ UNCHANGED Transacted!absVars
<1>1. CASE \/ RefuseRequest \/ TakeOver \/ StopService \/ Waited \/ WaitFails
           \/ FinalizeBackup \/ FinalizeDone \/ BackupFiles \/ BackupFilesDone
           \/ StartUnchanged \/ TellUnchanged
  BY <1>1, ProgramOnly DEF RefuseRequest, TakeOver, StopService, Waited, WaitFails,
     FinalizeBackup, FinalizeDone, BackupFiles, BackupFilesDone, StartUnchanged,
     TellUnchanged, ProgramEnds, fileVars, Serving
<1>2. CASE \/ StepFails \/ RestoreFails \/ StartProgram \/ Healthy \/ Undo \/ StopFails
           \/ WriteResult \/ Release
  BY <1>2, ProgramOnly DEF StepFails, RestoreFails, StartProgram, Healthy, Undo, StopFails,
     WriteResult, Release, ProgramEnds, fileVars, Serving
<1>3. CASE WriteTransaction
  <2>1. /\ helper.req \in Request /\ Good(helper.req.from) /\ prog = "down"
    BY <1>3 DEF WriteTransaction, IInv, HelperInv, FileInv, TurnInv, Installing, Preparing,
       Changing
  <2>2. /\ journal' = [request |-> helper.req, done |-> "none"] /\ UNCHANGED <<app, db, prog>>
    BY <1>3 DEF WriteTransaction
  <2>3. TransactionOf(journal') =
          [from |-> helper.req.from, to |-> helper.req.to, fate |-> "open"]
    BY <2>1, <2>2, OpenTransactions
  <2>4. Current = helper.req.from /\ Current # 0 /\ helper.req.to \in Version
    BY <2>1, CurrentIsWhole, RequestsTyped DEF Good
  <2>5. Transacted!Begin
    BY <2>1, <2>2, <2>3, <2>4 DEF Transacted!Begin, Current, Whole, Good, Fits, Serving
  <2> QED
    BY <2>5 DEF Transacted!Next
<1>4. CASE MoveAway \/ MoveIn
  <2>1. /\ helper.at \in {"replace", "replacing"} /\ UNCHANGED <<db, journal, prog>>
    BY <1>4 DEF MoveAway, MoveIn
  <2>2. /\ Transacted!InHand /\ prog = "down" /\ helper.req \in Request
        /\ TransactionOf(journal) =
             [from |-> helper.req.from, to |-> helper.req.to, fate |-> "open"]
        /\ \A p \in Part : app[p] \in {0, helper.req.from, helper.req.to}
    BY <2>1, JournalInHand DEF Changing, IInv, FileInv
  <2>3. \A p \in Part : app'[p] \in {0, helper.req.from, helper.req.to}
    <3>1. CASE MoveAway
      BY <2>2, <3>1, TypesNow DEF MoveAway, IInv, Files
    <3>2. CASE MoveIn
      BY <3>2, PartReplaced
    <3> QED
      BY <1>4, <3>1, <3>2
  <2>4. Current' \in {0, helper.req.from, helper.req.to}
    BY <2>2, <2>3, MixedIsNone
  <2>5. Transacted!Switch
    BY <2>1, <2>2, <2>4 DEF Transacted!Switch, Current
  <2> QED
    BY <2>5 DEF Transacted!Next
<1>5. CASE RestoreDatabase \/ RestoreDone
  <2>1. /\ helper.at \in {"moveaway", "movein"} /\ UNCHANGED <<app, journal, prog>>
        /\ db' = Missing \/ db' = backup[helper.req.from].db
    BY <1>5 DEF RestoreDatabase, RestoreDone, Saved
  <2>2. /\ Transacted!InHand /\ prog = "down" /\ helper.req \in Request
        /\ TransactionOf(journal) =
             [from |-> helper.req.from, to |-> helper.req.to, fate |-> "open"]
        /\ Fits(backup[helper.req.from].db, helper.req.from)
    BY <2>1, JournalInHand DEF Changing, IInv, FileInv
  <2>3. \A v \in db'.by : v <= helper.req.from
    BY <2>1, <2>2 DEF Fits, Missing
  <2>4. Transacted!Restore
    BY <2>1, <2>2, <2>3 DEF Transacted!Restore, Whole
  <2> QED
    BY <2>4 DEF Transacted!Next
<1>6. CASE Complete
  <2>1. /\ helper.req \in Request /\ journal = [request |-> helper.req, done |-> "none"]
        /\ Good(Expected) /\ Expected \in db.by
    BY <1>6 DEF Complete, IInv, HelperInv, JournalInv, ProgressInv, Changing
  <2>2. /\ journal' = [request |-> helper.req, done |-> Decision] /\ UNCHANGED <<app, db, prog>>
        /\ Decision \in {"success", "rolled_back"} /\ Decision \in Status
    BY <1>6, <2>1 DEF Complete, Decision, Status
  <2>3. /\ TransactionOf(journal) =
             [from |-> helper.req.from, to |-> helper.req.to, fate |-> "open"]
        /\ TransactionOf(journal) # Transacted!NoTxn
        /\ TransactionOf(journal') =
             [from |-> helper.req.from, to |-> helper.req.to, fate |-> Decision]
    BY <2>1, <2>2, OpenTransactions DEF Status
  <2>4. TransactionOf(journal') = [TransactionOf(journal) EXCEPT !.fate = Decision]
    BY <2>3
  <2>5. Current = Expected
    BY <2>1, CurrentIsWhole DEF Good
  <2>6. Current = Transacted!Outcome(TransactionOf(journal), Decision)
    BY <2>3, <2>5 DEF Transacted!Outcome, Expected, Decision
  <2>7. Transacted!Decide
    BY <2>1, <2>2, <2>3, <2>4, <2>5, <2>6 DEF Transacted!Decide, Transacted!Open,
       Transacted!Fate, Current, Whole
  <2> QED
    BY <2>7 DEF Transacted!Next
<1>7. CASE ClearTransaction
  <2>1. Completed /\ journal' = None /\ UNCHANGED <<app, db, prog>>
    BY <1>7 DEF ClearTransaction, IInv, JournalInv, Completed, Decision
  <2> QED
    BY <2>1, JournalCloses
<1> QED
  BY <1>1, <1>2, <1>3, <1>4, <1>5, <1>6, <1>7 DEF HelperStep

LEMMA CrashRefines ==
  ASSUME ProgramCrashes \/ HelperCrashes \/ UNCHANGED vars
  PROVE  Transacted!Next \/ UNCHANGED Transacted!absVars
BY ProgramOnly DEF ProgramCrashes, HelperCrashes, ProgramEnds, vars, fileVars, Serving

\* Program and helper implement UpdateTransaction with a final decision: files and
\* database change only under windows-transaction.json, the decision is taken when
\* the program of that version has opened the database and proved healthy, and
\* nothing of it is taken up again once CompleteWindowsTransaction has written it.
THEOREM Implements == Spec => ImplementsTransaction
<1>1. IInv /\ [Next]_vars => [Transacted!Next]_Transacted!absVars
  BY ProgramRefines, HelperRefines, CrashRefines DEF Next
<1> QED
  BY <1>1, InitRefines, Invariance, PTL DEF Spec, ImplementsTransaction, Transacted!Spec
=============================================================================
