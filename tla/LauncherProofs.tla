---------------------------- MODULE LauncherProofs ----------------------------
(***************************************************************************)
(* Theorems about Launcher for every set of versions and images, whatever  *)
(* launcher a version needs: type correctness, truth of the results, no    *)
(* installation on top of a journal, and that the launcher implements      *)
(* UpdateTransaction.                                                      *)
(***************************************************************************)
EXTENDS Launcher, TLAPS

\* The databases of versions up to v; a torn one belongs to nobody.
UpTo(c, v) == /\ \A w \in c.by : w <= v
              /\ c.state # "whole" => c.by = {}

\* The version that a transaction runs next.
Goal(t) == IF t.recovery THEN t.from ELSE t.to

\* What the launcher knows of the transaction in hand is what its journal says.
HandInv ==
    /\ stage = "down" => tx = None
    /\ stage \in {"select", "copying", "installing", "backup", "requested", "handedoff",
                  "exited", "rejected"} => tx = None /\ journal = None
    /\ stage \in {"journal", "taken", "final", "apply", "unapplied", "removed"} =>
          tx # None /\ journal = None
    /\ stage \in {"begun", "handoff", "prepare", "preparing", "link", "journaled", "marking",
                  "marked", "told", "unhealthy", "restore", "restoring", "recover"} =>
          tx # None /\ journal = tx
    /\ stage \in {"run", "starting", "serving"} => journal = tx

\* The lock is taken before a journal is written, and kept as long as it is.
LockInv ==
    /\ stage # "down" /\ Open(journal) => lock # "none"
    /\ stage \in {"select", "copying", "journal", "installing", "backup", "requested",
                  "handedoff", "exited", "taken", "final", "apply", "unapplied", "rejected",
                  "removed"} => lock # "none"

\* A transaction names two versions, keeps a database that the first can read,
\* and brings one that the second can read when that is the older one.
Sound(t) ==
    /\ t.previous = t.from /\ t.from # t.to
    /\ t.target = IF ~t.recovery /\ t.image THEN BuiltinDir ELSE Goal(t)
    /\ ~t.noFallback => t.from < t.to
    /\ UpTo(t.saved, t.from) /\ UpTo(t.restore, t.to)
    /\ t.restore # Missing <=> t.noFallback /\ ~t.recovery

TransactionInv ==
    /\ Open(journal) => Sound(journal) /\ journal.saved # Missing
    /\ Open(journal) /\ stage # "down" => VersionAt(journal.target) = Goal(journal)
    /\ Open(tx) => Sound(tx)
    /\ stage \in {"journal", "taken", "final", "apply"} =>
          /\ ~tx.recovery /\ ~tx.completed /\ tx.from = Current
          /\ VersionAt(tx.target) = tx.to
          /\ stage \in {"journal", "apply"} => tx.saved # Missing
    /\ stage \in {"taken", "final", "apply", "journaled"} =>
          ~tx.recovery /\ ~tx.noFallback /\ ~tx.completed
    /\ stage \in {"requested", "handedoff", "exited"} => request \in Version /\ request > Current
    /\ stage = "copying" => ~Compatible(Current) \/ Current < image.builtin

LinkInv ==
    /\ stage \in {"run", "starting", "marking", "marked", "told", "serving"} /\ Open(tx) =>
          link = tx.target
    /\ stage \in {"restore", "restoring", "recover"} => link = tx.from
    /\ stage = "journaled" => Current = tx.from

\* The database can be read by the version that is run on it next.
DataInv ==
    /\ db.state # "whole" => db.by = {}
    /\ \A v \in Version : UpTo(backup[v], v)
    /\ journal = None => Stored /\ UpTo(db, Current)
    /\ Open(journal) =>
          /\ \A v \in db.by : v <= journal.from \/ v <= journal.to
          /\ journal.recovery \/ stage \in {"recover", "journaled"} => UpTo(db, journal.from)
          /\ stage \in {"link", "run", "starting", "marking", "marked", "told", "serving"} =>
                UpTo(db, Goal(journal))
          /\ stage \in {"journaled", "marking", "marked", "told"} => Stored
    /\ stage = "starting" /\ db.state = "whole" => Current \in db.by
    /\ stage \in {"marking", "marked", "told"} => Current \in db.by

\* The history follows the journal, and the result what was completed.
ResultInv ==
    /\ Open(journal) =>
          /\ Open(last) /\ last.previous = journal.from /\ last.to = journal.to
          /\ ~journal.recovery => last.target = journal.target
    /\ stage = "journaled" => told = "none"
    /\ stage = "marked" => tx.completed
    /\ stage = "told" => tx.completed /\ told = StatusOf(tx)
    /\ Open(last) /\ journal = None =>
          /\ told = "success" => link = last.target
          /\ told = "rolled_back" => link = last.previous /\ link \in Version /\ link < last.to

IInv == TypeOK /\ HandInv /\ LockInv /\ TransactionInv /\ LinkInv /\ DataInv /\ ResultInv

\* A transaction is open.
LEMMA TransactionsAreOpen == \A t \in Transaction : Open(t)
BY VersionAssumption DEF Transaction, Open, None, Dir, BuiltinDir

LEMMA FieldsTyped ==
  ASSUME NEW t \in Transaction
  PROVE  /\ t.previous \in Dir /\ t.target \in Dir /\ t.from \in Version /\ t.to \in Version
         /\ t.saved \in Content /\ t.restore \in Content
BY DEF Transaction

\* Every directory holds a version.
LEMMA VersionsTyped ==
  ASSUME TypeOK
  PROVE  /\ image.builtin \in Version /\ Current \in Version
         /\ \A d \in Dir : VersionAt(d) \in Version
         /\ \A v \in Version : VersionAt(v) = v /\ v # BuiltinDir
BY VersionAssumption, ImageAssumption DEF TypeOK, Current, VersionAt, Dir, BuiltinDir

\* The program of the image can be run; one that it replaces is another one.
LEMMA ReplacedByImage ==
  ASSUME TypeOK, ~Compatible(Current) \/ Current < image.builtin
  PROVE  link = Current /\ link # BuiltinDir /\ Current # image.builtin
<1>1. Compatible(image.builtin)
  BY ImageAssumption DEF TypeOK, Compatible
<1>2. image.builtin \in Nat
  BY VersionAssumption, VersionsTyped
<1>3. Current # image.builtin
  <2>1. ASSUME Current = image.builtin PROVE FALSE
    <3>1. Compatible(Current)
      BY <1>1, <2>1
    <3> QED
      BY <1>2, <2>1, <3>1
  <2> QED
    BY <2>1
<1> QED
  BY <1>3 DEF Current, VersionAt

\* The contents that are written as such.
LEMMA ContentsTyped ==
    /\ Missing \in Content /\ Torn \in Content /\ Missing # Torn
    /\ Missing.state = "missing" /\ Missing.by = {} /\ Torn.state = "torn" /\ Torn.by = {}
BY DEF Content, Missing, Torn

\* What the completion, the final backup and a recovery make of a transaction.
LEMMA CompletedTyped ==
  ASSUME NEW t \in Transaction
  PROVE  LET r == [t EXCEPT !.completed = TRUE]
         IN  /\ r \in Transaction /\ r.completed /\ r.recovery = t.recovery
             /\ r.image = t.image /\ r.noFallback = t.noFallback
             /\ r.previous = t.previous /\ r.target = t.target /\ r.from = t.from
             /\ r.to = t.to /\ r.saved = t.saved /\ r.restore = t.restore
BY DEF Transaction

LEMMA SavedTyped ==
  ASSUME NEW t \in Transaction, NEW c \in Content
  PROVE  LET r == [t EXCEPT !.saved = c]
         IN  /\ r \in Transaction /\ r.completed = t.completed /\ r.recovery = t.recovery
             /\ r.image = t.image /\ r.noFallback = t.noFallback
             /\ r.previous = t.previous /\ r.target = t.target /\ r.from = t.from
             /\ r.to = t.to /\ r.saved = c /\ r.restore = t.restore
BY DEF Transaction

RecoveryOf(t) == [t EXCEPT !.recovery = TRUE, !.target = t.previous,
                           !.restore = Missing, !.completed = FALSE]

LEMMA RecoveryTyped ==
  ASSUME NEW t \in Transaction
  PROVE  LET r == RecoveryOf(t)
         IN  /\ r \in Transaction /\ ~r.completed /\ r.recovery
             /\ r.image = t.image /\ r.noFallback = t.noFallback
             /\ r.previous = t.previous /\ r.target = t.previous /\ r.from = t.from
             /\ r.to = t.to /\ r.saved = t.saved /\ r.restore = Missing
<1> DEFINE r == RecoveryOf(t)
           q == [t EXCEPT !.recovery = TRUE, !.target = t.previous]
<1>1. /\ q \in Transaction /\ q.recovery /\ q.previous = t.previous /\ q.target = t.previous
      /\ q.image = t.image /\ q.noFallback = t.noFallback /\ q.from = t.from
      /\ q.to = t.to /\ q.saved = t.saved
  BY DEF Transaction
<1>2. r = [q EXCEPT !.restore = Missing, !.completed = FALSE]
  BY DEF RecoveryOf
<1> HIDE DEF q
<1>3. /\ r \in Transaction /\ ~r.completed /\ r.recovery = q.recovery
      /\ r.image = q.image /\ r.noFallback = q.noFallback
      /\ r.previous = q.previous /\ r.target = q.target /\ r.from = q.from
      /\ r.to = q.to /\ r.saved = q.saved /\ r.restore = Missing
  BY <1>1, <1>2, ContentsTyped DEF Transaction
<1> QED
  BY <1>1, <1>3

LEMMA StartIInv == IInv /\ StartStep => IInv'
<1> SUFFICES ASSUME IInv, StartStep
             PROVE  IInv'
  OBVIOUS
<1> USE VersionAssumption, TransactionsAreOpen, VersionsTyped, ContentsTyped
      DEF IInv, Open, VersionAt, Current, BuiltinDir, Stored, fileVars
<1>1. CASE StartClean
  <2>1. TypeOK' /\ HandInv' /\ LockInv' /\ TransactionInv' /\ LinkInv' /\ DataInv' /\ ResultInv'
    BY <1>1 DEF StartClean, Goto, TypeOK, Stage, UpStage, HandInv, LockInv, TransactionInv, LinkInv,
            DataInv, ResultInv
  <2> QED
    BY <2>1
<1>2. CASE StartPending
  <2>1. TypeOK' /\ HandInv' /\ LockInv' /\ LinkInv' /\ DataInv' /\ ResultInv'
    BY <1>2 DEF StartPending, Valid, Goal, TypeOK, Stage, UpStage, HandInv, LockInv, TransactionInv,
            LinkInv, DataInv, ResultInv
  <2>2. TransactionInv'
    BY <1>2 DEF StartPending, Valid, Goal, HandInv, TransactionInv
  <2> QED
    BY <2>1, <2>2
<1>3. CASE HandOffBegun
  <2>1. TypeOK' /\ HandInv' /\ LockInv' /\ TransactionInv' /\ LinkInv' /\ DataInv' /\ ResultInv'
    BY <1>3 DEF HandOffBegun, Goto, TypeOK, Stage, UpStage, HandInv, LockInv, TransactionInv,
            LinkInv, DataInv, ResultInv
  <2> QED
    BY <2>1
<1>4. CASE KeepCurrent
  <2>1. TypeOK' /\ HandInv' /\ LockInv' /\ TransactionInv' /\ LinkInv' /\ DataInv' /\ ResultInv'
    BY <1>4 DEF KeepCurrent, Goto, TypeOK, Stage, UpStage, HandInv, LockInv, TransactionInv,
            LinkInv, DataInv, ResultInv
  <2> QED
    BY <2>1
<1>5. CASE SelectImage
  <2>1. db \in Content /\ backup' \in [Version -> Content]
        /\ \A v \in Version : UpTo(backup'[v], v)
    BY <1>5 DEF SelectImage, TypeOK, DataInv, UpTo
  <2>2. HandInv' /\ LockInv' /\ LinkInv' /\ ResultInv'
    BY <1>5, <2>1 DEF SelectImage, Goto, Compatible, HandInv, LockInv, TransactionInv, LinkInv, ResultInv
  <2>3. TypeOK'
    BY <1>5, <2>1 DEF SelectImage, Goto, Compatible, TypeOK, Stage, UpStage
  <2>4. TransactionInv'
    BY <1>5, <2>1 DEF SelectImage, Goto, Compatible, HandInv, TransactionInv
  <2>5. DataInv'
    BY <1>5, <2>1 DEF SelectImage, Goto, Compatible, HandInv, TransactionInv, LinkInv, DataInv
  <2> QED
    BY <2>2, <2>3, <2>4, <2>5
<1>6. CASE CopyDone
  <2>1. /\ ImageTransaction \in Transaction /\ ~ImageTransaction.recovery
        /\ ~ImageTransaction.completed /\ ImageTransaction.image
        /\ ImageTransaction.noFallback = ~Compatible(Current)
        /\ ImageTransaction.previous = link /\ ImageTransaction.target = BuiltinDir
        /\ ImageTransaction.from = Current /\ ImageTransaction.to = image.builtin
        /\ ImageTransaction.saved = db
        /\ ImageTransaction.restore = IF ~Compatible(Current) /\ Stored
                                       THEN backup[image.builtin] ELSE Missing
    <3>1. backup[image.builtin] \in Content /\ db \in Content /\ link \in Dir
      BY DEF TypeOK
    <3> QED
      BY <3>1 DEF ImageTransaction, Transaction, Dir
  <2>2. link = Current /\ Current # image.builtin
    <3>1. ~Compatible(Current) \/ Current < image.builtin
      BY <1>6 DEF CopyDone, TransactionInv
    <3> QED
      BY <3>1, ReplacedByImage
  <2>3. db \in Content /\ backup' \in [Version -> Content]
        /\ \A v \in Version : UpTo(backup'[v], v)
    BY <1>6, <2>1, <2>2 DEF CopyDone, TypeOK, DataInv, UpTo, HandInv
  <2>4. LockInv' /\ LinkInv' /\ ResultInv'
    BY <1>6, <2>1, <2>2, <2>3 DEF CopyDone, Down, Compatible, Sound, Goal, HandInv, LockInv, TransactionInv, LinkInv,
            ResultInv
  <2>5. TypeOK'
    BY <1>6, <2>1, <2>2, <2>3 DEF CopyDone, Down, Compatible, Sound, Goal, TypeOK, Stage, UpStage
  <2>6. HandInv'
    BY <1>6, <2>1, <2>2, <2>3 DEF CopyDone, HandInv, Down
  <2>7. TransactionInv'
    <3>1. CASE tx' = None
      BY <1>6, <2>1, <2>2, <2>3, <3>1 DEF CopyDone, Down, TransactionInv, HandInv
    <3>2. CASE tx' = ImageTransaction /\ stage' = "journal"
      <4>1. journal = None /\ Stored /\ UpTo(db, Current) /\ db # Missing
        BY <1>6 DEF CopyDone, HandInv, DataInv
      <4>2. UpTo(ImageTransaction.restore, image.builtin)
        BY <2>1 DEF DataInv, UpTo
      <4>3. ~Compatible(Current) => backup[image.builtin] # Missing
        BY <1>6, <3>2, <4>1, <2>1 DEF CopyDone, Down
      <4>4. Compatible(Current) => Current < image.builtin
        BY <1>6 DEF CopyDone, HandInv, TransactionInv
      <4>5. Sound(tx')
        BY <1>6, <2>1, <2>2, <2>3, <3>2, <4>1, <4>2, <4>3, <4>4 DEF Sound, Goal
      <4> QED
        BY <1>6, <2>1, <2>2, <2>3, <3>2, <4>1, <4>5 DEF CopyDone, TransactionInv, Goal
    <3> QED
      BY <1>6, <3>1, <3>2 DEF CopyDone, Down
  <2>8. DataInv'
    BY <1>6, <2>1, <2>2, <2>3 DEF CopyDone, Down, Compatible, Sound, Goal, HandInv, TransactionInv, LinkInv, DataInv
  <2> QED
    BY <2>4, <2>5, <2>6, <2>7, <2>8
<1>7. CASE SaveNewPending
  <2>1. /\ tx \in Transaction /\ tx.previous \in Dir /\ tx.target \in Dir /\ tx.from \in Version
        /\ tx.to \in Version /\ tx.saved \in Content /\ tx.restore \in Content
    BY <1>7, FieldsTyped DEF SaveNewPending, TypeOK, HandInv
  <2>2. TypeOK' /\ HandInv' /\ LockInv' /\ LinkInv'
    BY <1>7, <2>1 DEF SaveNewPending, Goto, Sound, Goal, UpTo, TypeOK, Stage, UpStage, HandInv, LockInv,
            TransactionInv, LinkInv
  <2>3. TransactionInv'
    BY <1>7, <2>1 DEF SaveNewPending, Goto, Sound, Goal, UpTo, HandInv, TransactionInv
  <2>4. DataInv'
    BY <1>7, <2>1 DEF SaveNewPending, Goto, Sound, Goal, UpTo, HandInv, TransactionInv, LinkInv, DataInv
  <2>5. ResultInv'
    BY <1>7, <2>1 DEF SaveNewPending, Goto, Sound, Goal, UpTo, HandInv, TransactionInv, LinkInv, ResultInv
  <2> QED
    BY <2>2, <2>3, <2>4, <2>5
<1>8. CASE HandOffNew
  <2>1. TypeOK' /\ HandInv' /\ LockInv' /\ TransactionInv' /\ LinkInv' /\ DataInv' /\ ResultInv'
    BY <1>8 DEF HandOffNew, Goto, TypeOK, Stage, UpStage, HandInv, LockInv, TransactionInv, LinkInv,
            DataInv, ResultInv
  <2> QED
    BY <2>1
<1>9. CASE Prepare
  <2>1. /\ tx \in Transaction /\ tx.previous \in Dir /\ tx.target \in Dir /\ tx.from \in Version
        /\ tx.to \in Version /\ tx.saved \in Content /\ tx.restore \in Content
    BY <1>9, FieldsTyped DEF Prepare, TypeOK, HandInv
  <2>2. HandInv' /\ LockInv' /\ TransactionInv' /\ LinkInv' /\ ResultInv'
    BY <1>9, <2>1 DEF Prepare, Goto, MoveAway, Sound, Goal, UpTo, HandInv, LockInv, TransactionInv,
            LinkInv, ResultInv
  <2>3. TypeOK'
    BY <1>9, <2>1 DEF Prepare, Goto, MoveAway, Sound, Goal, UpTo, TypeOK, Stage, UpStage
  <2>4. DataInv'
    <3>1. db.by \subseteq Version /\ db \in Content
      BY DEF TypeOK, Content
    <3>2. CASE tx.restore # Missing
      BY <1>9, <2>1, <3>2 DEF Prepare, Goto, MoveAway, UpTo, HandInv, DataInv
    <3>3. CASE tx.restore = Missing
      <4>1. /\ journal = tx /\ Open(tx) /\ Sound(tx)
            /\ \A v \in db.by : v <= tx.from \/ v <= tx.to
            /\ tx.recovery => UpTo(db, tx.from)
            /\ db.state # "whole" => db.by = {}
        BY <1>9, <2>1 DEF Prepare, HandInv, TransactionInv, DataInv
      <4>2. UpTo(db, Goal(tx))
        <5>1. CASE tx.recovery
          BY <4>1, <5>1 DEF Goal
        <5>2. CASE ~tx.recovery
          <6>1. tx.from < tx.to
            BY <4>1, <5>2, <3>3 DEF Sound
          <6>2. tx.from \in Nat /\ tx.to \in Nat /\ db.by \subseteq Nat
            BY <2>1, <3>1
          <6>3. \A v \in db.by : v <= tx.to
            BY <4>1, <6>1, <6>2
          <6> QED
            BY <4>1, <5>2, <6>3 DEF Goal, UpTo
        <5> QED
          BY <5>1, <5>2
      <4> QED
        BY <1>9, <2>1, <3>3, <4>1, <4>2 DEF Prepare, Goto, HandInv, DataInv
    <3> QED
      BY <3>2, <3>3
  <2> QED
    BY <2>2, <2>3, <2>4
<1>10. CASE PrepareDone
  <2>1. /\ tx \in Transaction /\ tx.previous \in Dir /\ tx.target \in Dir /\ tx.from \in Version
        /\ tx.to \in Version /\ tx.saved \in Content /\ tx.restore \in Content
    BY <1>10, FieldsTyped DEF PrepareDone, TypeOK, HandInv
  <2>2. HandInv' /\ LockInv' /\ TransactionInv' /\ LinkInv' /\ ResultInv'
    BY <1>10, <2>1 DEF PrepareDone, Goto, MoveIn, Sound, Goal, UpTo, HandInv, LockInv, TransactionInv,
            LinkInv, ResultInv
  <2>3. TypeOK'
    BY <1>10, <2>1 DEF PrepareDone, Goto, MoveIn, Sound, Goal, UpTo, TypeOK, Stage, UpStage
  <2>4. DataInv'
    BY <1>10, <2>1 DEF PrepareDone, Goto, MoveIn, Sound, Goal, UpTo, HandInv, TransactionInv, LinkInv,
            DataInv
  <2> QED
    BY <2>2, <2>3, <2>4
<1>11. CASE SwitchCurrent
  <2>1. /\ tx \in Transaction /\ tx.previous \in Dir /\ tx.target \in Dir /\ tx.from \in Version
        /\ tx.to \in Version /\ tx.saved \in Content /\ tx.restore \in Content
    BY <1>11, FieldsTyped DEF SwitchCurrent, TypeOK, HandInv
  <2>2. HandInv' /\ LockInv' /\ TransactionInv' /\ ResultInv'
    BY <1>11, <2>1 DEF SwitchCurrent, Goto, HandInv, LockInv, TransactionInv, LinkInv, ResultInv
  <2>3. TypeOK'
    BY <1>11, <2>1 DEF SwitchCurrent, Goto, TypeOK, Stage, UpStage
  <2>4. LinkInv'
    BY <1>11, <2>1 DEF SwitchCurrent, Goto, HandInv, TransactionInv, LinkInv
  <2>5. DataInv'
    BY <1>11, <2>1 DEF SwitchCurrent, Goto, HandInv, TransactionInv, LinkInv, DataInv
  <2> QED
    BY <2>2, <2>3, <2>4, <2>5
<1> QED
  BY <1>1, <1>2, <1>3, <1>4, <1>5, <1>6, <1>7, <1>8, <1>9, <1>10, <1>11 DEF StartStep

LEMMA RunIInv == IInv /\ RunStep => IInv'
<1> SUFFICES ASSUME IInv, RunStep
             PROVE  IInv'
  OBVIOUS
<1> USE VersionAssumption, TransactionsAreOpen, VersionsTyped, ContentsTyped
      DEF IInv, Open, VersionAt, Current, BuiltinDir, Stored, fileVars
<1>1. CASE RunProgram
  <2>1. CASE ~Compatible(Current)
    BY <1>1, <2>1 DEF RunProgram, Down, TypeOK, Stage, HandInv, LockInv, TransactionInv, LinkInv,
            DataInv, ResultInv
  <2>2. CASE Compatible(Current)
    <3>1. /\ db \in Content /\ db.by \subseteq Version /\ db.fresh \in BOOLEAN
          /\ db.state \in {"missing", "torn", "whole"}
      BY DEF TypeOK, Content
    <3> DEFINE by == IF db.state = "torn" THEN {} ELSE db.by \cup {Current}
    <3>2. /\ db' = [state |-> IF Stored THEN db.state ELSE "whole", by |-> by,
                    fresh |-> db.fresh \/ ~Stored]
          /\ stage = "run" /\ stage' = "starting" /\ tx' = tx
          /\ UNCHANGED <<image, link, backup, journal, lock, request, told, last, changes>>
      BY <1>1, <2>2 DEF RunProgram, Goto
    <3>3. by \in SUBSET Version
      BY <3>1
    <3>4. /\ db' \in Content /\ db'.by = by
          /\ db'.state = IF Stored THEN db.state ELSE "whole"
      BY <3>1, <3>2, <3>3 DEF Content
    <3> HIDE DEF by
    <3>5. /\ Stored' /\ db'.by \subseteq Version /\ Current \in Nat
          /\ db'.state # "whole" => db'.by = {}
          /\ db'.by \subseteq db.by \cup {Current}
          /\ db'.state = "whole" => Current \in db'.by
      BY <3>1, <3>4 DEF by
    <3>6. UpTo(db, Current) => UpTo(db', Current)
      BY <3>1, <3>5 DEF UpTo
    <3>7. /\ journal = None => UpTo(db, Current)
          /\ Open(journal) => /\ journal = tx /\ link = tx.target /\ Current = Goal(tx)
                              /\ UpTo(db, Goal(tx))
                              /\ \A v \in db.by : v <= tx.from \/ v <= tx.to
      BY <3>2 DEF HandInv, TransactionInv, LinkInv, DataInv
    <3>8. TypeOK' /\ HandInv' /\ LockInv' /\ TransactionInv' /\ LinkInv' /\ ResultInv'
      BY <3>2, <3>4 DEF TypeOK, Stage, UpStage, HandInv, LockInv, TransactionInv, LinkInv,
              ResultInv
    <3>9. DataInv'
      <4>1. ASSUME journal # None
            PROVE  /\ \A v \in db'.by : v <= tx.from \/ v <= tx.to
                   /\ tx.recovery => UpTo(db', tx.from)
                   /\ UpTo(db', Goal(tx))
        <5>1. UpTo(db', Goal(tx)) /\ (Current = tx.from \/ Current = tx.to)
          BY <4>1, <3>6, <3>7 DEF Goal
        <5>2. \A v \in db'.by : v <= tx.from \/ v <= tx.to
          BY <4>1, <3>5, <3>7, <5>1
        <5> QED
          BY <5>1, <5>2 DEF Goal
      <4> QED
        BY <3>2, <3>5, <3>6, <3>7, <4>1 DEF DataInv
    <3> QED
      BY <3>8, <3>9
  <2> QED
    BY <2>1, <2>2
<1>2. CASE Healthy
  <2>1. TypeOK' /\ HandInv' /\ LockInv' /\ TransactionInv' /\ LinkInv' /\ DataInv' /\ ResultInv'
    BY <1>2 DEF Healthy, Goto, TypeOK, Stage, UpStage, HandInv, LockInv, TransactionInv, LinkInv,
            DataInv, ResultInv
  <2> QED
    BY <2>1
<1>3. CASE MarkCompleted
  <2>1. /\ tx \in Transaction /\ tx.previous \in Dir /\ tx.target \in Dir /\ tx.from \in Version
        /\ tx.to \in Version /\ tx.saved \in Content /\ tx.restore \in Content
    BY <1>3, FieldsTyped DEF MarkCompleted, TypeOK, HandInv
  <2>2. /\ tx' \in Transaction /\ tx'.completed /\ tx'.recovery = tx.recovery
        /\ tx'.image = tx.image /\ tx'.noFallback = tx.noFallback /\ tx'.previous = tx.previous
        /\ tx'.target = tx.target /\ tx'.from = tx.from /\ tx'.to = tx.to
        /\ tx'.saved = tx.saved /\ tx'.restore = tx.restore
    BY <1>3, <2>1, CompletedTyped DEF MarkCompleted
  <2>3. Goal(tx') = Goal(tx) /\ (Sound(tx) => Sound(tx'))
    BY <1>3, <2>1, <2>2 DEF Sound, Goal
  <2>4. journal = tx /\ journal' = tx' /\ stage' = "marked" /\ last' = last
    BY <1>3, <2>1, <2>2, <2>3 DEF MarkCompleted, HandInv
  <2>5. HandInv' /\ LockInv'
    BY <1>3, <2>1, <2>2, <2>3, <2>4 DEF MarkCompleted, HandInv, LockInv
  <2>6. TypeOK'
    BY <1>3, <2>1, <2>2, <2>3, <2>4 DEF MarkCompleted, TypeOK, Stage, UpStage
  <2>7. TransactionInv'
    BY <1>3, <2>1, <2>2, <2>3, <2>4 DEF MarkCompleted, HandInv, TransactionInv
  <2>8. LinkInv'
    BY <1>3, <2>1, <2>2, <2>3, <2>4 DEF MarkCompleted, HandInv, TransactionInv, LinkInv
  <2>9. DataInv'
    BY <1>3, <2>1, <2>2, <2>3, <2>4 DEF MarkCompleted, HandInv, TransactionInv, LinkInv, DataInv
  <2>10. ResultInv'
    BY <2>1, <2>2, <2>4 DEF ResultInv
  <2> QED
    BY <2>5, <2>6, <2>7, <2>8, <2>9, <2>10
<1>4. CASE TellResult
  <2>1. /\ tx \in Transaction /\ tx.previous \in Dir /\ tx.target \in Dir /\ tx.from \in Version
        /\ tx.to \in Version /\ tx.saved \in Content /\ tx.restore \in Content
    BY <1>4, FieldsTyped DEF TellResult, TypeOK, HandInv
  <2>2. HandInv' /\ LockInv' /\ TransactionInv' /\ LinkInv' /\ DataInv'
    BY <1>4, <2>1 DEF TellResult, Goto, StatusOf, HandInv, LockInv, TransactionInv, LinkInv, DataInv
  <2>3. TypeOK'
    BY <1>4, <2>1 DEF TellResult, Goto, StatusOf, TypeOK, Stage, UpStage
  <2>4. ResultInv'
    BY <1>4, <2>1 DEF TellResult, Goto, StatusOf, HandInv, TransactionInv, LinkInv, ResultInv
  <2> QED
    BY <2>2, <2>3, <2>4
<1>5. CASE RemoveJournal
  <2>1. /\ tx \in Transaction /\ tx.previous \in Dir /\ tx.target \in Dir /\ tx.from \in Version
        /\ tx.to \in Version /\ tx.saved \in Content /\ tx.restore \in Content
    BY <1>5, FieldsTyped DEF RemoveJournal, TypeOK, HandInv
  <2>2. TypeOK' /\ HandInv' /\ LockInv' /\ LinkInv'
    BY <1>5, <2>1 DEF RemoveJournal, Goto, StatusOf, Sound, Goal, TypeOK, Stage, UpStage, HandInv,
            LockInv, TransactionInv, LinkInv
  <2>3. TransactionInv'
    BY <1>5, <2>1 DEF RemoveJournal, Goto, StatusOf, Sound, Goal, HandInv, TransactionInv
  <2>4. DataInv'
    BY <1>5, <2>1 DEF RemoveJournal, Goto, StatusOf, Sound, Goal, HandInv, TransactionInv, LinkInv,
            DataInv
  <2>5. ResultInv'
    BY <1>5, <2>1 DEF RemoveJournal, Goto, StatusOf, Sound, Goal, HandInv, TransactionInv, LinkInv,
            ResultInv
  <2> QED
    BY <2>2, <2>3, <2>4, <2>5
<1>6. CASE ReleaseLock
  <2>1. TypeOK' /\ HandInv' /\ LockInv' /\ TransactionInv' /\ LinkInv' /\ DataInv' /\ ResultInv'
    BY <1>6 DEF ReleaseLock, TypeOK, Stage, UpStage, HandInv, LockInv, TransactionInv, LinkInv,
            DataInv, ResultInv
  <2> QED
    BY <2>1
<1>7. CASE CompletionFails
  <2>1. TypeOK' /\ HandInv' /\ LockInv' /\ TransactionInv' /\ LinkInv' /\ DataInv' /\ ResultInv'
    BY <1>7 DEF CompletionFails, Goto, TypeOK, Stage, UpStage, HandInv, LockInv, TransactionInv,
            LinkInv, DataInv, ResultInv
  <2> QED
    BY <2>1
<1>8. CASE Unhealthy
  <2>1. HandInv' /\ LockInv' /\ TransactionInv' /\ LinkInv' /\ DataInv'
    BY <1>8 DEF Unhealthy, Goto, Down, HandInv, LockInv, TransactionInv, LinkInv, DataInv
  <2>2. TypeOK'
    BY <1>8 DEF Unhealthy, Goto, Down, TypeOK, Stage, UpStage
  <2>3. ResultInv'
    BY <1>8 DEF Unhealthy, Goto, Down, HandInv, TransactionInv, LinkInv, ResultInv
  <2> QED
    BY <2>1, <2>2, <2>3
<1>9. CASE SwitchBack
  <2>1. /\ tx \in Transaction /\ tx.previous \in Dir /\ tx.target \in Dir /\ tx.from \in Version
        /\ tx.to \in Version /\ tx.saved \in Content /\ tx.restore \in Content
    BY <1>9, FieldsTyped DEF SwitchBack, TypeOK, HandInv
  <2>2. HandInv' /\ LockInv' /\ TransactionInv' /\ ResultInv'
    BY <1>9, <2>1 DEF SwitchBack, Goto, Sound, HandInv, LockInv, TransactionInv, LinkInv, ResultInv
  <2>3. TypeOK'
    BY <1>9, <2>1 DEF SwitchBack, Goto, Sound, TypeOK, Stage, UpStage
  <2>4. LinkInv'
    BY <1>9, <2>1 DEF SwitchBack, Goto, Sound, HandInv, TransactionInv, LinkInv
  <2>5. DataInv'
    BY <1>9, <2>1 DEF SwitchBack, Goto, Sound, HandInv, TransactionInv, LinkInv, DataInv
  <2> QED
    BY <2>2, <2>3, <2>4, <2>5
<1>10. CASE RestoreDatabase
  <2>1. /\ tx \in Transaction /\ tx.previous \in Dir /\ tx.target \in Dir /\ tx.from \in Version
        /\ tx.to \in Version /\ tx.saved \in Content /\ tx.restore \in Content
    BY <1>10, FieldsTyped DEF RestoreDatabase, TypeOK, HandInv
  <2>2. HandInv' /\ LockInv' /\ TransactionInv' /\ LinkInv' /\ ResultInv'
    BY <1>10, <2>1 DEF RestoreDatabase, Goto, MoveAway, Sound, UpTo, HandInv, LockInv, TransactionInv,
            LinkInv, ResultInv
  <2>3. TypeOK'
    BY <1>10, <2>1 DEF RestoreDatabase, Goto, MoveAway, Sound, UpTo, TypeOK, Stage, UpStage
  <2>4. DataInv'
    BY <1>10, <2>1 DEF RestoreDatabase, Goto, MoveAway, Sound, UpTo, HandInv, TransactionInv, LinkInv,
            DataInv
  <2> QED
    BY <2>2, <2>3, <2>4
<1>11. CASE RestoreDone
  <2>1. /\ tx \in Transaction /\ tx.previous \in Dir /\ tx.target \in Dir /\ tx.from \in Version
        /\ tx.to \in Version /\ tx.saved \in Content /\ tx.restore \in Content
    BY <1>11, FieldsTyped DEF RestoreDone, TypeOK, HandInv
  <2>2. HandInv' /\ LockInv' /\ TransactionInv' /\ LinkInv' /\ ResultInv'
    BY <1>11, <2>1 DEF RestoreDone, Goto, MoveIn, Sound, UpTo, HandInv, LockInv, TransactionInv, LinkInv,
            ResultInv
  <2>3. TypeOK'
    BY <1>11, <2>1 DEF RestoreDone, Goto, MoveIn, Sound, UpTo, TypeOK, Stage, UpStage
  <2>4. DataInv'
    BY <1>11, <2>1 DEF RestoreDone, Goto, MoveIn, Sound, UpTo, HandInv, TransactionInv, LinkInv, DataInv
  <2> QED
    BY <2>2, <2>3, <2>4
<1>12. CASE RollbackFails
  <2>1. TypeOK' /\ HandInv' /\ LockInv' /\ TransactionInv' /\ LinkInv' /\ DataInv' /\ ResultInv'
    BY <1>12 DEF RollbackFails, Down, TypeOK, Stage, UpStage, HandInv, LockInv, TransactionInv,
            LinkInv, DataInv, ResultInv
  <2> QED
    BY <2>1
<1>13. CASE SaveRecovery
  <2>1. /\ tx \in Transaction /\ tx.previous \in Dir /\ tx.target \in Dir /\ tx.from \in Version
        /\ tx.to \in Version /\ tx.saved \in Content /\ tx.restore \in Content
    BY <1>13, FieldsTyped DEF SaveRecovery, TypeOK, HandInv
  <2>2. /\ journal' = RecoveryOf(tx) /\ journal' \in Transaction /\ ~journal'.completed
        /\ journal'.recovery /\ journal'.image = tx.image /\ journal'.noFallback = tx.noFallback
        /\ journal'.previous = tx.previous /\ journal'.target = tx.previous
        /\ journal'.from = tx.from /\ journal'.to = tx.to /\ journal'.saved = tx.saved
        /\ journal'.restore = Missing
    BY <1>13, <2>1, RecoveryTyped DEF SaveRecovery, RecoveryOf
  <2>3. Sound(journal') /\ Goal(journal') = tx.from /\ tx.previous = tx.from
    BY <1>13, <2>1, <2>2 DEF Sound, Goal, UpTo, HandInv, TransactionInv, SaveRecovery
  <2>4. /\ stage = "recover" /\ link' = link
        /\ (stage' = "run" /\ tx' = journal') \/ (stage' = "down" /\ tx' = None)
    BY <1>13, <2>1, <2>2, <2>3 DEF SaveRecovery, Down
  <2>5. HandInv' /\ LockInv'
    BY <1>13, <2>1, <2>2, <2>3, <2>4 DEF SaveRecovery, Down, HandInv, LockInv
  <2>6. TypeOK'
    BY <1>13, <2>1, <2>2, <2>3, <2>4 DEF SaveRecovery, Down, TypeOK, Stage, UpStage
  <2>7. TransactionInv'
    BY <1>13, <2>1, <2>2, <2>3, <2>4 DEF SaveRecovery, Down, HandInv, TransactionInv
  <2>8. LinkInv'
    BY <2>2, <2>3, <2>4 DEF LinkInv
  <2>9. DataInv'
    BY <1>13, <2>1, <2>2, <2>3, <2>4 DEF SaveRecovery, Down, HandInv, TransactionInv, LinkInv, DataInv
  <2>10. ResultInv'
    BY <1>13, <2>1, <2>2, <2>3, <2>4 DEF SaveRecovery, Down, HandInv, TransactionInv, LinkInv, ResultInv
  <2> QED
    BY <2>5, <2>6, <2>7, <2>8, <2>9, <2>10
<1> QED
  BY <1>1, <1>2, <1>3, <1>4, <1>5, <1>6, <1>7, <1>8, <1>9, <1>10, <1>11, <1>12, <1>13 DEF RunStep

LEMMA InstallIInv == IInv /\ InstallStep => IInv'
<1> SUFFICES ASSUME IInv, InstallStep
             PROVE  IInv'
  OBVIOUS
<1> USE VersionAssumption, TransactionsAreOpen, VersionsTyped, ContentsTyped
      DEF IInv, Open, VersionAt, Current, BuiltinDir, Stored, fileVars
<1>1. CASE InstallBegins
  <2>1. HandInv' /\ LockInv' /\ TransactionInv' /\ LinkInv' /\ DataInv' /\ ResultInv'
    BY <1>1 DEF InstallBegins, Goto, HandInv, LockInv, TransactionInv, LinkInv, DataInv, ResultInv
  <2>2. TypeOK'
    BY <1>1, MaxChangesAssumption DEF InstallBegins, Goto, Change, TypeOK, Stage, UpStage
  <2> QED
    BY <2>1, <2>2
<1>2. CASE InstallFails
  <2>1. TypeOK' /\ HandInv' /\ LockInv' /\ TransactionInv' /\ LinkInv' /\ DataInv' /\ ResultInv'
    BY <1>2 DEF InstallFails, Goto, TypeOK, Stage, UpStage, HandInv, LockInv, TransactionInv,
            LinkInv, DataInv, ResultInv
  <2> QED
    BY <2>1
<1>3. CASE BackupDatabase
  <2>1. db \in Content /\ backup' \in [Version -> Content]
        /\ \A v \in Version : UpTo(backup'[v], v)
    BY <1>3 DEF BackupDatabase, TypeOK, DataInv, UpTo, HandInv
  <2>2. HandInv' /\ LockInv' /\ TransactionInv' /\ LinkInv' /\ ResultInv'
    BY <1>3, <2>1 DEF BackupDatabase, Goto, HandInv, LockInv, TransactionInv, LinkInv, ResultInv
  <2>3. TypeOK'
    BY <1>3, <2>1 DEF BackupDatabase, Goto, TypeOK, Stage, UpStage
  <2>4. DataInv'
    BY <1>3, <2>1 DEF BackupDatabase, Goto, HandInv, TransactionInv, LinkInv, DataInv
  <2> QED
    BY <2>2, <2>3, <2>4
<1>4. CASE HandOffRequest
  <2>1. TypeOK' /\ HandInv' /\ LockInv' /\ TransactionInv' /\ LinkInv' /\ DataInv' /\ ResultInv'
    BY <1>4 DEF HandOffRequest, Goto, TypeOK, Stage, UpStage, HandInv, LockInv, TransactionInv,
            LinkInv, DataInv, ResultInv
  <2> QED
    BY <2>1
<1>5. CASE \E v \in Version : WriteUpdateRequest(v)
  <2> PICK v \in Version : WriteUpdateRequest(v)
    BY <1>5
  <2>1. /\ db \in Content /\ backup' \in [Version -> Content]
        /\ \A w \in Version : UpTo(backup'[w], w)
    BY DEF WriteUpdateRequest, TypeOK, DataInv, HandInv
  <2>2. TypeOK' /\ HandInv' /\ LockInv' /\ LinkInv' /\ ResultInv'
    BY <2>1 DEF WriteUpdateRequest, Goto, TypeOK, Stage, UpStage, HandInv, LockInv, LinkInv,
            ResultInv
  <2>3. TransactionInv'
    BY <2>1 DEF WriteUpdateRequest, Goto, HandInv, TransactionInv
  <2>4. DataInv'
    BY <2>1 DEF WriteUpdateRequest, Goto, HandInv, DataInv
  <2> QED
    BY <2>2, <2>3, <2>4
<1>6. CASE ExitForUpdate
  <2>1. TypeOK' /\ HandInv' /\ LockInv' /\ TransactionInv' /\ LinkInv' /\ DataInv' /\ ResultInv'
    BY <1>6 DEF ExitForUpdate, Goto, TypeOK, Stage, UpStage, HandInv, LockInv, TransactionInv,
            LinkInv, DataInv, ResultInv
  <2> QED
    BY <2>1
<1>7. CASE ConsumeRequest
  <2>1. /\ request \in Version /\ request > Current
        /\ tx' = Installation(request) /\ tx' \in Transaction /\ ~tx'.image
        /\ ~tx'.noFallback /\ ~tx'.recovery /\ ~tx'.completed
        /\ tx'.previous = Current /\ tx'.target = request /\ tx'.from = Current
        /\ tx'.to = request /\ tx'.saved = Missing /\ tx'.restore = Missing
    <3>1. request \in Version /\ request > Current /\ Current \in Version
      BY <1>7 DEF ConsumeRequest, TransactionInv
    <3> QED
      BY <1>7, <3>1 DEF ConsumeRequest, Installation, Transaction, Dir
  <2>2. Sound(tx') /\ Goal(tx') = request
    BY <2>1 DEF Sound, Goal, UpTo
  <2>3. HandInv' /\ LockInv' /\ LinkInv' /\ DataInv' /\ ResultInv'
    BY <1>7, <2>1, <2>2 DEF ConsumeRequest, HandInv, LockInv, TransactionInv, LinkInv, DataInv, ResultInv
  <2>4. TypeOK'
    BY <1>7, <2>1, <2>2 DEF ConsumeRequest, TypeOK, Stage, UpStage
  <2>5. TransactionInv'
    BY <1>7, <2>1, <2>2 DEF ConsumeRequest, HandInv, TransactionInv
  <2> QED
    BY <2>3, <2>4, <2>5
<1>8. CASE InstallRejected
  <2>1. HandInv' /\ LockInv' /\ TransactionInv' /\ LinkInv' /\ DataInv' /\ ResultInv'
    BY <1>8 DEF InstallRejected, HandInv, LockInv, TransactionInv, LinkInv, DataInv, ResultInv
  <2>2. TypeOK'
    BY <1>8 DEF InstallRejected, TypeOK, Stage, UpStage
  <2> QED
    BY <2>1, <2>2
<1>9. CASE FinalizeBackup
  <2>1. /\ tx \in Transaction /\ tx.previous \in Dir /\ tx.target \in Dir /\ tx.from \in Version
        /\ tx.to \in Version /\ tx.saved \in Content /\ tx.restore \in Content
    BY <1>9, FieldsTyped DEF FinalizeBackup, TypeOK, HandInv
  <2>2. db \in Content /\ backup' \in [Version -> Content]
        /\ \A v \in Version : UpTo(backup'[v], v)
    BY <1>9, <2>1 DEF FinalizeBackup, TypeOK, DataInv, UpTo, HandInv, TransactionInv
  <2>3. HandInv' /\ LockInv' /\ TransactionInv' /\ LinkInv' /\ ResultInv'
    BY <1>9, <2>1, <2>2 DEF FinalizeBackup, Goto, HandInv, LockInv, TransactionInv, LinkInv, ResultInv
  <2>4. TypeOK'
    BY <1>9, <2>1, <2>2 DEF FinalizeBackup, Goto, TypeOK, Stage, UpStage
  <2>5. DataInv'
    BY <1>9, <2>1, <2>2 DEF FinalizeBackup, Goto, HandInv, TransactionInv, LinkInv, DataInv
  <2> QED
    BY <2>3, <2>4, <2>5
<1>10. CASE FinalizeDone
  <2>1. /\ tx \in Transaction /\ tx.previous \in Dir /\ tx.target \in Dir /\ tx.from \in Version
        /\ tx.to \in Version /\ tx.saved \in Content /\ tx.restore \in Content
    BY <1>10, FieldsTyped DEF FinalizeDone, TypeOK, HandInv
  <2>2. db \in Content /\ backup' \in [Version -> Content]
        /\ \A v \in Version : UpTo(backup'[v], v)
    BY <1>10, <2>1 DEF FinalizeDone, TypeOK, DataInv, UpTo, HandInv, TransactionInv
  <2>3. /\ tx' \in Transaction /\ tx'.completed = tx.completed /\ tx'.recovery = tx.recovery
        /\ tx'.image = tx.image /\ tx'.noFallback = tx.noFallback /\ tx'.previous = tx.previous
        /\ tx'.target = tx.target /\ tx'.from = tx.from /\ tx'.to = tx.to
        /\ tx'.saved = db /\ tx'.restore = tx.restore
    BY <1>10, <2>1, <2>2, SavedTyped DEF FinalizeDone
  <2>4. Sound(tx') /\ db # Missing
    BY <1>10, <2>1, <2>2, <2>3 DEF FinalizeDone, Sound, Goal, UpTo, HandInv, TransactionInv, DataInv
  <2>5. HandInv' /\ LockInv' /\ LinkInv' /\ ResultInv'
    BY <1>10, <2>1, <2>2, <2>3, <2>4 DEF FinalizeDone, HandInv, LockInv, TransactionInv, LinkInv, ResultInv
  <2>6. TypeOK'
    BY <1>10, <2>1, <2>2, <2>3, <2>4 DEF FinalizeDone, TypeOK, Stage, UpStage
  <2>7. TransactionInv'
    BY <1>10, <2>1, <2>2, <2>3, <2>4 DEF FinalizeDone, HandInv, TransactionInv
  <2>8. DataInv'
    BY <1>10, <2>1, <2>2, <2>3, <2>4 DEF FinalizeDone, HandInv, TransactionInv, LinkInv, DataInv
  <2> QED
    BY <2>5, <2>6, <2>7, <2>8
<1>11. CASE ApplyUpdate
  <2>1. /\ tx \in Transaction /\ tx.previous \in Dir /\ tx.target \in Dir /\ tx.from \in Version
        /\ tx.to \in Version /\ tx.saved \in Content /\ tx.restore \in Content
    BY <1>11, FieldsTyped DEF ApplyUpdate, TypeOK, HandInv
  <2>2. TypeOK' /\ HandInv' /\ LockInv' /\ LinkInv'
    BY <1>11, <2>1 DEF ApplyUpdate, Goto, Goal, Sound, UpTo, TypeOK, Stage, UpStage, HandInv, LockInv,
            TransactionInv, LinkInv
  <2>3. TransactionInv'
    BY <1>11, <2>1 DEF ApplyUpdate, Goto, Goal, Sound, UpTo, HandInv, TransactionInv
  <2>4. DataInv'
    BY <1>11, <2>1 DEF ApplyUpdate, Goto, Goal, Sound, UpTo, HandInv, TransactionInv, LinkInv, DataInv
  <2>5. ResultInv'
    BY <1>11, <2>1 DEF ApplyUpdate, Goto, Goal, Sound, UpTo, HandInv, TransactionInv, LinkInv, ResultInv
  <2> QED
    BY <2>2, <2>3, <2>4, <2>5
<1>12. CASE ApplyLink
  <2>1. /\ tx \in Transaction /\ tx.previous \in Dir /\ tx.target \in Dir /\ tx.from \in Version
        /\ tx.to \in Version /\ tx.saved \in Content /\ tx.restore \in Content
    BY <1>12, FieldsTyped DEF ApplyLink, TypeOK, HandInv
  <2>2. db.by \subseteq Nat /\ UpTo(db, tx.to) /\ Goal(tx) = tx.to
    <3>1. db.by \subseteq Version
      BY DEF TypeOK, Content
    <3>2. tx.from < tx.to /\ UpTo(db, tx.from) /\ Goal(tx) = tx.to
      BY <1>12, <2>1 DEF ApplyLink, HandInv, TransactionInv, DataInv, Sound, Goal
    <3>3. db.by \subseteq Nat /\ tx.from \in Nat /\ tx.to \in Nat
      BY <3>1, <2>1
    <3>4. \A v \in db.by : v <= tx.to
      BY <3>2, <3>3 DEF UpTo
    <3> QED
      BY <3>2, <3>3, <3>4 DEF UpTo
  <2>3. HandInv' /\ LockInv' /\ TransactionInv' /\ ResultInv'
    BY <1>12, <2>1, <2>2 DEF ApplyLink, Goto, HandInv, LockInv, TransactionInv, LinkInv, ResultInv
  <2>4. TypeOK'
    BY <1>12, <2>1, <2>2 DEF ApplyLink, Goto, TypeOK, Stage, UpStage
  <2>5. LinkInv'
    BY <1>12, <2>1, <2>2 DEF ApplyLink, Goto, HandInv, TransactionInv, LinkInv
  <2>6. DataInv'
    BY <1>12, <2>1, <2>2 DEF ApplyLink, Goto, HandInv, TransactionInv, LinkInv, DataInv
  <2> QED
    BY <2>3, <2>4, <2>5, <2>6
<1>14. CASE ReleaseRejected
  <2>1. TypeOK' /\ HandInv' /\ LockInv' /\ TransactionInv' /\ LinkInv' /\ DataInv' /\ ResultInv'
    BY <1>14 DEF ReleaseRejected, Goto, TypeOK, Stage, UpStage, HandInv, LockInv, TransactionInv,
            LinkInv, DataInv, ResultInv
  <2> QED
    BY <2>1
<1>13. CASE ApplyFails
  <2>1. /\ tx \in Transaction /\ tx.previous \in Dir /\ tx.target \in Dir /\ tx.from \in Version
        /\ tx.to \in Version /\ tx.saved \in Content /\ tx.restore \in Content
    BY <1>13, FieldsTyped DEF ApplyFails, Goto, TypeOK, HandInv
  <2>2. TypeOK' /\ HandInv' /\ LockInv' /\ TransactionInv' /\ LinkInv' /\ ResultInv'
    BY <1>13, <2>1 DEF ApplyFails, Goto, TypeOK, Stage, UpStage, HandInv, LockInv, TransactionInv, LinkInv,
            ResultInv
  <2>3. DataInv'
    BY <1>13, <2>1 DEF ApplyFails, Goto, HandInv, TransactionInv, LinkInv, DataInv
  <2> QED
    BY <2>2, <2>3
<1> QED
  BY <1>1, <1>2, <1>3, <1>4, <1>5, <1>6, <1>7, <1>8, <1>9, <1>10, <1>11, <1>12, <1>13, <1>14
  DEF InstallStep

LEMMA InitIInv == Init => IInv
<1> SUFFICES ASSUME Init
             PROVE  IInv
  OBVIOUS
<1>1. image.builtin \in Version /\ Current = image.builtin
  BY ImageAssumption DEF Init, Current, VersionAt
<1>2. db \in Content /\ db.state = "whole" /\ db.by = {image.builtin} /\ db # Missing
  BY <1>1, ContentsTyped DEF Init, Content
<1>3. TypeOK
  BY <1>2, MaxChangesAssumption, ContentsTyped DEF Init, TypeOK, Stage, Dir
<1>4. HandInv /\ LockInv /\ TransactionInv /\ LinkInv /\ ResultInv
  BY DEF Init, HandInv, LockInv, TransactionInv, LinkInv, ResultInv, Open
<1>5. UpTo(db, Current) /\ \A v \in Version : UpTo(Missing, v)
  BY <1>1, <1>2, VersionAssumption, ContentsTyped DEF UpTo
<1>6. DataInv
  BY <1>2, <1>5 DEF Init, DataInv, Open, Stored
<1> QED
  BY <1>3, <1>4, <1>6 DEF IInv

\* Whatever runs is gone, or somebody acts who is outside.
LEMMA ContainerIInv ==
  ASSUME IInv, \/ Stop \/ LockRemoved
               \/ \E i \in Image : ImageChanges(i)
               \/ UNCHANGED vars
  PROVE  IInv'
<1> USE DEF IInv, Open
<1>1. CASE Stop
  BY <1>1 DEF Stop, Down, fileVars, TypeOK, Stage, UpStage, HandInv, LockInv, TransactionInv,
          LinkInv, DataInv, ResultInv, Stored, Current, VersionAt
<1>2. CASE LockRemoved
  BY <1>2 DEF LockRemoved, TypeOK, HandInv, LockInv, TransactionInv, LinkInv, DataInv,
          ResultInv, Stored, Current, VersionAt
<1>3. CASE \E i \in Image : ImageChanges(i)
  <2> PICK i \in Image : ImageChanges(i)
    BY <1>3
  <2>1. TypeOK'
    BY MaxChangesAssumption DEF ImageChanges, Change, TypeOK
  <2>2. HandInv' /\ LockInv' /\ LinkInv' /\ ResultInv'
    BY DEF ImageChanges, HandInv, LockInv, LinkInv, ResultInv
  <2>3. TransactionInv'
    BY DEF ImageChanges, HandInv, TransactionInv
  <2>4. Current \in Nat /\ Current' \in Nat /\ Current <= Current' /\ db.by \subseteq Nat
    <3>1. db.by \subseteq Version
      BY DEF TypeOK, Content
    <3>2. Current \in Version /\ Current' \in Version
      BY <2>1, VersionsTyped, ImageAssumption DEF TypeOK, Current, VersionAt, Dir, BuiltinDir
    <3>3. Current = Current' \/ (Current = image.builtin /\ Current' = i.builtin)
      BY DEF ImageChanges, Current, VersionAt
    <3> QED
      BY <3>1, <3>2, <3>3, VersionAssumption DEF ImageChanges
  <2>5. UpTo(db, Current) => UpTo(db, Current')
    BY <2>4 DEF UpTo
  <2>6. DataInv'
    BY <2>5 DEF ImageChanges, DataInv, Stored
  <2> QED
    BY <2>1, <2>2, <2>3, <2>6
<1>4. CASE UNCHANGED vars
  BY <1>4 DEF vars, fileVars, TypeOK, HandInv, LockInv, TransactionInv,
          LinkInv, DataInv, ResultInv, Stored, Current, VersionAt, Compatible
<1> QED
  BY <1>1, <1>2, <1>3, <1>4

LEMMA StepIInv == IInv /\ [Next]_vars => IInv'
BY StartIInv, RunIInv, InstallIInv, ContainerIInv DEF Next

LEMMA Invariance == Spec => []IInv
BY InitIInv, StepIInv, PTL DEF Spec

\* The state of the launcher has the types of its variables.
THEOREM TypeCorrect == Spec => []TypeOK
BY Invariance, PTL DEF IInv

\* A result that was told of a finished transaction (writeResult of main.go) is
\* what the link and the database say: "success" with the version asked for,
\* "rolled_back" with the previous one and a database the new one has not touched.
THEOREM TrueResults == Spec => []ResultsAreTrue
<1>1. IInv => ResultsAreTrue
  <2> SUFFICES ASSUME IInv, Open(last), journal = None, told = "rolled_back"
               PROVE  last.to \notin db.by
    BY DEF IInv, ResultInv, ResultsAreTrue
  <2>1. last.to \in Nat /\ db.by \subseteq Nat
    <3>1. last \in Transaction /\ db.by \subseteq Version
      BY DEF IInv, TypeOK, Content, Open
    <3> QED
      BY <3>1, FieldsTyped, VersionAssumption
  <2>2. link \in Nat /\ link < last.to /\ UpTo(db, link)
    BY VersionAssumption DEF IInv, ResultInv, DataInv, Current, VersionAt, BuiltinDir
  <2> QED
    BY <2>1, <2>2 DEF UpTo
<1> QED
  BY <1>1, Invariance, PTL

\* An installation begins only when no transaction is left to be finished or
\* undone: updates/update.lock is held as long as there is a journal (lock.go).
THEOREM NoInstallOnJournal == Spec => JournalExcludesInstall
<1>1. IInv /\ [Next]_vars => [InstallBegins => journal = None]_vars
  BY DEF IInv, LockInv, InstallBegins, Open
<1> QED
  BY <1>1, Invariance, PTL DEF Spec, JournalExcludesInstall

----------------------------------------------------------------------------
(* The refinement of UpdateTransaction                                      *)

\* A journal is a transaction that is open, and says which.
LEMMA JournalsAreOpen ==
  ASSUME NEW t \in Transaction
  PROVE  /\ JournalOf(t) # JournalOf(None)
         /\ JournalOf(t) = [from |-> t.from, to |-> t.to,
                            fate |-> IF t.completed THEN StatusOf(t) ELSE "open"]
         /\ JournalOf(t).from = t.from /\ JournalOf(t).to = t.to
         /\ JournalOf(t).fate = IF t.completed THEN StatusOf(t) ELSE "open"
         /\ StatusOf(t) \in {"success", "failed", "rolled_back"}
BY TransactionsAreOpen DEF JournalOf, StatusOf, Open

\* What the transaction does not see.
LEMMA Stutters ==
  ASSUME Current' = Current, db'.by = db.by,
         JournalOf(journal)' = JournalOf(journal),
         stage' \in UpStage <=> stage \in UpStage
  PROVE  UNCHANGED Transacted!absVars
BY DEF Transacted!absVars

\* A launcher that runs no program has its journal in hand.
LEMMA JournalInHand ==
  ASSUME journal \in Transaction, stage \notin UpStage
  PROVE  Transacted!InHand
BY JournalsAreOpen DEF Transacted!InHand, Transacted!Open, Transacted!NoTxn, JournalOf

LEMMA InitRefines == Init => Transacted!Init
BY ImageAssumption DEF Init, Transacted!Init, Transacted!NoTxn, Current, VersionAt, UpStage,
   JournalOf

LEMMA StartRefines ==
  ASSUME IInv, StartStep
  PROVE  Transacted!Next \/ UNCHANGED Transacted!absVars
<1> USE TransactionsAreOpen, VersionsTyped DEF IInv, Open, Goto, UpStage
<1>1. CASE StartClean \/ StartPending \/ HandOffBegun \/ KeepCurrent \/ SelectImage \/ CopyDone
           \/ HandOffNew
  BY <1>1, Stutters DEF StartClean, StartPending, HandOffBegun, KeepCurrent, SelectImage,
          CopyDone, Down, HandOffNew, Current, VersionAt
<1>2. CASE SaveNewPending
  <2>1. /\ journal = None /\ journal' = tx /\ tx \in Transaction /\ tx.to \in Version
        /\ ~tx.completed /\ tx.from = Current /\ Current # 0
        /\ \A v \in db.by : v <= Current
    BY <1>2, FieldsTyped, VersionAssumption DEF SaveNewPending, TypeOK, HandInv, TransactionInv,
            DataInv, UpTo
  <2>2. JournalOf(tx) = [from |-> Current, to |-> tx.to, fate |-> "open"]
    BY <2>1, JournalsAreOpen
  <2>3. Transacted!Begin
    BY <1>2, <2>1, <2>2 DEF SaveNewPending, Transacted!Begin, Current, VersionAt
  <2> QED
    BY <2>3 DEF Transacted!Next
<1>3. CASE Prepare \/ PrepareDone
  <2>1. /\ journal = tx /\ journal' = journal /\ tx \in Transaction /\ Current' = Current
        /\ stage \notin UpStage /\ stage' \notin UpStage /\ UpTo(tx.restore, tx.to)
        /\ \A v \in db.by : v <= tx.from \/ v <= tx.to
    BY <1>3 DEF Prepare, PrepareDone, TypeOK, HandInv, TransactionInv, DataInv, Sound, Current,
            VersionAt
  <2>2. db'.by \in {db.by, {}, tx.restore.by}
    BY <1>3, ContentsTyped DEF Prepare, PrepareDone, MoveAway, MoveIn
  <2>3. \A v \in db'.by : v <= tx.from \/ v <= tx.to
    BY <2>1, <2>2 DEF UpTo
  <2>4. Transacted!Restore
    BY <2>1, <2>3, JournalInHand, JournalsAreOpen DEF Transacted!Restore
  <2> QED
    BY <2>4 DEF Transacted!Next
<1>4. CASE SwitchCurrent
  <2>1. /\ journal = tx /\ journal' = journal /\ tx \in Transaction /\ db' = db
        /\ stage \notin UpStage /\ stage' \notin UpStage /\ Current' = Goal(tx)
    BY <1>4 DEF SwitchCurrent, TypeOK, HandInv, TransactionInv, Current, VersionAt
  <2>2. Transacted!Switch
    BY <2>1, JournalInHand, JournalsAreOpen DEF Transacted!Switch, Goal
  <2> QED
    BY <2>2 DEF Transacted!Next
<1> QED
  BY <1>1, <1>2, <1>3, <1>4 DEF StartStep

LEMMA RunRefines ==
  ASSUME IInv, RunStep
  PROVE  Transacted!Next \/ UNCHANGED Transacted!absVars
<1> USE TransactionsAreOpen, VersionsTyped DEF IInv, Open, Goto, UpStage
<1>1. CASE Healthy \/ TellResult \/ ReleaseLock \/ CompletionFails \/ RollbackFails
  BY <1>1, Stutters DEF Healthy, TellResult, ReleaseLock, CompletionFails, RollbackFails,
          Down, fileVars, Current, VersionAt
<1>2. CASE RunProgram
  <2>1. CASE ~Compatible(Current)
    BY <1>2, <2>1, Stutters DEF RunProgram, Down, Current, VersionAt
  <2>2. CASE Compatible(Current)
    <3>1. /\ Current' = Current /\ Current # 0 /\ journal' = journal
          /\ stage = "run" /\ stage' = "starting"
          /\ db'.by \in {db.by, db.by \cup {Current}}
      BY <1>2, <2>2, VersionAssumption DEF RunProgram, Current, VersionAt, DataInv
    <3>2. \A v \in db.by : v <= Current
      BY <3>1 DEF HandInv, LinkInv, TransactionInv, DataInv, UpTo, Current
    <3>3. Transacted!Serve
      BY <3>1, <3>2 DEF Transacted!Serve
    <3> QED
      BY <3>3 DEF Transacted!Next
  <2> QED
    BY <2>1, <2>2
<1>3. CASE MarkCompleted
  <2>1. /\ journal = tx /\ tx \in Transaction /\ Current = Goal(tx) /\ Current \in db.by
        /\ journal' = [tx EXCEPT !.completed = TRUE]
        /\ Current' = Current /\ db' = db
        /\ stage = "marking" /\ stage' = "marked"
    BY <1>3 DEF MarkCompleted, TypeOK, HandInv, LinkInv, TransactionInv, DataInv, Current,
            VersionAt
  <2>2. /\ journal' \in Transaction /\ journal'.completed
        /\ journal'.from = tx.from /\ journal'.to = tx.to /\ StatusOf(journal') = StatusOf(tx)
    BY <2>1, CompletedTyped DEF StatusOf
  <2>3. JournalOf(journal') = [from |-> tx.from, to |-> tx.to, fate |-> StatusOf(tx)]
    BY <2>2, JournalsAreOpen
  <2>4. CASE tx.completed
    <3>1. JournalOf(journal) = JournalOf(journal')
      BY <2>1, <2>3, <2>4, JournalsAreOpen
    <3> QED
      BY <2>1, <3>1, Stutters
  <2>5. CASE ~tx.completed
    <3>1. JournalOf(journal) = [from |-> tx.from, to |-> tx.to, fate |-> "open"]
      BY <2>1, <2>5, JournalsAreOpen
    <3>2. StatusOf(tx) \in Transacted!Fate \ {"open"}
      BY <2>1, JournalsAreOpen DEF Transacted!Fate
    <3>3. Current = Transacted!Outcome(JournalOf(journal), StatusOf(tx))
      BY <2>1, <3>1 DEF Transacted!Outcome, Goal, StatusOf
    <3>4. JournalOf(journal') = [JournalOf(journal) EXCEPT !.fate = StatusOf(tx)]
      BY <2>3, <3>1
    <3>5. Transacted!Open
      BY <2>1, JournalsAreOpen DEF Transacted!Open, Transacted!NoTxn, JournalOf
    <3>6. Transacted!Decide
      BY <2>1, <3>1, <3>2, <3>3, <3>4, <3>5 DEF Transacted!Decide
    <3> QED
      BY <3>6 DEF Transacted!Next
  <2> QED
    BY <2>4, <2>5
<1>4. CASE RemoveJournal
  <2>1. /\ journal = tx /\ journal' = None /\ tx \in Transaction /\ tx.completed
        /\ Current = Goal(tx) /\ Current' = Current /\ db' = db
        /\ stage = "told" /\ stage' = "removed"
    BY <1>4 DEF RemoveJournal, TypeOK, HandInv, LinkInv, TransactionInv, ResultInv, Current,
            VersionAt
  <2>2. Transacted!Open /\ JournalOf(journal') = Transacted!NoTxn
    BY <2>1, JournalsAreOpen DEF Transacted!Open, Transacted!NoTxn, JournalOf
  <2>3. /\ JournalOf(journal).fate = StatusOf(tx) /\ StatusOf(tx) # "open"
        /\ Current = Transacted!Outcome(JournalOf(journal), StatusOf(tx))
    BY <2>1, JournalsAreOpen DEF Transacted!Outcome, Goal, StatusOf
  <2>4. Transacted!Close
    BY <2>1, <2>2, <2>3 DEF Transacted!Close
  <2> QED
    BY <2>4 DEF Transacted!Next
<1>5. CASE Unhealthy
  <2>1. Transacted!Stop
    BY <1>5 DEF Unhealthy, Down, Transacted!Stop, Current, VersionAt
  <2> QED
    BY <2>1 DEF Transacted!Next
<1>6. CASE SwitchBack
  <2>1. /\ journal = tx /\ journal' = journal /\ tx \in Transaction /\ db' = db
        /\ stage \notin UpStage /\ stage' \notin UpStage /\ Current' = tx.from
    BY <1>6, FieldsTyped, VersionAssumption DEF SwitchBack, TypeOK, HandInv, TransactionInv, Sound,
            Current, VersionAt, BuiltinDir
  <2>2. Transacted!Switch
    BY <2>1, JournalInHand, JournalsAreOpen DEF Transacted!Switch
  <2> QED
    BY <2>2 DEF Transacted!Next
<1>7. CASE RestoreDatabase \/ RestoreDone
  <2>1. /\ journal = tx /\ journal' = journal /\ tx \in Transaction /\ Current' = Current
        /\ stage \notin UpStage /\ stage' \notin UpStage /\ UpTo(tx.saved, tx.from)
        /\ \A v \in db.by : v <= tx.from \/ v <= tx.to
    BY <1>7 DEF RestoreDatabase, RestoreDone, TypeOK, HandInv, TransactionInv, DataInv, Sound,
            Current, VersionAt
  <2>2. db'.by \in {db.by, {}, tx.saved.by}
    BY <1>7, ContentsTyped DEF RestoreDatabase, RestoreDone, MoveAway, MoveIn
  <2>3. \A v \in db'.by : v <= tx.from \/ v <= tx.to
    BY <2>1, <2>2 DEF UpTo
  <2>4. Transacted!Restore
    BY <2>1, <2>3, JournalInHand, JournalsAreOpen DEF Transacted!Restore
  <2> QED
    BY <2>4 DEF Transacted!Next
<1>8. CASE SaveRecovery
  <2>1. /\ journal = tx /\ tx \in Transaction /\ journal' = RecoveryOf(tx)
        /\ Current' = Current /\ db' = db /\ stage \notin UpStage /\ stage' \notin UpStage
    BY <1>8 DEF SaveRecovery, RecoveryOf, Down, TypeOK, HandInv, Current, VersionAt
  <2>2. JournalOf(journal') = [from |-> tx.from, to |-> tx.to, fate |-> "open"]
    BY <2>1, RecoveryTyped, JournalsAreOpen
  <2>3. JournalOf(journal') = [JournalOf(journal) EXCEPT !.fate = "open"]
    BY <2>1, <2>2, JournalsAreOpen
  <2>4. Transacted!Open
    BY <2>1, JournalsAreOpen DEF Transacted!Open, Transacted!NoTxn, JournalOf
  <2>5. Transacted!Reopen
    BY <2>1, <2>3, <2>4 DEF Transacted!Reopen
  <2> QED
    BY <2>5 DEF Transacted!Next
<1> QED
  BY <1>1, <1>2, <1>3, <1>4, <1>5, <1>6, <1>7, <1>8 DEF RunStep

LEMMA InstallRefines ==
  ASSUME IInv, InstallStep
  PROVE  Transacted!Next \/ UNCHANGED Transacted!absVars
<1> USE TransactionsAreOpen, VersionsTyped DEF IInv, Open, Goto, UpStage
<1>1. CASE \/ InstallBegins \/ InstallFails \/ BackupDatabase \/ HandOffRequest
           \/ ConsumeRequest \/ InstallRejected \/ ReleaseRejected \/ FinalizeBackup \/ FinalizeDone
  BY <1>1, Stutters DEF InstallBegins, InstallFails, BackupDatabase, HandOffRequest,
          ConsumeRequest, InstallRejected, ReleaseRejected, FinalizeBackup, FinalizeDone, Current, VersionAt
<1>2. CASE \E v \in Version : WriteUpdateRequest(v)
  BY <1>2, Stutters DEF WriteUpdateRequest, Current, VersionAt
<1>3. CASE ExitForUpdate
  <2>1. Transacted!Stop
    BY <1>3 DEF ExitForUpdate, fileVars, Transacted!Stop, Current, VersionAt
  <2> QED
    BY <2>1 DEF Transacted!Next
<1>4. CASE ApplyUpdate
  <2>1. /\ journal = None /\ journal' = tx /\ tx \in Transaction /\ tx.to \in Version
        /\ ~tx.completed /\ tx.from = Current /\ Current # 0
        /\ \A v \in db.by : v <= Current
    BY <1>4, FieldsTyped, VersionAssumption DEF ApplyUpdate, TypeOK, HandInv, TransactionInv,
            DataInv, UpTo
  <2>2. JournalOf(tx) = [from |-> Current, to |-> tx.to, fate |-> "open"]
    BY <2>1, JournalsAreOpen
  <2>3. Transacted!Begin
    BY <1>4, <2>1, <2>2 DEF ApplyUpdate, Transacted!Begin, Current, VersionAt
  <2> QED
    BY <2>3 DEF Transacted!Next
<1>5. CASE ApplyLink
  <2>1. /\ journal = tx /\ journal' = journal /\ tx \in Transaction /\ db' = db
        /\ stage \notin UpStage /\ stage' \notin UpStage /\ Current' = Goal(tx)
    BY <1>5 DEF ApplyLink, TypeOK, HandInv, TransactionInv, Current, VersionAt
  <2>2. Transacted!Switch
    BY <2>1, JournalInHand, JournalsAreOpen DEF Transacted!Switch, Goal
  <2> QED
    BY <2>2 DEF Transacted!Next
<1>6. CASE ApplyFails
  <2>1. /\ journal = tx /\ journal' = None /\ tx \in Transaction /\ ~tx.completed
        /\ Current = tx.from /\ Current' = Current /\ db' = db
        /\ stage = "journaled" /\ stage' = "unapplied" /\ \A v \in db.by : v <= Current
    BY <1>6 DEF ApplyFails, TypeOK, HandInv, LinkInv, TransactionInv, DataInv, UpTo, Current,
            VersionAt
  <2>2. Transacted!Open /\ JournalOf(journal') = Transacted!NoTxn
    BY <2>1, JournalsAreOpen DEF Transacted!Open, Transacted!NoTxn, JournalOf
  <2>3. Current = Transacted!Outcome(JournalOf(journal), JournalOf(journal).fate)
    BY <2>1, JournalsAreOpen DEF Transacted!Outcome
  <2>4. Transacted!Close
    BY <2>1, <2>2, <2>3 DEF Transacted!Close
  <2> QED
    BY <2>4 DEF Transacted!Next
<1> QED
  BY <1>1, <1>2, <1>3, <1>4, <1>5, <1>6 DEF InstallStep

LEMMA ContainerRefines ==
  ASSUME IInv, \/ Stop \/ LockRemoved
               \/ \E i \in Image : ImageChanges(i)
               \/ UNCHANGED vars
  PROVE  Transacted!Next \/ UNCHANGED Transacted!absVars
<1> USE DEF IInv, UpStage
<1>1. CASE Stop
  <2>1. CASE stage \in UpStage
    <3>1. Transacted!Stop
      BY <1>1, <2>1 DEF Stop, Down, fileVars, Transacted!Stop, Current, VersionAt
    <3> QED
      BY <3>1 DEF Transacted!Next
  <2>2. CASE stage \notin UpStage
    BY <1>1, <2>2, Stutters DEF Stop, Down, fileVars, Current, VersionAt
  <2> QED
    BY <2>1, <2>2
<1>2. CASE LockRemoved \/ UNCHANGED vars
  BY <1>2, Stutters DEF LockRemoved, vars, fileVars, Current, VersionAt
<1>3. CASE \E i \in Image : ImageChanges(i)
  <2> PICK i \in Image : ImageChanges(i)
    BY <1>3
  <2>1. /\ db' = db /\ journal' = journal /\ stage = "down" /\ stage' = "down"
        /\ Current' = Current \/ (Current = image.builtin /\ Current' = i.builtin)
    BY DEF ImageChanges, Current, VersionAt
  <2>2. i.builtin \in Version /\ i.builtin >= image.builtin /\ image.builtin \in Version
    BY ImageAssumption, VersionsTyped DEF ImageChanges
  <2>3. CASE Current' = Current
    BY <2>1, <2>3, Stutters
  <2>4. CASE Current' # Current
    <3>1. Current' = i.builtin /\ Current = image.builtin /\ Current' # Current
      BY <2>1, <2>4
    <3>2. i.builtin > image.builtin
      <4>1. i.builtin \in Nat /\ image.builtin \in Nat
        BY <2>2, VersionAssumption
      <4>2. i.builtin # image.builtin
        BY <3>1
      <4> QED
        BY <2>2, <4>1, <4>2
    <3>3. Transacted!Exchange
      BY <2>1, <2>2, <3>1, <3>2 DEF Transacted!Exchange
    <3> QED
      BY <3>3 DEF Transacted!Next
  <2> QED
    BY <2>3, <2>4
<1> QED
  BY <1>1, <1>2, <1>3

\* The launcher implements UpdateTransaction: only under a journal do program and
\* database change, and the journal goes only when what it decided runs next
\* (applyUpdate, preparePending, rollback and completePending of main.go).
THEOREM Implements == Spec => ImplementsTransaction
<1>1. IInv /\ [Next]_vars => [Transacted!Next]_Transacted!absVars
  BY StartRefines, RunRefines, InstallRefines, ContainerRefines DEF Next
<1> QED
  BY <1>1, InitRefines, Invariance, PTL DEF Spec, ImplementsTransaction, Transacted!Spec

\* What an update transaction keeps: the versions in hand can be compared, and
\* whoever serves has all of itself and no data of a newer one.
Readable ==
    /\ Current \in Version \cup {0}
    /\ Transacted!Open =>
          JournalOf(journal).from \in Version \cup {0} /\ JournalOf(journal).to \in Version \cup {0}
    /\ stage \in UpStage => Current # 0 /\ \A v \in db.by : v <= Current

LEMMA TransactionsReadable ==
  ASSUME Readable, [Transacted!Next]_Transacted!absVars
  PROVE  Readable'
<1> USE DEF Readable, Transacted!Open
<1>1. CASE Transacted!Serve
  BY <1>1, VersionAssumption DEF Transacted!Serve
<1>2. CASE Transacted!Stop
  BY <1>2 DEF Transacted!Stop
<1>3. CASE Transacted!Begin
  <2>1. PICK to \in Version : JournalOf(journal)' = [from |-> Current, to |-> to, fate |-> "open"]
    BY <1>3 DEF Transacted!Begin
  <2> QED
    BY <1>3, <2>1 DEF Transacted!Begin
<1>4. CASE Transacted!Switch
  BY <1>4 DEF Transacted!Switch, Transacted!InHand
<1>5. CASE Transacted!Restore
  BY <1>5 DEF Transacted!Restore, Transacted!InHand
<1>6. CASE Transacted!Decide
  <2>1. /\ JournalOf(journal)'.from = JournalOf(journal).from
        /\ JournalOf(journal)'.to = JournalOf(journal).to
    BY <1>6 DEF Transacted!Decide
  <2> QED
    BY <1>6, <2>1 DEF Transacted!Decide
<1>7. CASE Transacted!Reopen
  <2>1. /\ JournalOf(journal)'.from = JournalOf(journal).from
        /\ JournalOf(journal)'.to = JournalOf(journal).to
    BY <1>7 DEF Transacted!Reopen
  <2> QED
    BY <1>7, <2>1 DEF Transacted!Reopen
<1>8. CASE Transacted!Close
  BY <1>8 DEF Transacted!Close
<1>9. CASE Transacted!Exchange
  BY <1>9 DEF Transacted!Exchange
<1>10. CASE UNCHANGED Transacted!absVars
  BY <1>10 DEF Transacted!absVars
<1> QED
  BY <1>1, <1>2, <1>3, <1>4, <1>5, <1>6, <1>7, <1>8, <1>9, <1>10 DEF Transacted!Next

\* Whoever implements UpdateTransaction never serves on data that a newer version
\* has written (the rollback of main.go:194 puts the old database back).
LEMMA ReadableData ==
  Transacted!Spec => [](stage \in UpStage => \A v \in db.by : v <= Current)
<1>1. Transacted!Init => Readable
  BY DEF Transacted!Init, Readable, Transacted!Open
<1>2. Readable /\ [Transacted!Next]_Transacted!absVars => Readable'
  BY TransactionsReadable
<1>3. Readable => (stage \in UpStage => \A v \in db.by : v <= Current)
  BY DEF Readable
<1> QED
  BY <1>1, <1>2, <1>3, PTL DEF Transacted!Spec

\* The launcher implements it, so that no program that it starts serves on a
\* database that a newer one has opened.
THEOREM ServesReadableData ==
  Spec => [](stage \in UpStage => \A v \in db.by : v <= Current)
BY Implements, ReadableData, PTL DEF ImplementsTransaction
===============================================================================
