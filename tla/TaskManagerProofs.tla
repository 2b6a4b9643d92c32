------------------------- MODULE TaskManagerProofs -------------------------
(***************************************************************************)
(* Theorems about TaskManager for every set of accounts and task types and *)
(* every bound: type correctness, the four safety invariants and the       *)
(* action property, from one inductive invariant.                          *)
(***************************************************************************)
EXTENDS TaskManager, TLAPS

\* active is exactly the set of runs between the second critical section and
\* the final delete.
ActiveInv == \A r \in RunId : r \in active <=> pc[r] \in InActive

\* A call or goroutine knows what it was asked for; a call that has written
\* its row still holds its reservation, and no two rows belong to one call.
CallInv ==
    /\ \A r \in RunId : pc[r] \in InActive \cup CallStage => run[r] \in Call
    /\ \A r \in RunId : pc[r] = "added" => run[r] \in starting
    /\ \A r, s \in RunId :
          pc[r] = "added" /\ pc[s] = "added" /\ run[r] = run[s] => r = s

\* A key is held once: by a reservation or by an active run.
KeyInv ==
    /\ \A c, d \in starting : SameKey(c, d) => c = d
    /\ \A c \in starting, r \in active : ~SameKey(c, run[r])
    /\ \A r, s \in active : SameKey(run[r], run[s]) => r = s

\* The row tells how far its run has come.
RowInv ==
    \A r \in RunId :
        /\ pc[r] = "idle" <=> row[r] = "none"
        /\ pc[r] \in {"added", "refused", "entered", "dropped", "launched"}
              => row[r] = "queued"
        /\ pc[r] \in GoStage \ {"launched", "recorded"} => row[r] = "running"
        /\ pc[r] \in {"recorded", "done"} /\ Alive => row[r] \notin LiveRow
        /\ pc[r] \in {"chaining", "joining", "ending"} => verdict[r] \in Verdict
        /\ pc[r] = "waiting" => attempt[r] < MaxAttempts

\* The flag follows the installation, which has seen what it waits for.
MaintenanceInv ==
    /\ maintenance <=> prep \in MaintenanceStage
    /\ prep \in {"clear", "prepared"} \cup HandedOff => starting = {} /\ active = {}
    /\ prep \in {"prepared"} \cup HandedOff => ~PendingRedeem

\* A process that is down runs no call and no goroutine.  (Kept apart from
\* IInv: its proof looks at the guards only.)
DownInv ==
    ~Alive => starting = {} /\ \A r \in RunId : pc[r] \in {"idle", "done"}

IInv == /\ TypeOK
        /\ ActiveInv
        /\ CallInv
        /\ KeyInv
        /\ RowInv
        /\ MaintenanceInv
        /\ ClosedIsQuiet

----------------------------------------------------------------------------
(* Lemmas about the stages                                                  *)

USE DEF HandedOff

\* The initial states satisfy the inductive invariant.
LEMMA InitInv == Init => IInv
<1> SUFFICES ASSUME Init PROVE IInv
  OBVIOUS
<1>1. TypeOK
  <2>1. MaxAttempts \in Nat \ {0} /\ 0 \in 0..MaxAttempts
    BY MaxAttemptsAssumption
  <2>2. attempt \in [RunId -> 0..MaxAttempts]
    BY <2>1 DEF Init
  <2>3. pc \in [RunId -> RunStage] /\ row \in [RunId -> RowStatus]
    BY DEF Init, RunStage, RowStatus
  <2> QED
    BY <2>2, <2>3 DEF Init, TypeOK, Life, PrepStage, MaintenanceStage
<1>2. ActiveInv /\ CallInv /\ KeyInv /\ ClosedIsQuiet
  BY DEF Init, ActiveInv, CallInv, KeyInv, ClosedIsQuiet, InActive, CallStage, GoStage
<1>3. RowInv
  BY DEF Init, RowInv, GoStage
<1>4. MaintenanceInv
  BY DEF Init, MaintenanceInv, MaintenanceStage
<1> QED
  BY <1>1, <1>2, <1>3, <1>4 DEF IInv

\* A run that moves from one active stage to another disturbs neither active
\* nor the keys.
LEMMA StageMove ==
  ASSUME IInv, NEW r \in RunId, pc[r] \in InActive,
         NEW stage \in InActive, SetStage(r, stage),
         UNCHANGED <<active, starting, run>>
  PROVE  ActiveInv' /\ CallInv' /\ KeyInv'
<1> USE DEF IInv, SetStage
<1>1. pc' = [pc EXCEPT ![r] = stage] /\ pc \in [RunId -> RunStage]
  BY DEF TypeOK
<1>2. ActiveInv'
  BY <1>1 DEF ActiveInv
<1>3. CallInv'
  BY <1>1 DEF CallInv, InActive, GoStage, CallStage
<1>4. KeyInv'
  BY DEF KeyInv, SameKey
<1> QED
  BY <1>2, <1>3, <1>4

\* A goroutine that moves on to another stage and touches neither the manager,
\* the installation nor an order disturbs only its own row and locals.
LEMMA GoMove ==
  ASSUME IInv, NEW r \in RunId, pc[r] \in GoStage,
         NEW stage \in GoStage, SetStage(r, stage),
         UNCHANGED <<life, maintenance, starting, active, run, prep, order>>
  PROVE  ActiveInv' /\ CallInv' /\ KeyInv' /\ MaintenanceInv' /\ ClosedIsQuiet'
<1>1. pc[r] \in InActive /\ stage \in InActive
  BY DEF InActive
<1>2. ActiveInv' /\ CallInv' /\ KeyInv'
  BY <1>1, StageMove
<1>3. MaintenanceInv'
  BY DEF IInv, MaintenanceInv, PendingRedeem
<1>4. life # "closed"
  BY DEF IInv, ClosedIsQuiet
<1>5. ClosedIsQuiet'
  BY <1>4 DEF ClosedIsQuiet
<1> QED
  BY <1>2, <1>3, <1>5

\* While a run is active, the installation has not come past its snapshot.
LEMMA ActiveBlocksInstall ==
  ASSUME IInv, NEW r \in RunId, pc[r] \in InActive
  PROVE  r \in active /\ prep \notin {"clear", "prepared"} \cup HandedOff
BY DEF IInv, ActiveInv, MaintenanceInv

\* What Finish does to the stage and the verdict of a running goroutine.
LEMMA FinishMove ==
  ASSUME TypeOK, NEW r \in RunId, NEW v \in Verdict, Finish(r, v)
  PROVE  /\ \E stage \in {"chaining", "ending"} : SetStage(r, stage)
         /\ pc' \in [RunId -> RunStage]
         /\ pc'[r] \in {"chaining", "ending"}
         /\ \A s \in RunId \ {r} : pc'[s] = pc[s]
         /\ verdict' \in [RunId -> Verdict \cup {"none"}]
         /\ verdict'[r] = v
         /\ \A s \in RunId \ {r} : verdict'[s] = verdict[s]
<1>1. pc \in [RunId -> RunStage] /\ verdict \in [RunId -> Verdict \cup {"none"}]
  BY DEF TypeOK
<1>2. PICK stage \in {"chaining", "ending"} : SetStage(r, stage)
  BY DEF Finish
<1>3. stage \in RunStage
  BY DEF RunStage, GoStage
<1>4. pc' = [pc EXCEPT ![r] = stage]
  BY <1>2 DEF SetStage
<1>5. verdict' = [verdict EXCEPT ![r] = v]
  BY DEF Finish
<1>6. /\ pc' \in [RunId -> RunStage]
      /\ pc'[r] = stage
      /\ \A s \in RunId \ {r} : pc'[s] = pc[s]
  BY <1>1, <1>3, <1>4
<1>7. /\ verdict' \in [RunId -> Verdict \cup {"none"}]
      /\ verdict'[r] = v
      /\ \A s \in RunId \ {r} : verdict'[s] = verdict[s]
  BY <1>1, <1>5
<1> QED
  BY <1>2, <1>6, <1>7

\* Every way a running or waiting goroutine comes to its verdict.
LEMMA FinishInv ==
  ASSUME IInv, NEW r \in RunId, NEW v \in Verdict, Finish(r, v),
         pc[r] \in GoStage \ {"launched", "recorded"},
         UNCHANGED <<life, scheduling, managerVars, run, attempt, prep, accounts, row, order>>
  PROVE  IInv'
<1>1. TypeOK /\ RowInv
  BY DEF IInv
<1>2. PICK stage \in {"chaining", "ending"} : SetStage(r, stage)
  BY <1>1, FinishMove
<1>3. ActiveInv' /\ CallInv' /\ KeyInv' /\ MaintenanceInv' /\ ClosedIsQuiet'
  <2>1. stage \in GoStage /\ pc[r] \in GoStage
    BY DEF GoStage
  <2> QED
    BY <1>2, <2>1, GoMove DEF managerVars
<1>4. TypeOK'
  <2>1. pc' \in [RunId -> RunStage] /\ verdict' \in [RunId -> Verdict \cup {"none"}]
    BY <1>1, FinishMove
  <2> QED
    BY <1>1, <2>1 DEF TypeOK, managerVars
<1>5. RowInv'
  <2> DEFINE Same(s) == pc'[s] = pc[s] /\ verdict'[s] = verdict[s]
  <2>1. pc'[r] \in {"chaining", "ending"} /\ verdict'[r] \in Verdict
    BY <1>1, FinishMove
  <2>2. \A s \in RunId \ {r} : Same(s)
    BY <1>1, FinishMove
  <2>3. row[r] = "running"
    BY <1>1 DEF RowInv
  <2>4. life' = life /\ row' = row /\ attempt' = attempt
    OBVIOUS
  <2> QED
    BY <1>1, <2>1, <2>2, <2>3, <2>4 DEF RowInv, GoStage, LiveRow, Alive
<1> QED
  BY <1>3, <1>4, <1>5 DEF IInv

----------------------------------------------------------------------------
(* The run goroutine                                                        *)

LEMMA BeginRunInv ==
  ASSUME IInv, NEW r \in RunId, BeginRun(r)
  PROVE  IInv'
<1>1. TypeOK /\ RowInv
  BY DEF IInv
<1>2. pc[r] = "launched" /\ row' = [row EXCEPT ![r] = "running"] /\ row[r] = "queued"
  BY <1>1 DEF BeginRun, RowInv
<1>3. row' \in [RunId -> RowStatus] /\ row'[r] = "running"
      /\ \A s \in RunId \ {r} : row'[s] = row[s]
  BY <1>1, <1>2 DEF TypeOK, RowStatus, LiveRow
<1>4. UNCHANGED <<life, scheduling, maintenance, starting, active, stopped, run, prep,
                  accounts, order>>
  BY DEF BeginRun, lifeVars, managerVars
<1>5. CASE run[r].account \in accounts
  <2>1. SetStage(r, "running") /\ UNCHANGED verdict
        /\ attempt' = [attempt EXCEPT ![r] = 1]
    BY <1>5 DEF BeginRun
  <2>2. ActiveInv' /\ CallInv' /\ KeyInv' /\ MaintenanceInv' /\ ClosedIsQuiet'
    <3>1. pc[r] \in GoStage /\ "running" \in GoStage
      BY <1>2 DEF GoStage
    <3> QED
      BY <1>4, <2>1, <3>1, GoMove
  <2>3. 1 \in 0..MaxAttempts
    BY MaxAttemptsAssumption
  <2>4. attempt' \in [RunId -> 0..MaxAttempts] /\ \A s \in RunId \ {r} : attempt'[s] = attempt[s]
    BY <1>1, <2>1, <2>3 DEF TypeOK
  <2>5. pc' \in [RunId -> RunStage] /\ pc'[r] = "running"
        /\ \A s \in RunId \ {r} : pc'[s] = pc[s]
    BY <1>1, <2>1 DEF TypeOK, SetStage, RunStage, GoStage
  <2>6. TypeOK'
    BY <1>1, <1>3, <1>4, <2>1, <2>4, <2>5 DEF TypeOK
  <2>7. RowInv'
    BY <1>1, <1>3, <1>4, <2>1, <2>4, <2>5 DEF RowInv, GoStage, LiveRow, Alive
  <2> QED
    BY <2>2, <2>6, <2>7 DEF IInv
<1>6. CASE run[r].account \notin accounts
  <2>1. Finish(r, "failed") /\ UNCHANGED attempt /\ "failed" \in Verdict
    BY <1>6 DEF BeginRun, Verdict
  <2>2. PICK stage \in {"chaining", "ending"} : SetStage(r, stage)
    BY <1>1, <2>1, FinishMove
  <2>3. ActiveInv' /\ CallInv' /\ KeyInv' /\ MaintenanceInv' /\ ClosedIsQuiet'
    <3>1. pc[r] \in GoStage /\ stage \in GoStage
      BY <1>2 DEF GoStage
    <3> QED
      BY <1>4, <2>2, <3>1, GoMove
  <2>4. pc' \in [RunId -> RunStage] /\ verdict' \in [RunId -> Verdict \cup {"none"}]
    BY <1>1, <2>1, FinishMove
  <2>5. pc'[r] \in {"chaining", "ending"} /\ verdict'[r] \in Verdict
    BY <1>1, <2>1, FinishMove
  <2>6. \A s \in RunId \ {r} : pc'[s] = pc[s] /\ verdict'[s] = verdict[s]
    BY <1>1, <2>1, FinishMove
  <2>7. TypeOK'
    BY <1>1, <1>3, <1>4, <2>1, <2>4 DEF TypeOK
  <2>8. RowInv'
    BY <1>1, <1>3, <1>4, <2>1, <2>5, <2>6 DEF RowInv, GoStage, LiveRow, Alive
  <2> QED
    BY <2>3, <2>7, <2>8 DEF IInv
<1> QED
  BY <1>5, <1>6

\* The stage changes, nothing else does.
LEMMA StageOnlyInv ==
  ASSUME IInv, NEW r \in RunId, pc[r] \in GoStage \ {"launched", "recorded"},
         NEW stage \in GoStage \ {"launched", "recorded"}, SetStage(r, stage),
         stage \in {"chaining", "joining", "ending"} => verdict[r] \in Verdict,
         stage = "waiting" => attempt[r] < MaxAttempts,
         UNCHANGED <<life, scheduling, maintenance, active, starting, stopped, run, attempt,
                     verdict, prep, accounts, row, order>>
  PROVE  IInv'
<1>1. TypeOK /\ RowInv
  BY DEF IInv
<1>2. ActiveInv' /\ CallInv' /\ KeyInv' /\ MaintenanceInv' /\ ClosedIsQuiet'
  BY GoMove
<1>3. pc' \in [RunId -> RunStage] /\ pc'[r] = stage
      /\ \A s \in RunId \ {r} : pc'[s] = pc[s]
  BY <1>1 DEF TypeOK, SetStage, RunStage
<1>4. TypeOK'
  BY <1>1, <1>3 DEF TypeOK
<1>5. RowInv'
  <2>1. row[r] = "running"
    BY <1>1 DEF RowInv
  <2> QED
    BY <1>1, <1>3, <2>1 DEF RowInv, GoStage, LiveRow, Alive
<1> QED
  BY <1>2, <1>4, <1>5 DEF IInv

LEMMA AttemptFailsInv ==
  ASSUME IInv, NEW r \in RunId, AttemptFails(r)
  PROVE  IInv'
<1>1. UNCHANGED <<life, scheduling, managerVars, run, attempt, prep, accounts, row, order>>
  BY DEF AttemptFails, lifeVars, dbVars
<1>2. pc[r] = "running" /\ pc[r] \in GoStage \ {"launched", "recorded"}
  BY DEF AttemptFails, GoStage
<1>3. CASE attempt[r] < Attempts(run[r])
  <2>1. SetStage(r, "waiting") /\ UNCHANGED verdict
    BY <1>3 DEF AttemptFails
  <2>2. attempt[r] \in Nat
    BY DEF IInv, TypeOK
  <2>3. attempt[r] < MaxAttempts
    BY <1>3, <2>2, MaxAttemptsAssumption DEF Attempts
  <2>4. "waiting" \in GoStage \ {"launched", "recorded"}
    BY DEF GoStage
  <2> QED
    BY <1>1, <1>2, <2>1, <2>3, <2>4, StageOnlyInv DEF managerVars
<1>4. CASE ~(attempt[r] < Attempts(run[r]))
  <2>1. Finish(r, "failed") /\ "failed" \in Verdict
    BY <1>4 DEF AttemptFails, Verdict
  <2> QED
    BY <1>1, <1>2, <2>1, FinishInv
<1> QED
  BY <1>3, <1>4

\* The three ways an attempt ends with a verdict.
LEMMA AttemptEndsInv ==
  ASSUME IInv, NEW r \in RunId,
         AttemptSucceeds(r) \/ AttemptCancelled(r) \/ WaitCancelled(r)
  PROVE  IInv'
<1>1. UNCHANGED <<life, scheduling, managerVars, run, attempt, prep, accounts, row, order>>
  BY DEF AttemptSucceeds, AttemptCancelled, WaitCancelled, lifeVars, dbVars
<1>2. pc[r] \in GoStage \ {"launched", "recorded"}
  BY DEF AttemptSucceeds, AttemptCancelled, WaitCancelled, GoStage
<1>3. \E v \in Verdict : Finish(r, v)
  BY DEF AttemptSucceeds, AttemptCancelled, WaitCancelled, Verdict
<1> QED
  BY <1>1, <1>2, <1>3, FinishInv

LEMMA WaitOverInv ==
  ASSUME IInv, NEW r \in RunId, WaitOver(r)
  PROVE  IInv'
<1>1. TypeOK /\ RowInv /\ pc[r] = "waiting"
  BY DEF IInv, WaitOver
<1>2. UNCHANGED <<life, scheduling, maintenance, starting, active, stopped, run, prep,
                  accounts, row, order>>
  BY DEF WaitOver, lifeVars, managerVars, dbVars
<1>3. CASE Finish(r, "success") /\ UNCHANGED attempt
  <2>1. "success" \in Verdict /\ pc[r] \in GoStage \ {"launched", "recorded"}
    BY <1>1 DEF Verdict, GoStage
  <2> QED
    BY <1>2, <1>3, <2>1, FinishInv DEF managerVars
<1>4. CASE SetStage(r, "running") /\ attempt' = [attempt EXCEPT ![r] = @ + 1]
           /\ UNCHANGED verdict
  <2>1. ActiveInv' /\ CallInv' /\ KeyInv' /\ MaintenanceInv' /\ ClosedIsQuiet'
    <3>1. pc[r] \in GoStage /\ "running" \in GoStage
      BY <1>1 DEF GoStage
    <3> QED
      BY <1>2, <1>4, <3>1, GoMove
  <2>2. attempt[r] \in Nat /\ attempt[r] < MaxAttempts /\ row[r] = "running"
    BY <1>1 DEF TypeOK, RowInv, GoStage
  <2>3. attempt[r] + 1 \in 0..MaxAttempts
    BY <2>2, MaxAttemptsAssumption
  <2>4. attempt' \in [RunId -> 0..MaxAttempts] /\ \A s \in RunId \ {r} : attempt'[s] = attempt[s]
    BY <1>1, <1>4, <2>3 DEF TypeOK
  <2>5. pc' \in [RunId -> RunStage] /\ pc'[r] = "running"
        /\ \A s \in RunId \ {r} : pc'[s] = pc[s]
    BY <1>1, <1>4 DEF TypeOK, SetStage, RunStage, GoStage
  <2>6. TypeOK'
    BY <1>1, <1>2, <1>4, <2>4, <2>5 DEF TypeOK
  <2>7. RowInv'
    BY <1>1, <1>2, <1>4, <2>2, <2>4, <2>5 DEF RowInv, GoStage, LiveRow, Alive
  <2> QED
    BY <2>1, <2>6, <2>7 DEF IInv
<1> QED
  BY <1>3, <1>4 DEF WaitOver

\* Submitting or settling an order moves the goroutine and writes the order
\* of its account; an active run keeps the installation from having looked.
LEMMA OrderStepInv ==
  ASSUME IInv, NEW r \in RunId,
         SubmitOrder(r) \/ OrderAnswered(r) \/ OrderUnknown(r)
  PROVE  IInv'
<1>1. TypeOK /\ RowInv
  BY DEF IInv
<1>2. pc[r] \in GoStage \ {"launched", "recorded"} /\ row[r] = "running"
  BY <1>1 DEF SubmitOrder, OrderAnswered, OrderUnknown, GoStage, RowInv
<1>3. UNCHANGED <<life, scheduling, maintenance, starting, active, stopped, run, attempt,
                  prep, accounts, row>>
  BY DEF SubmitOrder, OrderAnswered, OrderUnknown, lifeVars, managerVars
<1>4. order' \in [Account -> {"none", "pending", "settled"}]
  BY <1>1 DEF SubmitOrder, OrderAnswered, OrderUnknown, SettleOrder, TypeOK
<1>5. /\ \E stage \in GoStage : SetStage(r, stage)
      /\ pc' \in [RunId -> RunStage]
      /\ pc'[r] \in GoStage \ {"launched", "recorded", "waiting"}
      /\ \A s \in RunId \ {r} : pc'[s] = pc[s] /\ verdict'[s] = verdict[s]
      /\ verdict' \in [RunId -> Verdict \cup {"none"}]
      /\ pc'[r] \in {"chaining", "joining", "ending"} => verdict'[r] \in Verdict
  <2>1. CASE SubmitOrder(r)
    <3>1. SetStage(r, "ordering") /\ UNCHANGED verdict
      BY <2>1 DEF SubmitOrder
    <3> QED
      BY <1>1, <3>1 DEF TypeOK, SetStage, RunStage, GoStage
  <2>2. CASE OrderAnswered(r) \/ OrderUnknown(r)
    <3>1. PICK v \in Verdict : Finish(r, v)
      BY <2>2 DEF OrderAnswered, OrderUnknown, Verdict
    <3> QED
      BY <1>1, <3>1, FinishMove DEF GoStage
  <2> QED
    BY <2>1, <2>2
<1>6. ActiveInv' /\ CallInv' /\ KeyInv'
  <2>1. PICK stage \in GoStage : SetStage(r, stage)
    BY <1>5
  <2> QED
    BY <1>2, <1>3, <2>1, StageMove DEF InActive
<1>7. MaintenanceInv' /\ ClosedIsQuiet'
  <2>1. prep \notin {"clear", "prepared"} \cup HandedOff
    BY <1>2, ActiveBlocksInstall DEF InActive
  <2>2. life # "closed"
    BY <1>2 DEF IInv, ClosedIsQuiet
  <2> QED
    BY <1>3, <2>1, <2>2 DEF IInv, MaintenanceInv, ClosedIsQuiet
<1>8. TypeOK'
  BY <1>1, <1>3, <1>4, <1>5 DEF TypeOK
<1>9. RowInv'
  BY <1>1, <1>2, <1>3, <1>5 DEF RowInv, GoStage, LiveRow, Alive
<1> QED
  BY <1>6, <1>7, <1>8, <1>9 DEF IInv

\* A call that may reserve its key keeps the keys apart and finds the
\* installation outside maintenance.
LEMMA ReserveInv ==
  ASSUME IInv, NEW c \in Call, Reserve(c),
         UNCHANGED <<maintenance, active, run, prep, order>>
  PROVE  starting' \subseteq Call /\ KeyInv' /\ MaintenanceInv'
<1>1. /\ ~maintenance
      /\ \A d \in starting : ~SameKey(c, d)
      /\ \A r \in active : ~SameKey(c, run[r])
      /\ starting' = starting \cup {c}
  BY DEF Reserve, MayReserve
<1>2. starting' \subseteq Call
  BY <1>1 DEF IInv, TypeOK
<1>3. KeyInv'
  BY <1>1 DEF IInv, KeyInv, SameKey
<1>4. MaintenanceInv'
  BY <1>1 DEF IInv, MaintenanceInv, MaintenanceStage, PendingRedeem
<1> QED
  BY <1>2, <1>3, <1>4

LEMMA ChainRedeemInv ==
  ASSUME IInv, NEW r \in RunId, ChainRedeem(r)
  PROVE  IInv'
<1> DEFINE c == [account |-> run[r].account, typ |-> "redeem", trigger |-> "after_pc",
                 parent |-> r]
<1>1. TypeOK /\ RowInv /\ pc[r] = "chaining"
  BY DEF IInv, ChainRedeem
<1>2. UNCHANGED <<life, scheduling, maintenance, active, stopped, run, attempt, verdict,
                  prep, accounts, row, order>>
  BY DEF ChainRedeem, lifeVars, dbVars
<1>3. Reserve(c) /\ SetStage(r, "joining") /\ "redeem" \in TaskType
  BY DEF ChainRedeem
<1>4. c \in Call
  <2>1. run[r] \in Call
    BY <1>1 DEF IInv, CallInv, InActive, GoStage
  <2>2. run[r].account \in Account
    BY <2>1 DEF Call
  <2>3. r \in 0..MaxRuns
    BY MaxRunsAssumption DEF RunId
  <2> QED
    BY <1>3, <2>2, <2>3 DEF Call, Trigger
<1> HIDE DEF c
<1>5. starting' \subseteq Call /\ KeyInv' /\ MaintenanceInv'
  BY <1>2, <1>3, <1>4, ReserveInv
<1>6. starting' = starting \cup {c}
  BY <1>3 DEF Reserve
<1>7. pc' \in [RunId -> RunStage] /\ pc'[r] = "joining"
      /\ \A s \in RunId \ {r} : pc'[s] = pc[s]
  BY <1>1, <1>3 DEF TypeOK, SetStage, RunStage, GoStage
<1>8. TypeOK'
  BY <1>1, <1>2, <1>5, <1>7 DEF TypeOK
<1>9. ActiveInv' /\ CallInv'
  BY <1>1, <1>2, <1>6, <1>7 DEF IInv, ActiveInv, CallInv, InActive, GoStage, CallStage
<1>10. RowInv'
  <2>1. row[r] = "running" /\ verdict[r] \in Verdict
    BY <1>1 DEF RowInv, GoStage
  <2> QED
    BY <1>1, <1>2, <1>7, <2>1 DEF RowInv, GoStage, LiveRow, Alive
<1>11. ClosedIsQuiet'
  <2>1. life # "closed"
    BY <1>1 DEF IInv, ClosedIsQuiet, GoStage
  <2> QED
    BY <1>2, <2>1 DEF ClosedIsQuiet
<1> QED
  BY <1>5, <1>8, <1>9, <1>10, <1>11 DEF IInv

LEMMA ChainEndInv ==
  ASSUME IInv, NEW r \in RunId, ChainSkip(r) \/ ChainReturn(r)
  PROVE  IInv'
<1>1. pc[r] \in {"chaining", "joining"} /\ SetStage(r, "ending")
  BY DEF ChainSkip, ChainReturn
<1>2. verdict[r] \in Verdict
  BY <1>1 DEF IInv, RowInv
<1>3. UNCHANGED <<life, scheduling, maintenance, active, starting, stopped, run, attempt,
                  verdict, prep, accounts, row, order>>
  BY DEF ChainSkip, ChainReturn, lifeVars, managerVars, dbVars
<1>4. pc[r] \in GoStage \ {"launched", "recorded"} /\ "ending" \in GoStage
  BY <1>1 DEF GoStage
<1> QED
  BY <1>1, <1>2, <1>3, <1>4, StageOnlyInv

LEMMA RecordVerdictInv ==
  ASSUME IInv, NEW r \in RunId, RecordVerdict(r)
  PROVE  IInv'
<1>1. TypeOK /\ RowInv /\ pc[r] = "ending" /\ SetStage(r, "recorded")
      /\ row' = [row EXCEPT ![r] = verdict[r]]
  BY DEF IInv, RecordVerdict
<1>2. UNCHANGED <<life, scheduling, maintenance, active, starting, stopped, run, attempt,
                  verdict, prep, accounts, order>>
  BY DEF RecordVerdict, lifeVars, managerVars
<1>3. ActiveInv' /\ CallInv' /\ KeyInv' /\ MaintenanceInv' /\ ClosedIsQuiet'
  <2>1. pc[r] \in GoStage /\ "recorded" \in GoStage
    BY <1>1 DEF GoStage
  <2> QED
    BY <1>1, <1>2, <2>1, GoMove
<1>4. verdict[r] \in Verdict
  BY <1>1 DEF RowInv
<1>5. row' \in [RunId -> RowStatus] /\ row'[r] \in Verdict
      /\ \A s \in RunId \ {r} : row'[s] = row[s]
  BY <1>1, <1>4 DEF TypeOK, RowStatus
<1>6. pc' \in [RunId -> RunStage] /\ pc'[r] = "recorded"
      /\ \A s \in RunId \ {r} : pc'[s] = pc[s]
  BY <1>1 DEF TypeOK, SetStage, RunStage, GoStage
<1>7. TypeOK'
  BY <1>1, <1>2, <1>5, <1>6 DEF TypeOK
<1>8. RowInv'
  BY <1>1, <1>2, <1>5, <1>6 DEF RowInv, GoStage, LiveRow, Verdict, Alive
<1> QED
  BY <1>3, <1>7, <1>8 DEF IInv

\* What a return leaves of a run.
LEMMA ReturnMove ==
  ASSUME TypeOK, NEW r \in RunId, Return(r)
  PROVE  /\ pc' \in [RunId -> RunStage] /\ run' \in [RunId -> Call \cup {NoCall}]
         /\ attempt' \in [RunId -> 0..MaxAttempts]
         /\ verdict' \in [RunId -> Verdict \cup {"none"}]
         /\ stopped' \subseteq RunId
         /\ pc'[r] = "done"
         /\ \A s \in RunId \ {r} : /\ pc'[s] = pc[s] /\ run'[s] = run[s]
                                   /\ attempt'[s] = attempt[s] /\ verdict'[s] = verdict[s]
<1>1. /\ pc' = [pc EXCEPT ![r] = "done"] /\ run' = [run EXCEPT ![r] = NoCall]
      /\ attempt' = [attempt EXCEPT ![r] = 0] /\ verdict' = [verdict EXCEPT ![r] = "none"]
      /\ stopped' = stopped \ {r}
  BY DEF Return, SetStage
<1>2. pc' \in [RunId -> RunStage] /\ pc'[r] = "done" /\ \A s \in RunId \ {r} : pc'[s] = pc[s]
  BY <1>1 DEF TypeOK, RunStage
<1>3. run' \in [RunId -> Call \cup {NoCall}] /\ \A s \in RunId \ {r} : run'[s] = run[s]
  BY <1>1 DEF TypeOK
<1>4. 0 \in 0..MaxAttempts
  BY MaxAttemptsAssumption
<1>5. attempt' \in [RunId -> 0..MaxAttempts] /\ \A s \in RunId \ {r} : attempt'[s] = attempt[s]
  BY <1>1, <1>4 DEF TypeOK
<1>6. verdict' \in [RunId -> Verdict \cup {"none"}]
      /\ \A s \in RunId \ {r} : verdict'[s] = verdict[s]
  BY <1>1 DEF TypeOK
<1>7. stopped' \subseteq RunId
  BY <1>1 DEF TypeOK
<1> QED
  BY <1>2, <1>3, <1>5, <1>6, <1>7

LEMMA LeaveActiveInv ==
  ASSUME IInv, NEW r \in RunId, LeaveActive(r)
  PROVE  IInv'
<1>1. TypeOK /\ RowInv /\ ActiveInv /\ CallInv /\ KeyInv /\ pc[r] = "recorded"
  BY DEF IInv, LeaveActive
<1>2. Return(r) /\ active' = active \ {r}
      /\ UNCHANGED <<life, scheduling, maintenance, starting, prep, accounts, row, order>>
  BY DEF LeaveActive, lifeVars, dbVars
<1>3. TypeOK'
  <2>1. /\ pc' \in [RunId -> RunStage] /\ run' \in [RunId -> Call \cup {NoCall}]
        /\ attempt' \in [RunId -> 0..MaxAttempts]
        /\ verdict' \in [RunId -> Verdict \cup {"none"}]
        /\ stopped' \subseteq RunId
    BY <1>1, <1>2, ReturnMove
  <2>2. active' \subseteq RunId
    BY <1>1, <1>2 DEF TypeOK
  <2> QED
    BY <1>1, <1>2, <2>1, <2>2 DEF TypeOK
<1>4. pc'[r] = "done" /\ \A s \in RunId \ {r} : pc'[s] = pc[s] /\ run'[s] = run[s]
                                /\ attempt'[s] = attempt[s] /\ verdict'[s] = verdict[s]
  BY <1>1, <1>2, ReturnMove
<1>5. ActiveInv'
  BY <1>1, <1>2, <1>4 DEF ActiveInv, InActive, GoStage, CallStage
<1>6. CallInv'
  BY <1>1, <1>2, <1>4 DEF CallInv, InActive, GoStage, CallStage
<1>7. KeyInv'
  <2>1. \A s \in active' : s \in active /\ run'[s] = run[s]
    BY <1>1, <1>2, <1>4 DEF TypeOK
  <2> QED
    BY <1>1, <1>2, <2>1 DEF KeyInv, SameKey
<1>8. RowInv'
  BY <1>1, <1>2, <1>4 DEF RowInv, GoStage, Alive
<1>9. MaintenanceInv'
  BY <1>2 DEF IInv, MaintenanceInv, PendingRedeem
<1>10. ClosedIsQuiet'
  BY <1>2, <1>4 DEF IInv, ClosedIsQuiet, GoStage
<1> QED
  BY <1>3, <1>5, <1>6, <1>7, <1>8, <1>9, <1>10 DEF IInv

----------------------------------------------------------------------------
(* StartTask                                                                *)

LEMMA StartTaskInv ==
  ASSUME IInv, NEW a \in Account, NEW t \in TaskType, NEW trigger \in {"manual", "schedule"},
         StartTask(a, t, trigger)
  PROVE  IInv'
<1> DEFINE c == [account |-> a, typ |-> t, trigger |-> trigger, parent |-> NoParent]
<1>1. Reserve(c) /\ UNCHANGED <<life, scheduling, maintenance, active, stopped, run, pc,
                                attempt, verdict, prep, accounts, row, order>>
  BY DEF StartTask, lifeVars, goVars, dbVars
<1>2. NoParent \in 0..MaxRuns
  BY MaxRunsAssumption DEF NoParent
<1>3. c \in Call
  BY <1>2 DEF Call, Trigger
<1> HIDE DEF c
<1>4. starting' \subseteq Call /\ KeyInv' /\ MaintenanceInv'
  BY <1>1, <1>3, ReserveInv
<1>5. TypeOK'
  BY <1>1, <1>4 DEF IInv, TypeOK
<1>6. ActiveInv' /\ RowInv' /\ ClosedIsQuiet'
  BY <1>1 DEF IInv, ActiveInv, RowInv, ClosedIsQuiet, Alive
<1>7. CallInv'
  <2>1. starting \subseteq starting'
    BY <1>1 DEF Reserve
  <2> QED
    BY <1>1, <2>1 DEF IInv, CallInv
<1> QED
  BY <1>4, <1>5, <1>6, <1>7 DEF IInv

LEMMA AddRunInv ==
  ASSUME IInv, NEW c \in starting, NEW r \in RunId, AddRun(c, r)
  PROVE  IInv'
<1>1. /\ TypeOK /\ ActiveInv /\ CallInv /\ KeyInv /\ RowInv /\ row[r] = "none"
      /\ \A s \in RunId : pc[s] = "added" => run[s] # c
      /\ row' = [row EXCEPT ![r] = "queued"] /\ run' = [run EXCEPT ![r] = c]
      /\ pc' = [pc EXCEPT ![r] = "added"]
  BY DEF IInv, AddRun, NextRun, SetStage
<1>2. UNCHANGED <<life, scheduling, maintenance, starting, active, stopped, attempt, verdict,
                  prep, accounts, order>>
  BY DEF AddRun, lifeVars, managerVars
<1>3. pc[r] = "idle" /\ c \in Call
  BY <1>1 DEF RowInv, TypeOK
<1>4. row' \in [RunId -> RowStatus] /\ row'[r] = "queued"
      /\ \A s \in RunId \ {r} : row'[s] = row[s]
  BY <1>1 DEF TypeOK, RowStatus, LiveRow
<1>5. run' \in [RunId -> Call \cup {NoCall}] /\ run'[r] = c
      /\ \A s \in RunId \ {r} : run'[s] = run[s]
  BY <1>1, <1>3 DEF TypeOK
<1>6. pc' \in [RunId -> RunStage] /\ pc'[r] = "added"
      /\ \A s \in RunId \ {r} : pc'[s] = pc[s]
  BY <1>1 DEF TypeOK, RunStage, CallStage
<1>7. TypeOK'
  BY <1>1, <1>2, <1>4, <1>5, <1>6 DEF TypeOK
<1>8. r \notin active
  BY <1>1, <1>3 DEF ActiveInv, InActive, GoStage
<1>9. ActiveInv'
  BY <1>1, <1>2, <1>6, <1>8 DEF ActiveInv, InActive, GoStage
<1>10. CallInv'
  BY <1>1, <1>2, <1>3, <1>5, <1>6 DEF CallInv
<1>11. KeyInv'
  <2>1. \A s \in active' : s \in active /\ run'[s] = run[s]
    BY <1>1, <1>2, <1>5, <1>8 DEF TypeOK
  <2> QED
    BY <1>1, <1>2, <2>1 DEF KeyInv, SameKey
<1>12. RowInv'
  BY <1>1, <1>2, <1>4, <1>6 DEF RowInv, GoStage, LiveRow, Alive
<1>13. MaintenanceInv' /\ ClosedIsQuiet'
  BY <1>2, <1>6 DEF IInv, MaintenanceInv, PendingRedeem, ClosedIsQuiet, GoStage
<1> QED
  BY <1>7, <1>9, <1>10, <1>11, <1>12, <1>13 DEF IInv

LEMMA AddRunFailsInv ==
  ASSUME IInv, NEW c \in starting, AddRunFails(c)
  PROVE  IInv'
<1>1. /\ \A s \in RunId : pc[s] = "added" => run[s] # c
      /\ starting' = starting \ {c}
      /\ UNCHANGED <<life, scheduling, maintenance, active, stopped, run, pc, attempt,
                     verdict, prep, accounts, row, order>>
  BY DEF AddRunFails, lifeVars, goVars, dbVars
<1>2. TypeOK'
  BY <1>1 DEF IInv, TypeOK
<1>3. ActiveInv' /\ CallInv' /\ RowInv' /\ ClosedIsQuiet'
  BY <1>1 DEF IInv, ActiveInv, CallInv, RowInv, ClosedIsQuiet, Alive
<1>4. KeyInv' /\ MaintenanceInv'
  BY <1>1 DEF IInv, KeyInv, SameKey, MaintenanceInv, PendingRedeem
<1> QED
  BY <1>2, <1>3, <1>4 DEF IInv

LEMMA EnterTaskInv ==
  ASSUME IInv, NEW r \in RunId, EnterTask(r)
  PROVE  IInv'
<1>1. /\ TypeOK /\ ActiveInv /\ CallInv /\ KeyInv /\ RowInv /\ pc[r] = "added"
      /\ starting' = starting \ {run[r]}
  BY DEF IInv, EnterTask
<1>2. UNCHANGED <<life, scheduling, maintenance, stopped, run, attempt, verdict, prep,
                  accounts, row, order>>
  BY DEF EnterTask, lifeVars, dbVars
<1>3. /\ run[r] \in starting /\ row[r] = "queued" /\ r \notin active
      /\ \A s \in RunId \ {r} : pc[s] = "added" => run[s] # run[r]
  BY <1>1 DEF CallInv, RowInv, ActiveInv, InActive, GoStage
<1>4. PICK stage \in {"refused", "entered"} :
         /\ SetStage(r, stage)
         /\ active' = IF stage = "entered" THEN active \cup {r} ELSE active
         /\ stage = "entered" => ~maintenance
  BY DEF EnterTask
<1>5. pc' \in [RunId -> RunStage] /\ pc'[r] = stage
      /\ \A s \in RunId \ {r} : pc'[s] = pc[s]
  BY <1>1, <1>4 DEF TypeOK, SetStage, RunStage, CallStage
<1>6. TypeOK'
  <2>1. starting' \subseteq Call /\ active' \subseteq RunId
    BY <1>1, <1>4 DEF TypeOK
  <2> QED
    BY <1>1, <1>2, <1>5, <2>1 DEF TypeOK
<1>7. ActiveInv'
  BY <1>1, <1>3, <1>4, <1>5 DEF ActiveInv, InActive, GoStage
<1>8. CallInv'
  BY <1>1, <1>2, <1>3, <1>4, <1>5 DEF CallInv, InActive, CallStage, GoStage
<1>9. KeyInv'
  BY <1>1, <1>2, <1>3, <1>4 DEF KeyInv, SameKey
<1>10. RowInv'
  BY <1>1, <1>2, <1>3, <1>5 DEF RowInv, GoStage, Alive
<1>11. MaintenanceInv'
  BY <1>1, <1>2, <1>3, <1>4 DEF IInv, MaintenanceInv, MaintenanceStage, PendingRedeem
<1>12. ClosedIsQuiet'
  BY <1>2, <1>5 DEF IInv, ClosedIsQuiet, GoStage
<1> QED
  BY <1>6, <1>7, <1>8, <1>9, <1>10, <1>11, <1>12 DEF IInv

LEMMA RefuseTaskInv ==
  ASSUME IInv, NEW r \in RunId, RefuseTask(r)
  PROVE  IInv'
<1>1. TypeOK /\ ActiveInv /\ CallInv /\ KeyInv /\ RowInv /\ pc[r] = "refused"
  BY DEF IInv, RefuseTask
<1>2. Return(r) /\ row' = [row EXCEPT ![r] = "interrupted"]
      /\ UNCHANGED <<life, scheduling, maintenance, starting, active, prep, accounts, order>>
  BY DEF RefuseTask, lifeVars
<1>3. row' \in [RunId -> RowStatus] /\ row'[r] = "interrupted"
      /\ \A s \in RunId \ {r} : row'[s] = row[s]
  BY <1>1, <1>2 DEF TypeOK, RowStatus
<1>4. pc'[r] = "done" /\ \A s \in RunId \ {r} : pc'[s] = pc[s] /\ run'[s] = run[s]
                                /\ attempt'[s] = attempt[s] /\ verdict'[s] = verdict[s]
  BY <1>1, <1>2, ReturnMove
<1>5. TypeOK'
  <2>1. /\ pc' \in [RunId -> RunStage] /\ run' \in [RunId -> Call \cup {NoCall}]
        /\ attempt' \in [RunId -> 0..MaxAttempts]
        /\ verdict' \in [RunId -> Verdict \cup {"none"}]
        /\ stopped' \subseteq RunId
    BY <1>1, <1>2, ReturnMove
  <2> QED
    BY <1>1, <1>2, <1>3, <2>1 DEF TypeOK
<1>6. r \notin active
  BY <1>1 DEF ActiveInv, InActive, GoStage
<1>7. ActiveInv'
  BY <1>1, <1>2, <1>4, <1>6 DEF ActiveInv, InActive, GoStage
<1>8. CallInv'
  BY <1>1, <1>2, <1>4 DEF CallInv, InActive, CallStage, GoStage
<1>9. KeyInv'
  <2>1. \A s \in active' : s \in active /\ run'[s] = run[s]
    BY <1>1, <1>2, <1>4, <1>6 DEF TypeOK
  <2> QED
    BY <1>1, <1>2, <2>1 DEF KeyInv, SameKey
<1>10. RowInv'
  BY <1>1, <1>2, <1>3, <1>4 DEF RowInv, GoStage, LiveRow, Alive
<1>11. MaintenanceInv' /\ ClosedIsQuiet'
  BY <1>2, <1>4 DEF IInv, MaintenanceInv, PendingRedeem, ClosedIsQuiet, GoStage
<1> QED
  BY <1>5, <1>7, <1>8, <1>9, <1>10, <1>11 DEF IInv

LEMMA LaunchRunInv ==
  ASSUME IInv, NEW r \in RunId, LaunchRun(r)
  PROVE  IInv'
<1>1. TypeOK /\ RowInv /\ pc[r] = "entered" /\ row[r] = "queued"
  BY DEF IInv, LaunchRun, RowInv
<1>2. UNCHANGED <<life, scheduling, maintenance, starting, active, stopped, run, attempt,
                  verdict, prep, accounts, row, order>>
  BY DEF LaunchRun, lifeVars, managerVars, dbVars
<1>3. PICK stage \in {"dropped", "launched"} :
         SetStage(r, stage) /\ (stage = "launched" => ~Closing)
  BY DEF LaunchRun
<1>4. ActiveInv' /\ CallInv' /\ KeyInv'
  <2>1. pc[r] \in InActive /\ stage \in InActive
    BY <1>1 DEF InActive, GoStage
  <2> QED
    BY <1>2, <1>3, <2>1, StageMove
<1>5. pc' \in [RunId -> RunStage] /\ pc'[r] = stage
      /\ \A s \in RunId \ {r} : pc'[s] = pc[s]
  BY <1>1, <1>3 DEF TypeOK, SetStage, RunStage, GoStage
<1>6. TypeOK'
  BY <1>1, <1>2, <1>5 DEF TypeOK
<1>7. RowInv'
  BY <1>1, <1>2, <1>5 DEF RowInv, GoStage, Alive
<1>8. MaintenanceInv' /\ ClosedIsQuiet'
  BY <1>2, <1>3, <1>5 DEF IInv, MaintenanceInv, PendingRedeem, ClosedIsQuiet, GoStage, Closing
<1> QED
  BY <1>4, <1>6, <1>7, <1>8 DEF IInv

----------------------------------------------------------------------------
(* Handlers, installation, shutdown, restart                                *)

LEMMA StopTaskInv ==
  ASSUME IInv, NEW r \in RunId, StopTask(r)
  PROVE  IInv'
<1>1. stopped' = stopped \cup {r}
      /\ UNCHANGED <<life, scheduling, maintenance, starting, active, run, pc, attempt,
                     verdict, prep, accounts, row, order>>
  BY DEF StopTask, lifeVars, goVars, dbVars
<1>2. TypeOK'
  BY <1>1 DEF IInv, TypeOK
<1>3. ActiveInv' /\ CallInv' /\ KeyInv' /\ RowInv' /\ MaintenanceInv' /\ ClosedIsQuiet'
  BY <1>1 DEF IInv, ActiveInv, CallInv, KeyInv, SameKey, RowInv, Alive, MaintenanceInv,
              PendingRedeem, ClosedIsQuiet
<1> QED
  BY <1>2, <1>3 DEF IInv

\* Neither handler makes an order pending.
LEMMA AccountHandlersInv ==
  ASSUME IInv, NEW a \in Account, ResolveRedeem(a) \/ DeleteAccount(a)
  PROVE  IInv'
<1>1. UNCHANGED <<life, scheduling, maintenance, starting, active, stopped, run, pc, attempt,
                  verdict, prep, row>>
  BY DEF ResolveRedeem, DeleteAccount, lifeVars, managerVars, goVars
<1>2. PICK status \in {"none", "settled"} : order' = [order EXCEPT ![a] = status]
  BY DEF ResolveRedeem, DeleteAccount
<1>3. order' \in [Account -> {"none", "pending", "settled"}]
      /\ \A b \in Account : order'[b] = "pending" => order[b] = "pending"
  BY <1>2 DEF IInv, TypeOK
<1>4. accounts' \subseteq Account
  BY DEF ResolveRedeem, DeleteAccount, IInv, TypeOK
<1>5. TypeOK'
  BY <1>1, <1>3, <1>4 DEF IInv, TypeOK
<1>6. ActiveInv' /\ CallInv' /\ KeyInv' /\ RowInv' /\ ClosedIsQuiet'
  BY <1>1 DEF IInv, ActiveInv, CallInv, KeyInv, SameKey, RowInv, Alive, ClosedIsQuiet
<1>7. MaintenanceInv'
  BY <1>1, <1>3 DEF IInv, MaintenanceInv, PendingRedeem
<1> QED
  BY <1>5, <1>6, <1>7 DEF IInv

\* Between BeginPrepare and the snapshot no other goroutine can enter active,
\* so a snapshot without tasks is final: every type is short or long.
LEMMA SnapshotClear ==
  ASSUME TypeOK, CallInv, ActiveInv, starting = {},
         ~ActiveOfType(LongTask), ~ActiveOfType({"login", "chat"})
  PROVE  active = {}
<1> SUFFICES ASSUME NEW r \in active PROVE FALSE
  OBVIOUS
<1>1. r \in RunId /\ run[r] \in Call
  BY DEF TypeOK, ActiveInv, CallInv
<1>2. run[r].typ \in {"login", "chat", "pc", "redeem"}
  BY <1>1, TaskTypeAssumption DEF Call
<1> QED
  BY <1>2 DEF ActiveOfType, LongTask

LEMMA InstallInv ==
  ASSUME IInv, CheckTasks \/ InstallStep \/ ResultStep
  PROVE  IInv'
<1>1. UNCHANGED <<life, scheduling, starting, active, stopped, run, pc, attempt, verdict,
                  accounts, row, order>>
  BY DEF CheckTasks, InstallStep, CheckOrders, BeginPrepare, SnapshotTasks, ReadPendingOrders,
         PollAgain, FailInstall, HandOff, ResultStep, ResultArrives,
         RefreshUpdateResult,
         JobOvertakes, InstallAgainFails, InstallUnchanged, lifeVars,
         goVars, dbVars
<1>2. ActiveInv' /\ CallInv' /\ KeyInv' /\ RowInv' /\ ClosedIsQuiet'
  BY <1>1 DEF IInv, ActiveInv, CallInv, KeyInv, SameKey, RowInv, Alive, ClosedIsQuiet
<1>3. maintenance' \in BOOLEAN /\ prep' \in PrepStage
  BY DEF CheckTasks, InstallStep, CheckOrders, BeginPrepare, SnapshotTasks, ReadPendingOrders,
         PollAgain, FailInstall, HandOff, ResultStep, ResultArrives,
         RefreshUpdateResult,
         JobOvertakes, InstallAgainFails, CancelUpdateMaintenance,
         PrepStage, MaintenanceStage, IInv, TypeOK
<1>4. TypeOK'
  BY <1>1, <1>3 DEF IInv, TypeOK
<1>5. MaintenanceInv'
  <2>1. CASE CheckTasks \/ CheckOrders \/ PollAgain
    BY <1>1, <2>1 DEF CheckTasks, CheckOrders, PollAgain, IInv, MaintenanceInv,
                      MaintenanceStage
  <2>2. CASE BeginPrepare
    BY <1>1, <2>2 DEF BeginPrepare, IInv, MaintenanceInv, MaintenanceStage
  <2>3. CASE SnapshotTasks
    BY <1>1, <2>3, SnapshotClear DEF SnapshotTasks, CancelUpdateMaintenance, IInv,
                      MaintenanceInv, MaintenanceStage
  <2>4. CASE ReadPendingOrders
    BY <1>1, <2>4 DEF ReadPendingOrders, CancelUpdateMaintenance, IInv, MaintenanceInv,
                      MaintenanceStage, PendingRedeem
  <2>5. CASE FailInstall \/ RefreshUpdateResult \/ InstallAgainFails
    BY <1>1, <2>5 DEF FailInstall, RefreshUpdateResult, InstallAgainFails,
                      CancelUpdateMaintenance, IInv, MaintenanceInv, MaintenanceStage
  <2>6. CASE HandOff \/ ResultArrives \/ JobOvertakes
    BY <1>1, <2>6 DEF HandOff, ResultArrives, JobOvertakes, IInv, MaintenanceInv,
                      MaintenanceStage, PendingRedeem
  <2> QED
    BY <2>1, <2>2, <2>3, <2>4, <2>5, <2>6 DEF InstallStep, ResultStep
<1> QED
  BY <1>2, <1>4, <1>5 DEF IInv

LEMMA CloseInv ==
  ASSUME IInv, CloseCancel \/ CloseLatch \/ SchedulerExits \/ CloseDone
  PROVE  IInv'
<1>1. UNCHANGED <<maintenance, starting, active, stopped, run, pc, attempt, verdict, prep,
                  accounts, row, order>>
  BY DEF CloseCancel, CloseLatch, SchedulerExits, CloseDone, managerVars, goVars, dbVars
<1>2. life' \in Life /\ scheduling' \in BOOLEAN
  BY DEF CloseCancel, CloseLatch, SchedulerExits, CloseDone, Life, IInv, TypeOK
<1>3. Alive /\ Alive'
  BY DEF CloseCancel, CloseLatch, SchedulerExits, CloseDone, Alive
<1>4. TypeOK'
  BY <1>1, <1>2 DEF IInv, TypeOK
<1>5. ActiveInv' /\ CallInv' /\ KeyInv' /\ RowInv' /\ MaintenanceInv'
  BY <1>1, <1>3 DEF IInv, ActiveInv, CallInv, KeyInv, SameKey, RowInv, MaintenanceInv,
                    PendingRedeem
<1>6. ClosedIsQuiet'
  BY <1>1 DEF CloseCancel, CloseLatch, SchedulerExits, CloseDone, IInv, ClosedIsQuiet
<1> QED
  BY <1>4, <1>5, <1>6 DEF IInv

LEMMA ProcessEndsInv ==
  ASSUME IInv, ProcessEnds
  PROVE  IInv'
<1>1. /\ life' = "down" /\ scheduling' = FALSE /\ maintenance' = FALSE /\ starting' = {}
      /\ active' = {} /\ stopped' = {} /\ prep' = "idle"
      /\ run' = [r \in RunId |-> NoCall] /\ verdict' = [r \in RunId |-> "none"]
      /\ pc' = [r \in RunId |-> IF row[r] = "none" THEN "idle" ELSE "done"]
      /\ UNCHANGED <<accounts, row, order>>
  BY DEF ProcessEnds, dbVars
<1>2. attempt' \in [RunId -> 0..MaxAttempts]
  <2>1. 0 \in 0..MaxAttempts
    BY MaxAttemptsAssumption
  <2>2. attempt' = [r \in RunId |-> 0]
    BY DEF ProcessEnds
  <2> QED
    BY <2>1, <2>2
<1>3. pc' \in [RunId -> RunStage]
  BY <1>1 DEF RunStage
<1>4. TypeOK'
  BY <1>1, <1>2, <1>3 DEF IInv, TypeOK, Life, PrepStage, MaintenanceStage
<1>5. ActiveInv' /\ CallInv' /\ KeyInv' /\ RowInv'
  BY <1>1 DEF ActiveInv, CallInv, KeyInv, RowInv, InActive, CallStage, GoStage, Alive
<1>6. MaintenanceInv' /\ ClosedIsQuiet'
  BY <1>1 DEF MaintenanceInv, MaintenanceStage, ClosedIsQuiet
<1> QED
  BY <1>4, <1>5, <1>6 DEF IInv

\* A stopped process has no goroutine: its invariant speaks of the rows only.
LEMMA RestartInv ==
  ASSUME IInv, DownInv, Restart
  PROVE  IInv'
<1>1. /\ life' = "up" /\ ~Alive /\ scheduling' = TRUE
      /\ row' = [r \in RunId |-> IF row[r] \in LiveRow THEN "interrupted" ELSE row[r]]
      /\ UNCHANGED <<maintenance, starting, active, stopped, run, pc, attempt, verdict, prep,
                     accounts, order>>
  BY DEF Restart, Alive, managerVars, goVars
<1>2. row' \in [RunId -> RowStatus]
  BY <1>1 DEF IInv, TypeOK, RowStatus
<1>3. TypeOK'
  BY <1>1, <1>2 DEF IInv, TypeOK, Life
<1>4. ActiveInv' /\ CallInv' /\ KeyInv' /\ MaintenanceInv' /\ ClosedIsQuiet'
  BY <1>1 DEF IInv, ActiveInv, CallInv, KeyInv, SameKey, MaintenanceInv, PendingRedeem,
              ClosedIsQuiet
<1>5. RowInv'
  BY <1>1 DEF IInv, DownInv, RowInv, LiveRow, GoStage
<1> QED
  BY <1>3, <1>4, <1>5 DEF IInv

----------------------------------------------------------------------------
(* The invariant and the theorems                                           *)

LEMMA RunStepInv ==
  ASSUME IInv, NEW r \in RunId, RunStep(r)
  PROVE  IInv'
<1>1. CASE EnterTask(r) \/ RefuseTask(r) \/ LaunchRun(r) \/ BeginRun(r)
  BY <1>1, EnterTaskInv, RefuseTaskInv, LaunchRunInv, BeginRunInv
<1>2. CASE AttemptSucceeds(r) \/ AttemptCancelled(r) \/ WaitCancelled(r)
  BY <1>2, AttemptEndsInv
<1>3. CASE AttemptFails(r) \/ WaitOver(r)
  BY <1>3, AttemptFailsInv, WaitOverInv
<1>4. CASE SubmitOrder(r) \/ OrderAnswered(r) \/ OrderUnknown(r)
  BY <1>4, OrderStepInv
<1>5. CASE ChainRedeem(r) \/ ChainSkip(r) \/ ChainReturn(r)
  BY <1>5, ChainRedeemInv, ChainEndInv
<1>6. CASE RecordVerdict(r) \/ LeaveActive(r)
  BY <1>6, RecordVerdictInv, LeaveActiveInv
<1> QED
  BY <1>1, <1>2, <1>3, <1>4, <1>5, <1>6 DEF RunStep

\* A step of a run goes from a stage that is neither idle nor done.
LEMMA RunStepBusy ==
  ASSUME NEW r \in RunId, RunStep(r)
  PROVE  pc[r] \notin {"idle", "done"} /\ life' = life
BY DEF RunStep, EnterTask, RefuseTask, LaunchRun, BeginRun, AttemptSucceeds,
       AttemptCancelled, AttemptFails, WaitCancelled, WaitOver, SubmitOrder, OrderAnswered,
       OrderUnknown, ChainRedeem, ChainSkip, ChainReturn, RecordVerdict, LeaveActive, lifeVars

LEMMA DownStep ==
  ASSUME DownInv, [Next]_vars
  PROVE  DownInv'
<1>1. CASE UserStep
  <2>1. Alive /\ life' = life
    BY <1>1 DEF UserStep, StartTask, StopTask, ResolveRedeem, DeleteAccount, lifeVars, Alive,
                Reserve, StopTask
  <2> QED
    BY <2>1 DEF DownInv, Alive
<1>2. CASE CallStep
  <2>1. starting # {} /\ life' = life
    BY <1>2 DEF CallStep, AddRun, AddRunFails, lifeVars
  <2> QED
    BY <2>1 DEF DownInv, Alive
<1>3. CASE \E r \in RunId : RunStep(r)
  BY <1>3, RunStepBusy DEF DownInv, Alive
<1>4. CASE CheckTasks \/ InstallStep \/ ResultStep
  <2>1. UNCHANGED <<life, starting, pc>>
    BY <1>4 DEF CheckTasks, InstallStep, CheckOrders, BeginPrepare, SnapshotTasks,
           ReadPendingOrders, PollAgain, FailInstall, HandOff, ResultStep, ResultArrives,
         RefreshUpdateResult,
         JobOvertakes, InstallAgainFails,
           InstallUnchanged, lifeVars, goVars
  <2> QED
    BY <2>1 DEF DownInv, Alive
<1>5. CASE CloseCancel \/ CloseLatch \/ SchedulerExits \/ CloseDone \/ Restart
  BY <1>5 DEF CloseCancel, CloseLatch, SchedulerExits, CloseDone, Restart, DownInv, Alive
<1>6. CASE Exit \/ Crash
  BY <1>6 DEF Exit, Crash, ProcessEnds, DownInv
<1>7. CASE UNCHANGED vars
  BY <1>7 DEF vars, lifeVars, managerVars, goVars, DownInv, Alive
<1> QED
  BY <1>1, <1>2, <1>3, <1>4, <1>5, <1>6, <1>7 DEF Next, CloseStep

LEMMA NextInv ==
  ASSUME IInv, DownInv, [Next]_vars
  PROVE  IInv'
<1>1. CASE UserStep
  BY <1>1, StartTaskInv, StopTaskInv, AccountHandlersInv DEF UserStep
<1>2. CASE CallStep
  BY <1>2, AddRunInv, AddRunFailsInv DEF CallStep
<1>3. CASE \E r \in RunId : RunStep(r)
  BY <1>3, RunStepInv
<1>4. CASE CheckTasks \/ InstallStep \/ ResultStep
  BY <1>4, InstallInv
<1>5. CASE CloseCancel \/ CloseStep \/ Crash
  BY <1>5, CloseInv, ProcessEndsInv DEF CloseStep, Exit, Crash
<1>6. CASE Restart
  BY <1>6, RestartInv
<1>7. CASE UNCHANGED vars
  <2>1. UNCHANGED <<life, scheduling, maintenance, starting, active, stopped, run, pc, attempt,
                    verdict, prep, accounts, row, order>>
    BY <1>7 DEF vars, lifeVars, managerVars, goVars, dbVars
  <2>2. TypeOK'
    BY <2>1 DEF IInv, TypeOK
  <2>3. ActiveInv' /\ CallInv' /\ KeyInv' /\ RowInv' /\ MaintenanceInv' /\ ClosedIsQuiet'
    BY <2>1 DEF IInv, ActiveInv, CallInv, KeyInv, SameKey, RowInv, Alive, MaintenanceInv,
                PendingRedeem, ClosedIsQuiet
  <2> QED
    BY <2>2, <2>3 DEF IInv
<1> QED
  BY <1>1, <1>2, <1>3, <1>4, <1>5, <1>6, <1>7 DEF Next

\* The inductive invariant holds in every reachable state.
THEOREM Invariance == Spec => [](IInv /\ DownInv)
<1>1. Init => IInv /\ DownInv
  BY InitInv DEF Init, DownInv, Alive
<1>2. IInv /\ DownInv /\ [Next]_vars => (IInv /\ DownInv)'
  BY NextInv, DownStep
<1> QED
  BY <1>1, <1>2, PTL DEF Spec

\* The variables keep their types: attempt never passes MaxAttempts, and active
\* and stopped name runs.
THEOREM TypeCorrect == Spec => []TypeOK
<1>1. IInv => TypeOK
  BY DEF IInv
<1> QED
  BY <1>1, Invariance, PTL

\* At most one run of a task works for an account.
THEOREM OneTask == Spec => []OneTaskPerKey
<1>1. IInv => OneTaskPerKey
  BY DEF IInv, OneTaskPerKey, ActiveInv, KeyInv
<1> QED
  BY <1>1, Invariance, PTL

\* After PrepareForUpdate returned nil no task, call or unknown order is left.
THEOREM QuietWhenPrepared == Spec => []PreparedIsQuiet
<1>1. IInv => PreparedIsQuiet
  BY DEF IInv, PreparedIsQuiet, ActiveInv, CallInv, MaintenanceInv
<1> QED
  BY <1>1, Invariance, PTL

\* A live row has an owner while the process lives.
THEOREM RowsOwned == Spec => []LiveRowsAreOwned
<1>1. IInv => LiveRowsAreOwned
  <2> SUFFICES ASSUME IInv, NEW r \in RunId, Alive, row[r] \in LiveRow
               PROVE  r \in active \/ pc[r] \in {"added", "refused"}
    BY DEF LiveRowsAreOwned
  <2>1. pc[r] \in RunStage
    BY DEF IInv, TypeOK
  <2>2. pc[r] \notin {"idle", "recorded", "done"}
    BY DEF IInv, RowInv, LiveRow
  <2>3. pc[r] \in InActive \cup {"added", "refused"}
    BY <2>1, <2>2 DEF RunStage, InActive, CallStage
  <2> QED
    BY <2>3 DEF IInv, ActiveInv
<1> QED
  BY <1>1, Invariance, PTL

\* No tracked goroutine survives Close.
THEOREM QuietWhenClosed == Spec => []ClosedIsQuiet
<1>1. IInv => ClosedIsQuiet
  BY DEF IInv
<1> QED
  BY <1>1, Invariance, PTL

\* Only five steps write a row, and each writes one that has no verdict yet.
LEMMA RowStep ==
  ASSUME IInv, [Next]_vars, NEW r \in RunId, row[r] \notin {"none"} \cup LiveRow
  PROVE  row'[r] = row[r]
<1>1. row \in [RunId -> RowStatus] /\ RowInv
  BY DEF IInv, TypeOK
<1>2. CASE UserStep
  BY <1>2 DEF UserStep, StartTask, StopTask, ResolveRedeem, DeleteAccount, dbVars
<1>3. CASE CallStep
  BY <1>1, <1>3 DEF CallStep, AddRun, NextRun, AddRunFails, dbVars
<1>4. CASE \E s \in RunId : RunStep(s)
  <2>1. PICK s \in RunId : RunStep(s)
    BY <1>4
  <2>2. CASE RefuseTask(s) \/ BeginRun(s) \/ RecordVerdict(s)
    <3>1. pc[s] \in {"refused", "launched", "ending"}
      BY <2>2 DEF RefuseTask, BeginRun, RecordVerdict
    <3>2. row[s] \in LiveRow
      BY <1>1, <3>1 DEF RowInv, GoStage, LiveRow
    <3>3. \E v : row' = [row EXCEPT ![s] = v]
      BY <2>2 DEF RefuseTask, BeginRun, RecordVerdict
    <3> QED
      BY <1>1, <3>2, <3>3
  <2>3. CASE ~(RefuseTask(s) \/ BeginRun(s) \/ RecordVerdict(s))
    BY <2>1, <2>3 DEF RunStep, EnterTask, LaunchRun, AttemptSucceeds, AttemptCancelled,
           AttemptFails, WaitCancelled, WaitOver, SubmitOrder, OrderAnswered, OrderUnknown,
           ChainRedeem, ChainSkip, ChainReturn, LeaveActive, dbVars
  <2> QED
    BY <2>2, <2>3
<1>5. CASE CheckTasks \/ InstallStep \/ ResultStep
  BY <1>5 DEF CheckTasks, InstallStep, CheckOrders, BeginPrepare, SnapshotTasks,
         ReadPendingOrders, PollAgain, FailInstall, HandOff, ResultStep, ResultArrives,
         RefreshUpdateResult,
         JobOvertakes, InstallAgainFails,
         InstallUnchanged, dbVars
<1>6. CASE CloseCancel \/ CloseStep \/ Crash
  BY <1>6 DEF CloseCancel, CloseStep, CloseLatch, SchedulerExits, CloseDone, Exit, Crash,
         ProcessEnds, dbVars
<1>7. CASE Restart
  BY <1>1, <1>7 DEF Restart
<1>8. CASE UNCHANGED vars
  BY <1>8 DEF vars, dbVars
<1> QED
  BY <1>2, <1>3, <1>4, <1>5, <1>6, <1>7, <1>8 DEF Next

\* A verdict is never overwritten.
THEOREM VerdictStands == Spec => VerdictsStand
<1>1. IInv /\ [Next]_vars =>
        [\A r \in RunId : row[r] \notin {"none"} \cup LiveRow => row'[r] = row[r]]_vars
  BY RowStep
<1> QED
  BY <1>1, Invariance, PTL DEF Spec, VerdictsStand

=============================================================================
