----------------------------- MODULE AccountProofs -----------------------------
(***************************************************************************)
(* Theorems about what is kept of one account: its pending order (Redeem,  *)
(* for every set of targets and handlers, every interval and any number of *)
(* days) and its logins and verification (DeviceAuth, for every set of     *)
(* credentials, keepers, tasks and requests).  The two specifications      *)
(* share no variable; each has one inductive invariant.                    *)
(***************************************************************************)
EXTENDS Redeem, DeviceAuth, TLAPS

-----------------------------------------------------------------------------
(* Redeeming                                                               *)


Pending == state.status = "pending"

\* The pending row brackets the order: it is written before the order is sent
\* and stays until an answer is recorded or the user resolves it.
OrderInv ==
    /\ run.stage = "checked" => ~Pending
    /\ run.stage \in {"submitted", "sent", "answered"} => Pending \/ hasty
    /\ unanswered => Pending \/ hasty
    /\ run.stage = "submitted" => ~unanswered \/ hasty

\* The date of the last attempt is that of the latest order; a task that passed
\* its check is not behind it.
DateInv ==
    /\ state.attempt <= day
    /\ \A d \in dates : d <= state.attempt
    /\ run.stage = "checked" => state.attempt <= run.today /\ run.today <= day
    /\ run.stage = "checked" => run.today \in Day
    /\ run.stage = "checked" /\ run.auto => run.today \notin dates

\* Once risk control has answered, redeeming is disabled or its row is pending.
RiskInv ==
    blocked /\ ~hasty =>
        /\ cfg.enabled =>
              /\ Pending /\ run.stage \notin {"submitted", "sent"}
              /\ run.stage = "answered" => run.outcome = "risk"
        /\ run.auto =>
              /\ run.stage = "configured" => Pending
              /\ run.stage # "checked"

IInv == TypeOK /\ OrderInv /\ DateInv /\ RiskInv

RunT == [stage : RunStage, auto : BOOLEAN, target : Target \cup {NoTarget},
         today : 0..MaxDays, outcome : Outcome]
StateT == [status : {"none", "pending", "success", "failed"}, attempt : 0..MaxDays, success : 0..MaxDays]

----------------------------------------------------------------------------

\* What the steps of a task make of its record, and of the order's row.
LEMMA RunTyped ==
  ASSUME NEW r \in RunT, NEW g \in RunStage, NEW t \in Target \cup {NoTarget},
         NEW n \in 0..MaxDays, NEW o \in Outcome
  PROVE  /\ NoRun \in RunT
         /\ [NoRun EXCEPT !.stage = "launched", !.auto = TRUE] \in RunT
         /\ [NoRun EXCEPT !.stage = "launched", !.auto = FALSE] \in RunT
         /\ [r EXCEPT !.stage = g] \in RunT
         /\ [r EXCEPT !.stage = g, !.target = t] \in RunT
         /\ [r EXCEPT !.stage = g, !.today = n] \in RunT
         /\ [r EXCEPT !.stage = g, !.outcome = o] \in RunT
         /\ [r EXCEPT !.outcome = o] \in RunT
<1>1. NoRun \in RunT
  BY MaxDaysAssumption DEF RunT, NoRun, RunStage, Outcome, NoDay
<1>2. \A b \in BOOLEAN : [NoRun EXCEPT !.stage = "launched", !.auto = b] \in RunT
  BY <1>1 DEF RunT, RunStage
<1>3. [r EXCEPT !.stage = g] \in RunT
  BY DEF RunT
<1>4. [r EXCEPT !.stage = g, !.target = t] \in RunT
  BY DEF RunT
<1>5. [r EXCEPT !.stage = g, !.today = n] \in RunT
  BY DEF RunT
<1>6. [r EXCEPT !.stage = g, !.outcome = o] \in RunT
  BY DEF RunT
<1>7. [r EXCEPT !.outcome = o] \in RunT
  BY DEF RunT
<1> QED
  BY <1>1, <1>2, <1>3, <1>4, <1>5, <1>6, <1>7

LEMMA StateTyped ==
  ASSUME NEW r \in StateT, NEW g \in {"none", "pending", "success", "failed"}, NEW n \in 0..MaxDays
  PROVE  /\ [r EXCEPT !.status = g, !.attempt = n] \in StateT
         /\ [r EXCEPT !.status = g, !.success = n] \in StateT
BY DEF StateT

LEMMA ResolvedTyped ==
  ASSUME NEW r \in StateT
  PROVE  /\ [r EXCEPT !.status = "success", !.success = r.attempt] \in StateT
         /\ [r EXCEPT !.status = "failed", !.success = r.success] \in StateT
BY DEF StateT

LEMMA InitIInv == Init => IInv
<1> SUFFICES ASSUME Init
             PROVE  IInv
  OBVIOUS
<1> USE MaxDaysAssumption DEF Init
<1>1. TypeOK
  <2>1. run \in RunT
    BY DEF RunT, NoRun, RunStage, Outcome, NoDay
  <2>2. day \in Day /\ state \in StateT
    BY DEF Day, StateT, NoDay
  <2> QED
    BY <2>1, <2>2 DEF TypeOK, RunT, StateT, Config, NoDay, Form, NoForm
<1>2. OrderInv /\ DateInv /\ RiskInv
  BY DEF OrderInv, DateInv, RiskInv, Pending, NoRun, NoDay
<1> QED
  BY <1>1, <1>2 DEF IInv

LEMMA StartIInv ==
  ASSUME IInv, StartStep
  PROVE  IInv'
<1> USE MaxDaysAssumption DEF IInv, TypeOK, Day, RunStage, Outcome, NoRun, NoDay, NoTarget, Starter, history
<1>1. CASE \E s \in Starter : ReadEnabled(s)
  <2>1. TypeOK'
    BY <1>1 DEF ReadEnabled, StarterUnchanged, StartRun
  <2>2. OrderInv'
    BY <1>1 DEF ReadEnabled, StarterUnchanged, StartRun, OrderInv, Pending
  <2>3. DateInv'
    BY <1>1 DEF ReadEnabled, StarterUnchanged, StartRun, DateInv
  <2>4. RiskInv'
    BY <1>1 DEF ReadEnabled, StarterUnchanged, StartRun, RiskInv, OrderInv, Pending
  <2> QED
    BY <2>1, <2>2, <2>3, <2>4
<1>2. CASE \E s \in Starter : ReadDue(s)
  <2>1. TypeOK'
    BY <1>2 DEF ReadDue, StarterUnchanged, StartRun
  <2>2. OrderInv'
    BY <1>2 DEF ReadDue, StarterUnchanged, StartRun, OrderInv, Pending
  <2>3. DateInv'
    BY <1>2 DEF ReadDue, StarterUnchanged, StartRun, DateInv
  <2>4. RiskInv'
    BY <1>2 DEF ReadDue, StarterUnchanged, StartRun, RiskInv, OrderInv, Pending
  <2> QED
    BY <2>1, <2>2, <2>3, <2>4
<1>3. CASE \E s \in Starter : StartAutomatic(s)
  <2>1. TypeOK'
    <3>1. run \in RunT
      BY DEF RunT
    <3>2. run' \in RunT
      BY <1>3, <3>1, RunTyped DEF StartAutomatic, StartRun
    <3> QED
      BY <1>3, <3>2 DEF StartAutomatic, StarterUnchanged, StartRun, RunT, StateT
  <2>2. OrderInv'
    BY <1>3 DEF StartAutomatic, StarterUnchanged, StartRun, OrderInv, Pending
  <2>3. DateInv'
    BY <1>3 DEF StartAutomatic, StarterUnchanged, StartRun, DateInv
  <2>4. RiskInv'
    BY <1>3 DEF StartAutomatic, StarterUnchanged, StartRun, RiskInv, OrderInv, Pending
  <2> QED
    BY <2>1, <2>2, <2>3, <2>4
<1>4. CASE \E s \in Starter : StartRefused(s)
  <2>1. TypeOK'
    BY <1>4 DEF StartRefused, StarterUnchanged, StartRun
  <2>2. OrderInv'
    BY <1>4 DEF StartRefused, StarterUnchanged, StartRun, OrderInv, Pending
  <2>3. DateInv'
    BY <1>4 DEF StartRefused, StarterUnchanged, StartRun, DateInv
  <2>4. RiskInv'
    BY <1>4 DEF StartRefused, StarterUnchanged, StartRun, RiskInv, OrderInv, Pending
  <2> QED
    BY <2>1, <2>2, <2>3, <2>4
<1>5. CASE ClaimDay
  <2>1. TypeOK'
    BY <1>5 DEF ClaimDay, StarterUnchanged, StartRun
  <2>2. OrderInv'
    BY <1>5 DEF ClaimDay, StarterUnchanged, StartRun, OrderInv, Pending
  <2>3. DateInv'
    BY <1>5 DEF ClaimDay, StarterUnchanged, StartRun, DateInv
  <2>4. RiskInv'
    BY <1>5 DEF ClaimDay, StarterUnchanged, StartRun, RiskInv, OrderInv, Pending
  <2> QED
    BY <2>1, <2>2, <2>3, <2>4
<1> QED
  BY <1>1, <1>2, <1>3, <1>4, <1>5 DEF StartStep

LEMMA RunIInv ==
  ASSUME IInv, RunStep
  PROVE  IInv'
<1> USE MaxDaysAssumption DEF IInv, TypeOK, Day, RunStage, Outcome, NoRun, NoDay, NoTarget, Starter, history
<1>1. CASE ReadConfig
  <2>1. TypeOK'
    <3>1. run \in RunT
      BY DEF RunT
    <3>2. cfg.target \in Target \cup {NoTarget}
      BY DEF Config
    <3>3. run' \in RunT
      BY <1>1, <3>1, <3>2, RunTyped DEF ReadConfig
    <3> QED
      BY <1>1, <3>3 DEF ReadConfig, RunUnchanged, RunT, StateT
  <2>2. OrderInv'
    BY <1>1 DEF ReadConfig, RunUnchanged, OrderInv, Pending
  <2>3. DateInv'
    BY <1>1 DEF ReadConfig, RunUnchanged, DateInv
  <2>4. RiskInv'
    BY <1>1 DEF ReadConfig, RunUnchanged, RiskInv, OrderInv, Pending
  <2> QED
    BY <2>1, <2>2, <2>3, <2>4
<1>2. CASE ReadState
  <2>1. TypeOK'
    <3>1. run \in RunT /\ day \in 0..MaxDays /\ "checked" \in RunStage
      BY DEF RunT
    <3>2. run' \in RunT
      BY <1>2, <3>1, RunTyped DEF ReadState
    <3> QED
      BY <1>2, <3>2 DEF ReadState, RunUnchanged, RunT, StateT
  <2>2. OrderInv'
    BY <1>2 DEF ReadState, RunUnchanged, OrderInv, Pending
  <2>3. DateInv'
    BY <1>2 DEF ReadState, RunUnchanged, DateInv
  <2>4. RiskInv'
    BY <1>2 DEF ReadState, RunUnchanged, RiskInv, OrderInv, Pending
  <2> QED
    BY <2>1, <2>2, <2>3, <2>4
<1>3. CASE CheckFails
  <2>1. TypeOK'
    BY <1>3 DEF CheckFails, RunUnchanged
  <2>2. OrderInv'
    BY <1>3 DEF CheckFails, RunUnchanged, OrderInv, Pending
  <2>3. DateInv'
    BY <1>3 DEF CheckFails, RunUnchanged, DateInv
  <2>4. RiskInv'
    BY <1>3 DEF CheckFails, RunUnchanged, RiskInv, OrderInv, Pending
  <2> QED
    BY <2>1, <2>2, <2>3, <2>4
<1>4. CASE SubmitOrder
  <2>1. TypeOK'
    <3>1. run \in RunT /\ state \in StateT
      BY DEF RunT, StateT
    <3>2. run' \in RunT /\ run.today \in 0..MaxDays
      BY <1>4, <3>1, RunTyped DEF SubmitOrder
    <3>3. state' \in StateT
      BY <1>4, <3>1, <3>2, StateTyped DEF SubmitOrder
    <3>4. dates' \subseteq Day
      BY <1>4 DEF SubmitOrder, DateInv
    <3> QED
      BY <1>4, <3>2, <3>3, <3>4 DEF SubmitOrder, RunUnchanged, RunT, StateT
  <2>2. OrderInv'
    BY <1>4 DEF SubmitOrder, RunUnchanged, OrderInv, Pending
  <2>3. DateInv'
    BY <1>4 DEF SubmitOrder, RunUnchanged, DateInv
  <2>4. RiskInv'
    BY <1>4 DEF SubmitOrder, RunUnchanged, RiskInv, OrderInv, Pending
  <2> QED
    BY <2>1, <2>2, <2>3, <2>4
<1>5. CASE PlaceOrder
  <2>1. TypeOK'
    BY <1>5 DEF PlaceOrder, RunUnchanged
  <2>2. OrderInv'
    BY <1>5 DEF PlaceOrder, RunUnchanged, OrderInv, Pending
  <2>3. DateInv'
    BY <1>5 DEF PlaceOrder, RunUnchanged, DateInv
  <2>4. RiskInv'
    BY <1>5 DEF PlaceOrder, RunUnchanged, RiskInv, OrderInv, Pending
  <2> QED
    BY <2>1, <2>2, <2>3, <2>4
<1>6. CASE OrderNotSent
  <2>1. TypeOK'
    BY <1>6 DEF OrderNotSent, RunUnchanged
  <2>2. OrderInv'
    BY <1>6 DEF OrderNotSent, RunUnchanged, OrderInv, Pending
  <2>3. DateInv'
    BY <1>6 DEF OrderNotSent, RunUnchanged, DateInv
  <2>4. RiskInv'
    BY <1>6 DEF OrderNotSent, RunUnchanged, RiskInv, OrderInv, Pending
  <2> QED
    BY <2>1, <2>2, <2>3, <2>4
<1>7. CASE \E o \in Outcome : OrderAnswered(o)
  <2> PICK o \in Outcome : OrderAnswered(o)
    BY <1>7
  <2>1. /\ run.stage = "sent"
        /\ run'.stage = "answered" /\ run'.outcome = o
        /\ run'.auto = run.auto /\ run'.today = run.today
        /\ blocked' = (blocked \/ o = "risk")
        /\ UNCHANGED <<day, cfg, state, claims, starter, saver, form, unanswered, hasty, dates>>
    BY DEF OrderAnswered, RunUnchanged
  <2>2. TypeOK'
    <3>1. run \in RunT
      BY DEF RunT
    <3>2. run' \in RunT
      BY <3>1, RunTyped DEF OrderAnswered
    <3> QED
      BY <2>1, <3>2 DEF RunT
  <2>3. OrderInv'
    BY <2>1 DEF OrderInv, Pending
  <2>4. DateInv'
    BY <2>1 DEF DateInv
  <2>5. RiskInv'
    BY <2>1 DEF RiskInv, OrderInv, Pending
  <2> QED
    BY <2>2, <2>3, <2>4, <2>5
<1>8. CASE RiskDisables
  <2>1. TypeOK'
    <3>1. run \in RunT
      BY DEF RunT
    <3>2. run' \in RunT
      BY <1>8, <3>1, RunTyped DEF RiskDisables
    <3>3. cfg' \in Config
      BY <1>8 DEF RiskDisables, Config
    <3> QED
      BY <1>8, <3>2, <3>3 DEF RiskDisables, RunUnchanged, RunT, StateT
  <2>2. OrderInv'
    BY <1>8 DEF RiskDisables, RunUnchanged, OrderInv, Pending
  <2>3. DateInv'
    BY <1>8 DEF RiskDisables, RunUnchanged, DateInv
  <2>4. RiskInv'
    BY <1>8 DEF RiskDisables, RunUnchanged, RiskInv, OrderInv, Pending
  <2> QED
    BY <2>1, <2>2, <2>3, <2>4
<1>9. CASE RecordOutcome
  <2>1. TypeOK'
    <3>1. run \in RunT /\ state \in StateT
      BY DEF RunT, StateT
    <3>2. run' \in RunT
      BY <1>9, RunTyped, <3>1 DEF RecordOutcome
    <3>3. run.outcome \in {"success", "failed", "unknown"} /\ run.today \in 0..MaxDays /\ state.success \in 0..MaxDays
      BY <1>9 DEF RecordOutcome
    <3>4. state' \in StateT
      BY <1>9, <3>1, <3>3, StateTyped DEF RecordOutcome
    <3> QED
      BY <1>9, <3>2, <3>4 DEF RecordOutcome, RunUnchanged, RunT, StateT
  <2>2. OrderInv'
    BY <1>9 DEF RecordOutcome, RunUnchanged, OrderInv, Pending
  <2>3. DateInv'
    BY <1>9 DEF RecordOutcome, RunUnchanged, DateInv
  <2>4. RiskInv'
    BY <1>9 DEF RecordOutcome, RunUnchanged, RiskInv, OrderInv, Pending
  <2> QED
    BY <2>1, <2>2, <2>3, <2>4
<1>10. CASE RecordFails
  <2>1. TypeOK'
    BY <1>10 DEF RecordFails, RunUnchanged
  <2>2. OrderInv'
    BY <1>10 DEF RecordFails, RunUnchanged, OrderInv, Pending
  <2>3. DateInv'
    BY <1>10 DEF RecordFails, RunUnchanged, DateInv
  <2>4. RiskInv'
    BY <1>10 DEF RecordFails, RunUnchanged, RiskInv, OrderInv, Pending
  <2> QED
    BY <2>1, <2>2, <2>3, <2>4
<1> QED
  BY <1>1, <1>2, <1>3, <1>4, <1>5, <1>6, <1>7, <1>8, <1>9, <1>10 DEF RunStep

LEMMA UserIInv ==
  ASSUME IInv, UserStep
  PROVE  IInv'
<1> USE MaxDaysAssumption DEF IInv, TypeOK, Day, RunStage, Outcome, NoRun, NoDay, NoTarget, Starter, history
<1>1. CASE \E h \in Handler, f \in Form : Validate(h, f)
  <2>1. TypeOK'
    BY <1>1 DEF Validate, UserUnchanged, StartRun, Config, Form, NoForm
  <2>2. OrderInv'
    BY <1>1 DEF Validate, UserUnchanged, StartRun, Config, Form, NoForm, OrderInv, Pending
  <2>3. DateInv'
    BY <1>1 DEF Validate, UserUnchanged, StartRun, Config, Form, NoForm, DateInv
  <2>4. RiskInv'
    BY <1>1 DEF Validate, UserUnchanged, StartRun, Config, Form, NoForm, RiskInv, OrderInv, Pending
  <2> QED
    BY <2>1, <2>2, <2>3, <2>4
<1>2. CASE \E h \in Handler : ValidateFails(h)
  <2>1. TypeOK'
    BY <1>2 DEF ValidateFails, UserUnchanged, StartRun, Config, Form, NoForm
  <2>2. OrderInv'
    BY <1>2 DEF ValidateFails, UserUnchanged, StartRun, Config, Form, NoForm, OrderInv, Pending
  <2>3. DateInv'
    BY <1>2 DEF ValidateFails, UserUnchanged, StartRun, Config, Form, NoForm, DateInv
  <2>4. RiskInv'
    BY <1>2 DEF ValidateFails, UserUnchanged, StartRun, Config, Form, NoForm, RiskInv, OrderInv, Pending
  <2> QED
    BY <2>1, <2>2, <2>3, <2>4
<1>3. CASE \E h \in Handler : SaveRedeem(h)
  <2>1. TypeOK'
    BY <1>3 DEF SaveRedeem, UserUnchanged, StartRun, Config, Form, NoForm
  <2>2. OrderInv'
    BY <1>3 DEF SaveRedeem, UserUnchanged, StartRun, Config, Form, NoForm, OrderInv, Pending
  <2>3. DateInv'
    BY <1>3 DEF SaveRedeem, UserUnchanged, StartRun, Config, Form, NoForm, DateInv
  <2>4. RiskInv'
    BY <1>3 DEF SaveRedeem, UserUnchanged, StartRun, Config, Form, NoForm, RiskInv, OrderInv, Pending
  <2> QED
    BY <2>1, <2>2, <2>3, <2>4
<1>4. CASE \E h \in Handler : StartImmediate(h)
  <2>1. /\ UNCHANGED <<day, cfg, state, claims, starter, form, unanswered, hasty, dates, blocked>>
        /\ saver' \in [Handler -> {"idle", "validated", "saved"}]
        /\ run' = run \/ run' = [NoRun EXCEPT !.stage = "launched", !.auto = FALSE]
    BY <1>4 DEF StartImmediate, StartRun, UserUnchanged
  <2>2. CASE run' = run
    <3>1. TypeOK'
      BY <2>1, <2>2
    <3>2. OrderInv' /\ DateInv' /\ RiskInv'
      BY <2>1, <2>2 DEF OrderInv, DateInv, RiskInv, Pending
    <3> QED
      BY <3>1, <3>2
  <2>3. CASE run' = [NoRun EXCEPT !.stage = "launched", !.auto = FALSE]
    <3>1. run \in RunT
      BY DEF RunT
    <3>2. run' \in RunT
      BY <2>3, <3>1, RunTyped
    <3>3. TypeOK'
      BY <2>1, <3>2 DEF RunT
    <3>4. run'.stage = "launched" /\ run'.auto = FALSE
      BY <2>3
    <3>5. OrderInv' /\ DateInv' /\ RiskInv'
      BY <2>1, <3>4 DEF OrderInv, DateInv, RiskInv, Pending
    <3> QED
      BY <3>3, <3>5
  <2> QED
    BY <2>1, <2>2, <2>3
<1>5. CASE StartManual
  <2>1. TypeOK'
    <3>1. run \in RunT
      BY DEF RunT
    <3>2. run' \in RunT
      BY <1>5, <3>1, RunTyped DEF StartManual, StartRun
    <3> QED
      BY <1>5, <3>2 DEF StartManual, UserUnchanged, StartRun, Config, Form, NoForm, RunT, StateT
  <2>2. OrderInv'
    BY <1>5 DEF StartManual, UserUnchanged, StartRun, Config, Form, NoForm, OrderInv, Pending
  <2>3. DateInv'
    BY <1>5 DEF StartManual, UserUnchanged, StartRun, Config, Form, NoForm, DateInv
  <2>4. RiskInv'
    BY <1>5 DEF StartManual, UserUnchanged, StartRun, Config, Form, NoForm, RiskInv, OrderInv, Pending
  <2> QED
    BY <2>1, <2>2, <2>3, <2>4
<1>6. CASE \E succeeded \in BOOLEAN : ResolveRedeem(succeeded)
  <2>1. TypeOK'
    <3>1. state \in StateT
      BY DEF StateT
    <3>2. \/ state' = [state EXCEPT !.status = "success", !.success = state.attempt]
          \/ state' = [state EXCEPT !.status = "failed", !.success = state.success]
      <4> PICK succeeded \in BOOLEAN : ResolveRedeem(succeeded)
        BY <1>6
      <4>1. CASE succeeded = TRUE
        BY <4>1 DEF ResolveRedeem
      <4>2. CASE succeeded = FALSE
        BY <4>2 DEF ResolveRedeem
      <4> QED
        BY <4>1, <4>2
    <3>3. state' \in StateT
      BY <3>1, <3>2, ResolvedTyped
    <3> QED
      BY <1>6, <3>3 DEF ResolveRedeem, UserUnchanged, StateT
  <2>2. OrderInv'
    BY <1>6 DEF ResolveRedeem, UserUnchanged, StartRun, Config, Form, NoForm, OrderInv, Pending
  <2>3. DateInv'
    BY <1>6 DEF ResolveRedeem, UserUnchanged, StartRun, Config, Form, NoForm, DateInv
  <2>4. RiskInv'
    BY <1>6 DEF ResolveRedeem, UserUnchanged, StartRun, Config, Form, NoForm, RiskInv, OrderInv, Pending
  <2> QED
    BY <2>1, <2>2, <2>3, <2>4
<1> QED
  BY <1>1, <1>2, <1>3, <1>4, <1>5, <1>6 DEF UserStep

LEMMA TimeIInv ==
  ASSUME IInv, DayPasses \/ CrashAndRestart
  PROVE  IInv'
<1> USE MaxDaysAssumption DEF IInv, TypeOK, Day, RunStage, Outcome, NoRun, NoDay, NoTarget, Starter, history
<1>1. CASE DayPasses
  <2>1. TypeOK'
    BY <1>1 DEF DayPasses, NoForm, Form
  <2>2. OrderInv'
    BY <1>1 DEF DayPasses, NoForm, Form, OrderInv, Pending
  <2>3. DateInv'
    BY <1>1 DEF DayPasses, NoForm, Form, DateInv
  <2>4. RiskInv'
    BY <1>1 DEF DayPasses, NoForm, Form, RiskInv, OrderInv, Pending
  <2> QED
    BY <2>1, <2>2, <2>3, <2>4
<1>2. CASE CrashAndRestart
  <2>1. TypeOK'
    BY <1>2 DEF CrashAndRestart, NoForm, Form
  <2>2. OrderInv'
    BY <1>2 DEF CrashAndRestart, NoForm, Form, OrderInv, Pending
  <2>3. DateInv'
    BY <1>2 DEF CrashAndRestart, NoForm, Form, DateInv
  <2>4. RiskInv'
    BY <1>2 DEF CrashAndRestart, NoForm, Form, RiskInv, OrderInv, Pending
  <2> QED
    BY <2>1, <2>2, <2>3, <2>4
<1> QED
  BY <1>1, <1>2

----------------------------------------------------------------------------

LEMMA StepIInv == IInv /\ [Next]_vars => IInv'
<1> SUFFICES ASSUME IInv, [Next]_vars
             PROVE  IInv'
  OBVIOUS
<1>1. CASE UNCHANGED vars
  BY <1>1 DEF vars, history, IInv, TypeOK, OrderInv, DateInv, RiskInv, Pending
<1> QED
  BY <1>1, StartIInv, RunIInv, UserIInv, TimeIInv DEF Next

LEMMA Invariance == Spec => []IInv
BY InitIInv, StepIInv, PTL DEF Spec

\* Configuration, order state and task have their types in every state; no
\* recorded date lies outside the days that passed.
THEOREM TypeCorrect == Spec => []TypeOK
BY Invariance, PTL DEF IInv

\* No order is sent on top of one whose result is unknown, whatever crashes,
\* failed writes, stopped tasks and overlapping starts come between, unless the
\* user has resolved an order in flight (redeem, ResolveRedeem).
THEOREM NoSecondOrder == Spec => OrdersWait
<1>1. IInv => [PlaceOrder => ~unanswered \/ hasty]_vars
  BY DEF IInv, OrderInv, PlaceOrder
<1> QED
  BY <1>1, Invariance, PTL DEF OrdersWait

\* For every interval and any number of days: an automatic order is the only
\* one of its date, though the date check of redeemDue is stale when the task
\* begins (manager.go:1489 repeats it).
THEOREM OneAutomaticOrder == Spec => AutomaticOncePerDate
<1>1. IInv => [SubmitOrder /\ run.auto => run.today \notin dates]_vars
  BY DEF IInv, DateInv, SubmitOrder
<1> QED
  BY <1>1, Invariance, PTL DEF AutomaticOncePerDate

\* Once the platform has answered risk control, no automatic order follows
\* before the user acts, also when the program ends before it has disabled
\* redeeming (with the proviso of NoSecondOrder).
THEOREM RiskControlHolds == Spec => RiskControlStops
<1>1. IInv => [SubmitOrder /\ run.auto => ~blocked \/ hasty]_vars
  BY DEF IInv, RiskInv, SubmitOrder
<1> QED
  BY <1>1, Invariance, PTL DEF RiskControlStops


----------------------------------------------------------------------------
(* Logins and device verification                                           *)

\* Who works, how far, and with what.
KeeperPc == {"idle", "claim", "load", "login", "save", "check", "list", "again"}
TaskPc == {"idle", "look", "login", "save", "put", "call"}
PagePc == {"idle", "clearweb", "clearnative", "clearshared", "restart", "begin", "ask", "sms",
           "sent", "bind", "bound"}
KeeperT == [pc : KeeperPc, cred : Credential \cup {None}, profile : Profile \cup {None}]
TaskT == [pc : TaskPc, kind : {"login", "chat", "status"}, cred : Credential \cup {None},
          object : Object \cup {None}, again : BOOLEAN]
PageT == [pc : PagePc, cred : Credential \cup {None}]
Client == [cred : Credential, profile : Credential \cup {None}]
SessionT == [owner : Keeper \cup {None}, ready : BOOLEAN]
SharedT == [object : Object, late : BOOLEAN]

AuthTypes ==
    /\ row \in Row \cup {None} /\ bonded \in SUBSET Devices
    /\ web \in Kept \cup {None} /\ native \in Kept \cup {None}
    /\ session \in SessionT
    /\ object \in [Object -> Client \cup {None}]
    /\ shared \in SharedT \cup {None}
    /\ verify \in Credential \cup {None}
    /\ keeper \in [Keeper -> KeeperT]
    /\ task \in [Task -> TaskT]
    /\ page \in [Page -> PageT]
    /\ edits \in 0 .. MaxEdits

\* Whoever is at work has credentials, and a login where one has been made.
WorkInv ==
    /\ \A k \in Keeper :
          /\ keeper[k].pc # "idle" => keeper[k].cred \in Credential
          /\ keeper[k].pc \in {"save", "check"} => keeper[k].profile \in Profile
    /\ \A t \in Task : task[t].pc # "idle" => task[t].cred \in Credential
    /\ \A p \in Page :
          page[p].pc \in {"ask", "sms", "sent", "bind", "bound"} => page[p].cred \in Credential

\* A client object that somebody refers to is there; a task that has looked one
\* up refers to it.
ClientInv ==
    /\ shared # None => object[shared.object] \in Client
    /\ \A t \in Task :
          /\ task[t].object # None => object[task[t].object] \in Client
          /\ task[t].pc \in {"save", "put", "call"} => task[t].object # None
          /\ task[t].pc = "login" /\ task[t].kind # "login" => task[t].object # None

\* A login, and a bound device, is evidence that lasts: the platform forgets none.
BondInv ==
    /\ \A k \in Keeper :
          keeper[k].pc \in {"save", "check"} /\ keeper[k].profile.bonded =>
              Device[keeper[k].profile.cred] \in bonded
    /\ web # None /\ web.bonded => Device[web.cred] \in bonded
    /\ \A p \in Page : page[p].pc = "bound" => Device[page[p].cred] \in bonded

AuthInv == AuthTypes /\ WorkInv /\ ClientInv /\ BondInv /\ OldLoginsAreCleared

\* What steps may do to the account's row without an edit, and to its web login.
RowKept ==
    /\ row' \in Row \cup {None}
    /\ Exists' <=> Exists
    /\ Exists => row'.cred = row.cred
Evident(h) == h.bonded => Device[h.cred] \in bonded
WebKept == web' \in {web, None} \/ \E h \in Profile : Evident(h) /\ web' = Saved(h)

LEMMA StatusSet ==
  ASSUME AuthTypes, NEW s \in Status, SetDeviceStatus(s) \/ row' = row
  PROVE  RowKept
<1>1. CASE Exists
  BY <1>1, NoneAssumption DEF AuthTypes, RowKept, SetDeviceStatus, Exists, Row
<1>2. CASE ~Exists
  BY <1>2 DEF AuthTypes, RowKept, SetDeviceStatus, Exists
<1> QED
  BY <1>1, <1>2

\* A login is kept only of an account that is there; if it is not of the
\* credentials in force, it is marked.
LEMMA SavedKept ==
  ASSUME AuthTypes, NEW h \in Profile
  PROVE  /\ Saved(h) \in Kept \cup {None}
         /\ Saved(h) # None =>
               /\ Exists
               /\ Saved(h).bonded = h.bonded /\ Saved(h).cred = h.cred
               /\ Saved(h).cred = row.cred \/ Saved(h).late
BY DEF Saved, Keep, Kept, Profile

LEMMA WebKeeps ==
  ASSUME AuthInv, RowKept, WebKept
  PROVE  /\ web' \in Kept \cup {None}
         /\ web' # None /\ web'.bonded => Device[web'.cred] \in bonded
         /\ web' # None => /\ Exists'
                           /\ \/ web'.cred = row'.cred \/ web'.late
                              \/ web' = web /\ Clearing({"clearweb"})
<1> USE DEF AuthInv, AuthTypes, RowKept
<1>1. CASE web' \in {web, None}
  BY <1>1 DEF BondInv, OldLoginsAreCleared
<1>2. CASE \E h \in Profile : Evident(h) /\ web' = Saved(h)
  BY <1>2, SavedKept DEF Evident
<1> QED
  BY <1>1, <1>2 DEF WebKept

LEMMA AnswersAreEvident ==
  ASSUME NEW c \in Credential
  PROVE  Answer(c) \in Profile /\ Evident(Answer(c))
<1>1. (Device[c] \in bonded) \in BOOLEAN
  OBVIOUS
<1>2. \A b \in BOOLEAN : [cred |-> c, bonded |-> b] \in Profile
  BY DEF Profile
<1>3. Answer(c) \in Profile
  BY <1>1, <1>2 DEF Answer
<1>4. Answer(c).cred = c /\ Answer(c).bonded = (Device[c] \in bonded)
  BY DEF Answer
<1>5. Evident(Answer(c))
  BY <1>4 DEF Evident
<1> QED
  BY <1>3, <1>5

----------------------------------------------------------------------------

\* A keeper's step.
LEMMA KeeperKeeps ==
  ASSUME AuthInv, RowKept, WebKept, session' \in SessionT,
         NEW k \in Keeper, NEW h \in KeeperT, keeper' = [keeper EXCEPT ![k] = h],
         h.pc # "idle" => h.cred \in Credential,
         h.pc \in {"save", "check"} => h.profile \in Profile /\ Evident(h.profile),
         UNCHANGED <<bonded, native, object, shared, verify, task, page, edits>>
  PROVE  AuthInv'
<1> USE DEF AuthInv
<1>1. AuthTypes'
  BY WebKeeps DEF AuthTypes, RowKept
<1>2. \A j \in Keeper : keeper'[j] = IF j = k THEN h ELSE keeper[j]
  BY DEF AuthTypes
<1>3. WorkInv'
  BY <1>2 DEF WorkInv
<1>4. ClientInv'
  BY DEF ClientInv
<1>5. BondInv'
  BY <1>2, WebKeeps DEF BondInv, Evident
<1>6. OldLoginsAreCleared'
  BY WebKeeps DEF OldLoginsAreCleared, RowKept, Clearing, Late, Exists
<1> QED
  BY <1>1, <1>3, <1>4, <1>5, <1>6

LEMMA KeeperStates ==
  ASSUME NEW pc \in KeeperPc, NEW c \in Credential \cup {None}, NEW h \in Profile \cup {None}
  PROVE  [pc |-> pc, cred |-> c, profile |-> h] \in KeeperT
BY DEF KeeperT

LEMMA KeeperSteps ==
  ASSUME AuthInv, NEW k \in Keeper, KeeperNext(k)
  PROVE  AuthInv'
<1>1. /\ AuthTypes /\ WorkInv /\ BondInv /\ keeper[k] \in KeeperT /\ session \in SessionT
      /\ keeper[k].profile \in Profile \cup {None}
      /\ keeper[k].pc # "idle" => keeper[k].cred \in Credential
      /\ keeper[k].pc \in {"save", "check"} => keeper[k].profile \in Profile
      /\ keeper[k].pc \in {"save", "check"} => Evident(keeper[k].profile)
  BY DEF AuthInv, AuthTypes, WorkInv, BondInv, KeeperT, Evident
<1>2. /\ Idle \in KeeperT /\ Idle.pc = "idle"
      /\ \A pc \in KeeperPc, c \in Credential \cup {None}, h \in Profile \cup {None} :
            [pc |-> pc, cred |-> c, profile |-> h] \in KeeperT
  BY DEF KeeperT, KeeperPc, Idle
<1>3. /\ NoSession \in SessionT
      /\ \A b \in BOOLEAN : [owner |-> k, ready |-> b] \in SessionT
      /\ \A b \in BOOLEAN : SetState(k, b) => session' \in SessionT
  BY <1>1 DEF SessionT, NoSession, SetState
<1>4. /\ (row' = row \/ \E s \in Status : SetDeviceStatus(s)) => RowKept
      /\ {"pending", "verified"} \subseteq Status
  BY <1>1, StatusSet DEF Status
<1>5. CASE Reconcile(k)
  <2>1. row.cred \in Credential
    BY <1>1, <1>5 DEF Reconcile, Wanted, Exists, AuthTypes, Row
  <2> QED
    BY <1>1, <1>2, <1>4, <1>5, <2>1, KeeperKeeps DEF Reconcile, KeeperGoes, WebKept, KeeperPc
<1>6. CASE Claim(k)
  BY <1>1, <1>2, <1>3, <1>4, <1>6, KeeperKeeps DEF Claim, KeeperGoes, WebKept, KeeperPc
<1>7. CASE Load(k)
  <2>1. CachedProfile \in Profile \cup {None} /\ (CachedProfile # None => Evident(CachedProfile))
    BY <1>1 DEF CachedProfile, AuthTypes, Kept, Profile, BondInv, Evident
  <2> QED
    BY <1>1, <1>2, <1>4, <1>7, <2>1, KeeperKeeps DEF Load, KeeperGoes, WebKept, KeeperPc
<1>8. CASE KeeperLogin(k)
  <2>1. Answer(keeper[k].cred) \in Profile /\ Evident(Answer(keeper[k].cred))
    BY <1>1, <1>8, AnswersAreEvident DEF KeeperLogin
  <2> QED
    BY <1>1, <1>2, <1>3, <1>4, <1>8, <2>1, KeeperKeeps DEF KeeperLogin, KeeperGoes, WebKept, KeeperPc
<1>9. CASE KeeperSave(k)
  <2>1. WebKept
    BY <1>1, <1>9 DEF KeeperSave, WebKept
  <2> QED
    BY <1>1, <1>2, <1>4, <1>9, <2>1, KeeperKeeps DEF KeeperSave, KeeperGoes, KeeperPc
<1>10. CASE KeeperCheck(k)
  BY <1>1, <1>2, <1>3, <1>4, <1>10, KeeperKeeps DEF KeeperCheck, KeeperGoes, WebKept, KeeperPc
<1>11. CASE KeeperList(k)
  BY <1>1, <1>2, <1>3, <1>4, <1>11, KeeperKeeps DEF KeeperList, KeeperGoes, WebKept, KeeperPc
<1>12. CASE KeeperAgain(k)
  <2>1. WebKept
    BY <1>1, <1>12, AnswersAreEvident DEF KeeperAgain, WebKept
  <2> QED
    BY <1>1, <1>2, <1>3, <1>4, <1>12, <2>1, KeeperKeeps DEF KeeperAgain
<1> QED
  BY <1>5, <1>6, <1>7, <1>8, <1>9, <1>10, <1>11, <1>12 DEF KeeperNext

----------------------------------------------------------------------------

\* A page's step, of one that is not clearing what was kept.
LEMMA PageKeeps ==
  ASSUME AuthInv, RowKept, session' \in SessionT, verify' \in Credential \cup {None},
         bonded' \in SUBSET Devices, bonded \subseteq bonded',
         NEW p \in Page, NEW h \in PageT, page' = [page EXCEPT ![p] = h],
         page[p].pc \notin {"clearweb", "clearnative", "clearshared"},
         h.pc \in {"ask", "sms", "sent", "bind", "bound"} => h.cred \in Credential,
         h.pc = "bound" => Device[h.cred] \in bonded',
         UNCHANGED <<web, native, object, shared, keeper, task, edits>>
  PROVE  AuthInv'
<1> USE DEF AuthInv
<1>1. AuthTypes'
  BY DEF AuthTypes, RowKept
<1>2. \A q \in Page : page'[q] = IF q = p THEN h ELSE page[q]
  BY DEF AuthTypes
<1>3. WorkInv'
  BY <1>2 DEF WorkInv
<1>4. ClientInv'
  BY DEF ClientInv
<1>5. BondInv'
  BY <1>2 DEF BondInv
<1>6. OldLoginsAreCleared'
  <2>1. /\ Clearing({"clearweb"}) => Clearing({"clearweb"})'
        /\ Clearing({"clearweb", "clearnative"}) => Clearing({"clearweb", "clearnative"})'
        /\ Clearing({"clearweb", "clearnative", "clearshared"}) =>
              Clearing({"clearweb", "clearnative", "clearshared"})'
    BY <1>2 DEF Clearing
  <2> QED
    BY <2>1 DEF OldLoginsAreCleared, RowKept, Late, Exists
<1> QED
  BY <1>1, <1>3, <1>4, <1>5, <1>6

LEMMA PageSteps ==
  ASSUME AuthInv, NEW p \in Page, PageNext(p)
  PROVE  AuthInv'
<1>1. /\ AuthTypes /\ WorkInv /\ ClientInv /\ BondInv /\ OldLoginsAreCleared
      /\ page[p] \in PageT /\ page[p].cred \in Credential \cup {None}
      /\ session \in SessionT /\ verify \in Credential \cup {None}
      /\ page[p].pc \in {"ask", "sms", "sent", "bind", "bound"} => page[p].cred \in Credential
      /\ page[p].pc = "bound" => Device[page[p].cred] \in bonded
      /\ bonded \in SUBSET Devices
  BY DEF AuthInv, AuthTypes, WorkInv, BondInv, PageT
<1>2. /\ NoRequest \in PageT /\ NoRequest.pc = "idle" /\ NoSession \in SessionT
      /\ \A pc \in PagePc, c \in Credential \cup {None} : [pc |-> pc, cred |-> c] \in PageT
  BY DEF PageT, PagePc, NoRequest, SessionT, NoSession
<1>3. /\ (row' = row \/ \E s \in Status : SetDeviceStatus(s)) => RowKept
      /\ {"pending", "verified"} \subseteq Status
  BY <1>1, StatusSet DEF Status
<1>4. Exists => row \in Row /\ row.cred \in Credential
  BY <1>1 DEF AuthTypes, Exists, Row
<1>5. \A h \in PageT : page' = [page EXCEPT ![p] = h] =>
         /\ page' \in [Page -> PageT]
         /\ \A q \in Page : page'[q] = IF q = p THEN h ELSE page[q]
  BY <1>1 DEF AuthTypes
<1>a. CASE RestartKeepalive(p) \/ StartVerification(p) \/ Begin(p)
  BY <1>1, <1>2, <1>3, <1>4, <1>a, PageKeeps
     DEF RestartKeepalive, StartVerification, Begin, PageGoes, PageEnds, PagePc
<1>b. CASE Ask(p)
  BY <1>1, <1>2, <1>3, <1>b, PageKeeps DEF Ask, PageGoes, PageEnds, PagePc
<1>c. CASE SendSMS(p) \/ Sent(p)
  BY <1>1, <1>2, <1>3, <1>c, PageKeeps DEF SendSMS, Sent, PageGoes, PageEnds, PagePc
<1>d. CASE Complete(p)
  <2>1. verify \in Credential
    BY <1>1, <1>d DEF Complete
  <2> QED
    BY <1>1, <1>2, <1>3, <1>d, <2>1, PageKeeps DEF Complete, PageGoes, PagePc
<1>e. CASE BindDevice(p)
  <2>1. page[p].cred \in Credential /\ Device[page[p].cred] \in Devices
    BY <1>1, <1>e DEF BindDevice, Devices
  <2>2. bonded \cup {Device[page[p].cred]} \in SUBSET Devices
    BY <1>1, <2>1
  <2> QED
    BY <1>1, <1>2, <1>3, <1>e, <2>1, <2>2, PageKeeps DEF BindDevice, PageGoes, PageEnds, PagePc
<1>k. CASE Bound(p)
  BY <1>1, <1>2, <1>3, <1>k, PageKeeps DEF Bound, PageGoes, PageEnds, PagePc
<1>f. CASE Save(p)
  <2> PICK c \in Credential, on \in BOOLEAN :
         row' = SavedRow(c, on) /\ PageGoes(p, "clearweb", IF on THEN c ELSE None)
    BY <1>f DEF Save
  <2>1. /\ row' \in Row /\ row' # None
        /\ edits' \in 0 .. MaxEdits
        /\ UNCHANGED <<bonded, web, native, session, object, shared, verify, keeper, task>>
    <3>1. Exists /\ edits < MaxEdits /\ edits' = edits + 1 /\ edits \in 0 .. MaxEdits
      BY <1>1, <1>f DEF Save, AuthTypes
    <3>2. SavedRow(c, on) \in Row
      BY <1>4, <3>1 DEF SavedRow, Row, Status
    <3> QED
      BY <1>f, <3>1, <3>2, NoneAssumption, EditsAssumption DEF Save
  <2>2. page' \in [Page -> PageT] /\ page'[p].pc = "clearweb"
        /\ \A q \in Page \ {p} : page'[q] = page[q]
    BY <1>2, <1>5 DEF PageGoes, PagePc
  <2>3. Clearing({"clearweb"})' /\ Clearing({"clearweb", "clearnative"})'
        /\ Clearing({"clearweb", "clearnative", "clearshared"})'
    BY <2>2 DEF Clearing
  <2>a. AuthTypes'
    BY <1>1, <2>1, <2>2 DEF AuthTypes
  <2>b. WorkInv' /\ ClientInv' /\ BondInv'
    BY <1>1, <2>1, <2>2 DEF WorkInv, ClientInv, BondInv
  <2>c. OldLoginsAreCleared'
    BY <1>1, <2>1, <2>3 DEF OldLoginsAreCleared, Exists
  <2> QED
    BY <2>a, <2>b, <2>c DEF AuthInv
<1>g. CASE Delete(p)
  <2>1. /\ row' = None /\ web' = None /\ native' = None
        /\ UNCHANGED <<bonded, session, object, shared, verify, keeper, task, edits>>
    BY <1>g DEF Delete
  <2>2. page' \in [Page -> PageT] /\ page'[p].pc = "clearnative"
        /\ \A q \in Page \ {p} : page'[q] = page[q]
    BY <1>2, <1>5, <1>g DEF Delete, PageGoes, PagePc
  <2>3. Clearing({"clearweb", "clearnative", "clearshared"})'
    BY <2>2 DEF Clearing
  <2>a. AuthTypes'
    BY <1>1, <2>1, <2>2 DEF AuthTypes
  <2>b. WorkInv' /\ ClientInv' /\ BondInv'
    BY <1>1, <2>1, <2>2 DEF WorkInv, ClientInv, BondInv
  <2>c. OldLoginsAreCleared'
    BY <1>1, <2>1, <2>3 DEF OldLoginsAreCleared
  <2> QED
    BY <2>a, <2>b, <2>c DEF AuthInv
<1>h. CASE ClearWeb(p)
  <2>1. /\ web' = None
        /\ UNCHANGED <<row, bonded, native, session, object, shared, verify, keeper, task, edits>>
    BY <1>h DEF ClearWeb
  <2>2. page' \in [Page -> PageT] /\ page'[p].pc = "clearnative"
        /\ \A q \in Page \ {p} : page'[q] = page[q]
    BY <1>1, <1>2, <1>5, <1>h DEF ClearWeb, PageGoes, PagePc
  <2>3. Clearing({"clearweb", "clearnative"})'
        /\ Clearing({"clearweb", "clearnative", "clearshared"})'
    BY <2>2 DEF Clearing
  <2>a. AuthTypes'
    BY <1>1, <2>1, <2>2 DEF AuthTypes
  <2>b. WorkInv' /\ ClientInv' /\ BondInv'
    BY <1>1, <2>1, <2>2 DEF WorkInv, ClientInv, BondInv
  <2>c. OldLoginsAreCleared'
    BY <1>1, <2>1, <2>3 DEF OldLoginsAreCleared, Exists
  <2> QED
    BY <2>a, <2>b, <2>c DEF AuthInv
<1>i. CASE ClearNative(p)
  <2>1. /\ native' = None
        /\ UNCHANGED <<row, bonded, web, session, object, shared, verify, keeper, task, edits>>
    BY <1>i DEF ClearNative
  <2>2. page' \in [Page -> PageT] /\ page'[p].pc = "clearshared" /\ page[p].pc = "clearnative"
        /\ \A q \in Page \ {p} : page'[q] = page[q]
    BY <1>1, <1>2, <1>5, <1>i DEF ClearNative, PageGoes, PagePc
  <2>3. /\ Clearing({"clearweb"}) => Clearing({"clearweb"})'
        /\ Clearing({"clearweb", "clearnative", "clearshared"})'
    BY <2>2 DEF Clearing
  <2>a. AuthTypes'
    BY <1>1, <2>1, <2>2 DEF AuthTypes
  <2>b. WorkInv' /\ ClientInv' /\ BondInv'
    BY <1>1, <2>1, <2>2 DEF WorkInv, ClientInv, BondInv
  <2>c. OldLoginsAreCleared'
    BY <1>1, <2>1, <2>3 DEF OldLoginsAreCleared, Exists
  <2> QED
    BY <2>a, <2>b, <2>c DEF AuthInv
<1>j. CASE ClearShared(p)
  <2>1. /\ shared' = None /\ Collect(object, None, task)
        /\ UNCHANGED <<row, bonded, web, native, session, verify, keeper, task, edits>>
    BY <1>j DEF ClearShared
  <2>2. page' \in [Page -> PageT] /\ page'[p].pc \in {"restart", "begin"}
        /\ page[p].pc = "clearshared" /\ \A q \in Page \ {p} : page'[q] = page[q]
    BY <1>1, <1>2, <1>5, <1>j DEF ClearShared, PageGoes, PagePc
  <2>3. /\ Clearing({"clearweb"}) => Clearing({"clearweb"})'
        /\ Clearing({"clearweb", "clearnative"}) => Clearing({"clearweb", "clearnative"})'
    BY <2>2 DEF Clearing
  <2>4. /\ object' \in [Object -> Client \cup {None}]
        /\ \A t \in Task : task[t].object \in Object => object'[task[t].object] = object[task[t].object]
    BY <1>1, <2>1 DEF Collect, Referred, AuthTypes
  <2>a. AuthTypes'
    BY <1>1, <2>1, <2>2, <2>4 DEF AuthTypes
  <2>b. WorkInv' /\ BondInv'
    BY <1>1, <2>1, <2>2 DEF WorkInv, BondInv
  <2>c. ClientInv'
    BY <1>1, <2>1, <2>4 DEF ClientInv, AuthTypes, TaskT
  <2>d. OldLoginsAreCleared'
    BY <1>1, <2>1, <2>3 DEF OldLoginsAreCleared, Exists
  <2> QED
    BY <2>a, <2>b, <2>c, <2>d DEF AuthInv
<1> QED
  BY <1>a, <1>b, <1>c, <1>d, <1>e, <1>f, <1>g, <1>h, <1>i, <1>j, <1>k DEF PageNext

----------------------------------------------------------------------------

\* An object that somebody refers to is not collected.
LEMMA CollectKeeps ==
  ASSUME NEW f \in [Object -> Client \cup {None}], Collect(f, shared', task')
  PROVE  /\ object' \in [Object -> Client \cup {None}]
         /\ shared' # None /\ shared'.object \in Object =>
               object'[shared'.object] = f[shared'.object]
         /\ \A t \in Task : task'[t].object \in Object =>
               object'[task'[t].object] = f[task'[t].object]
BY DEF Collect, Referred

\* A task's step; f is what it made of the objects before those that nobody refers
\* to are collected.
LEMMA TaskKeeps ==
  ASSUME AuthInv, WebKept, session' \in SessionT,
         NEW t \in Task, task' \in [Task -> TaskT], \A u \in Task \ {t} : task'[u] = task[u],
         task'[t].pc # "idle" => task'[t].cred \in Credential,
         NEW f \in [Object -> Client \cup {None}], Collect(f, shared', task') \/ object' = f,
         \A o \in Object : Referred(o, shared, task) =>
               /\ f[o] \in Client /\ f[o].cred = object[o].cred
               /\ f[o].profile \in {None, object[o].profile, object[o].cred},
         task'[t].object # None => f[task'[t].object] \in Client,
         task'[t].pc \in {"save", "put", "call"} => task'[t].object # None,
         task'[t].pc = "login" /\ task'[t].kind # "login" => task'[t].object # None,
         native' \in Kept \cup {None},
         native' # None =>
               native' = native \/ (Exists /\ (native'.cred = row.cred \/ native'.late)),
         shared' = shared \/ \E o \in Object :
               /\ shared' = [object |-> o, late |-> Late(o)]
               /\ f[o] = object[o] /\ object[o] \in Client,
         UNCHANGED <<row, bonded, verify, keeper, page, edits>>
  PROVE  AuthInv'
<1> USE DEF AuthInv
<1>2. shared' \in SharedT \cup {None} /\ (shared' # None => shared'.object \in Object)
  <2>1. \A o \in Object : Late(o) \in BOOLEAN
    BY DEF Late
  <2> QED
    BY <2>1 DEF AuthTypes, SharedT
<1>3. /\ object' \in [Object -> Client \cup {None}]
      /\ shared' # None => object'[shared'.object] = f[shared'.object]
      /\ \A u \in Task : task'[u].object \in Object => object'[task'[u].object] = f[task'[u].object]
  <2>1. CASE object' = f
    BY <2>1
  <2>2. CASE Collect(f, shared', task')
    BY <1>2, <2>2, CollectKeeps
  <2> QED
    BY <2>1, <2>2
<1>4. RowKept
  BY DEF RowKept, AuthTypes, Exists
<1>5. AuthTypes'
  BY <1>2, <1>3, <1>4, WebKeeps DEF AuthTypes
<1>6. WorkInv'
  BY DEF WorkInv
<1>7. ClientInv'
  <2>1. shared' # None => object'[shared'.object] \in Client
    BY <1>2, <1>3 DEF ClientInv, Referred
  <2>2. ASSUME NEW u \in Task
        PROVE  /\ task'[u].object # None => object'[task'[u].object] \in Client
               /\ task'[u].pc \in {"save", "put", "call"} => task'[u].object # None
               /\ task'[u].pc = "login" /\ task'[u].kind # "login" => task'[u].object # None
    <3>1. task'[u].object \in Object \cup {None}
      BY DEF TaskT
    <3> QED
      BY <1>3, <3>1 DEF ClientInv, AuthTypes, TaskT, Referred
  <2> QED
    BY <2>1, <2>2 DEF ClientInv
<1>8. BondInv'
  BY <1>4, WebKeeps DEF BondInv
<1>9. OldLoginsAreCleared'
  <2>1. /\ Clearing({"clearweb"})' = Clearing({"clearweb"})
        /\ Clearing({"clearweb", "clearnative"})' = Clearing({"clearweb", "clearnative"})
        /\ Clearing({"clearweb", "clearnative", "clearshared"})'
              = Clearing({"clearweb", "clearnative", "clearshared"})
    BY DEF Clearing
  <2>2. web' # None => Exists' /\ (web'.cred = row'.cred \/ web'.late \/ Clearing({"clearweb"})')
    BY <1>4, <2>1, WebKeeps
  <2>3. native' # None =>
          Exists' /\ (native'.cred = row'.cred \/ native'.late \/ Clearing({"clearweb", "clearnative"})')
    BY <2>1 DEF OldLoginsAreCleared, Exists
  <2>4. shared' # None =>
          \/ shared'.late
          \/ Clearing({"clearweb", "clearnative", "clearshared"})'
          \/ Exists' /\ ~Late(shared.object)'
    <3>1. CASE shared' = shared
      BY <1>2, <1>3, <2>1, <3>1 DEF OldLoginsAreCleared, Exists, Late, ClientInv, Referred
    <3>2. CASE \E o \in Object : shared' = [object |-> o, late |-> Late(o)] /\ f[o] = object[o]
      <4> PICK o \in Object : shared' = [object |-> o, late |-> Late(o)] /\ f[o] = object[o]
        BY <3>2
      <4>1. CASE Late(o)
        BY <4>1
      <4>2. CASE ~Late(o)
        <5>1. shared' # None => shared'.object = o /\ object'[o] = object[o]
          BY <1>3
        <5> QED
          BY <4>2, <5>1 DEF Exists, Late
      <4> QED
        BY <4>1, <4>2
    <3> QED
      BY <3>1, <3>2
  <2> QED
    BY <2>2, <2>3, <2>4 DEF OldLoginsAreCleared
<1> QED
  BY <1>5, <1>6, <1>7, <1>8, <1>9

LEMMA ReferredIsThere ==
  ASSUME AuthInv, NEW o \in Object, Referred(o, shared, task)
  PROVE  object[o] \in Client
<1>1. CASE shared # None /\ shared.object = o
  BY <1>1 DEF AuthInv, ClientInv
<1>2. CASE \E u \in Task : task[u].object = o
  BY <1>2, NoneAssumption DEF AuthInv, ClientInv
<1> QED
  BY <1>1, <1>2 DEF Referred

\* A task's step that leaves the objects as they are.
LEMMA TaskKeepsObjects ==
  ASSUME AuthInv, WebKept, session' \in SessionT,
         NEW t \in Task, task' \in [Task -> TaskT], \A u \in Task \ {t} : task'[u] = task[u],
         task'[t].pc # "idle" => task'[t].cred \in Credential,
         Collect(object, shared', task') \/ object' = object,
         task'[t].object # None => object[task'[t].object] \in Client,
         task'[t].pc \in {"save", "put", "call"} => task'[t].object # None,
         task'[t].pc = "login" /\ task'[t].kind # "login" => task'[t].object # None,
         native' \in Kept \cup {None},
         native' # None =>
               native' = native \/ (Exists /\ (native'.cred = row.cred \/ native'.late)),
         shared' = shared \/ \E o \in Object :
               /\ shared' = [object |-> o, late |-> Late(o)]
               /\ object[o] \in Client,
         UNCHANGED <<row, bonded, verify, keeper, page, edits>>
  PROVE  AuthInv'
<1>1. object \in [Object -> Client \cup {None}]
  BY DEF AuthInv, AuthTypes
<1>2. \A o \in Object : Referred(o, shared, task) =>
         /\ object[o] \in Client /\ object[o].cred = object[o].cred
         /\ object[o].profile \in {None, object[o].profile, object[o].cred}
  BY ReferredIsThere
<1>3. shared' = shared \/ \E o \in Object :
         /\ shared' = [object |-> o, late |-> Late(o)]
         /\ object[o] = object[o] /\ object[o] \in Client
  OBVIOUS
<1> QED
  BY <1>1, <1>2, <1>3, TaskKeeps

\* A task's step that sets the profile of its client.
LEMMA TaskSetsProfile ==
  ASSUME AuthInv, NEW t \in Task, task[t].object \in Object,
         NEW x \in {None, object[task[t].object].cred},
         \/ object' = [object EXCEPT ![task[t].object].profile = x]
         \/ Collect([object EXCEPT ![task[t].object].profile = x], shared, task'),
         task' \in [Task -> TaskT], \A u \in Task \ {t} : task'[u] = task[u],
         task'[t].pc # "idle" => task'[t].cred \in Credential,
         task'[t].object = task[t].object
            \/ (task'[t].pc \in {"idle", "look"} /\ task'[t].object = None),
         native' = native \/ native' = None,
         UNCHANGED <<row, bonded, web, session, shared, verify, keeper, page, edits>>
  PROVE  AuthInv'
<1> DEFINE f == [object EXCEPT ![task[t].object].profile = x]
<1>1. /\ object \in [Object -> Client \cup {None}] /\ session' \in SessionT
      /\ native' \in Kept \cup {None} /\ task[t].object # None
      /\ object[task[t].object] \in Client /\ WebKept
  BY NoneAssumption DEF AuthInv, AuthTypes, ClientInv, WebKept
<1>2. /\ f \in [Object -> Client \cup {None}]
      /\ f[task[t].object] \in Client
      /\ f[task[t].object].cred = object[task[t].object].cred
      /\ f[task[t].object].profile = x
      /\ \A o \in Object \ {task[t].object} : f[o] = object[o]
  BY <1>1 DEF Client
<1>3. \A o \in Object : Referred(o, shared, task) =>
         /\ f[o] \in Client /\ f[o].cred = object[o].cred
         /\ f[o].profile \in {None, object[o].profile, object[o].cred}
  BY <1>2, ReferredIsThere
<1>4. task'[t].object # None => f[task'[t].object] \in Client
  BY <1>2
<1>5. task'[t].pc \notin {"idle", "look"} => task'[t].object # None
  BY <1>1
<1>6. shared' = shared /\ (Collect(f, shared', task') \/ object' = f)
  OBVIOUS
<1> HIDE DEF f
<1>7. native' # None => native' = native \/ (Exists /\ (native'.cred = row.cred \/ native'.late))
  OBVIOUS
<1> QED
  BY <1>1, <1>2, <1>3, <1>4, <1>5, <1>6, <1>7, TaskKeeps

LEMMA TaskSteps ==
  ASSUME AuthInv, NEW t \in Task, TaskNext(t)
  PROVE  AuthInv'
<1>1. /\ AuthTypes /\ ClientInv /\ task \in [Task -> TaskT] /\ task[t] \in TaskT
      /\ object \in [Object -> Client \cup {None}] /\ native \in Kept \cup {None}
      /\ task[t].object \in Object \cup {None} /\ session \in SessionT
      /\ task[t].pc # "idle" => task[t].cred \in Credential
      /\ task[t].object # None => object[task[t].object] \in Client
  BY DEF AuthInv, AuthTypes, TaskT, WorkInv, ClientInv
<1>2. /\ NoTask \in TaskT /\ NoTask.pc = "idle" /\ NoTask.object = None
  BY DEF TaskT, TaskPc, NoTask
<1>3. /\ [session EXCEPT !.ready = TRUE] \in SessionT
  BY <1>1 DEF SessionT
<1>4. ASSUME TaskEnds(t)
      PROVE  /\ task' \in [Task -> TaskT] /\ task'[t].pc = "idle" /\ task'[t].object = None
             /\ \A u \in Task \ {t} : task'[u] = task[u]
  BY <1>1, <1>2, <1>4 DEF TaskEnds
<1>5. ASSUME NEW pc \in TaskPc, TaskGoes(t, pc)
      PROVE  /\ task' \in [Task -> TaskT] /\ task'[t].pc = pc
             /\ task'[t].object = task[t].object /\ task'[t].cred = task[t].cred
             /\ task'[t].kind = task[t].kind /\ \A u \in Task \ {t} : task'[u] = task[u]
  BY <1>1, <1>5 DEF TaskGoes, TaskT
<1>6. TaskPc = {"idle", "look", "login", "save", "put", "call"}
  BY DEF TaskPc
<1>a. CASE ReadAccount(t)
  <2>1. PICK kind \in {"login", "chat", "status"} :
           task' = [task EXCEPT ![t] = [pc |-> "look", kind |-> kind, cred |-> row.cred,
                                        object |-> None, again |-> FALSE]]
    BY <1>a DEF ReadAccount
  <2>2. row.cred \in Credential
    BY <1>1, <1>a DEF ReadAccount, Exists, AuthTypes, Row
  <2>3. [pc |-> "look", kind |-> kind, cred |-> row.cred, object |-> None, again |-> FALSE]
          \in TaskT
    BY <2>2, <1>6 DEF TaskT
  <2>4. /\ task' \in [Task -> TaskT] /\ task'[t].pc = "look" /\ task'[t].object = None
        /\ task'[t].cred \in Credential /\ \A u \in Task \ {t} : task'[u] = task[u]
    BY <1>1, <2>1, <2>2, <2>3
  <2>5. /\ UNCHANGED <<row, bonded, web, native, object, shared, verify, keeper, page, edits>>
        /\ session' \in SessionT /\ WebKept /\ native \in Kept \cup {None}
    BY <1>1, <1>a DEF ReadAccount, WebKept
  <2> QED
    BY <2>4, <2>5, TaskKeepsObjects
<1>b. CASE UseWeb(t)
  <2>1. /\ UNCHANGED <<row, bonded, native, object, shared, verify, keeper, page, edits>>
        /\ task[t].kind = "login" /\ task[t].pc \in {"look", "login"}
        /\ session' \in SessionT
        /\ TaskEnds(t) \/ TaskGoes(t, "login")
    BY <1>1, <1>3, <1>b DEF UseWeb
  <2>2. WebKept
    BY <1>1, <1>b, AnswersAreEvident DEF UseWeb, WebKept
  <2>3. /\ task' \in [Task -> TaskT] /\ task'[t].pc \in {"idle", "login"}
        /\ task'[t].pc = "login" => task'[t].cred = task[t].cred /\ task'[t].kind = "login"
        /\ task'[t].object \in {None, task[t].object}
        /\ \A u \in Task \ {t} : task'[u] = task[u]
    BY <1>4, <1>5, <1>6, <2>1
  <2> QED
    BY <1>1, <2>1, <2>2, <2>3, TaskKeepsObjects
<1>7. \A o \in Object : Referred(o, shared, task) => object[o] \in Client
  BY ReferredIsThere
<1>c. CASE LookUp(t)
  <2>1. task[t].pc = "look" /\ task[t].kind # "login" /\ task[t].cred \in Credential
        /\ UNCHANGED <<row, bonded, web, native, session, shared, verify, keeper, page, edits>>
    BY <1>1, <1>c DEF LookUp
  <2>2. CASE shared # None
    <3>1. PICK pc \in {"call", "login"} :
             /\ task' = [task EXCEPT ![t].object = shared.object, ![t].pc = pc]
             /\ object' = object
      BY <1>c, <2>2 DEF LookUp
    <3>2. shared.object \in Object /\ object[shared.object] \in Client /\ shared.object # None
      BY <1>1, <2>2, NoneAssumption DEF AuthTypes, SharedT, ClientInv
    <3>3. /\ task' \in [Task -> TaskT] /\ task'[t].pc = pc /\ task'[t].object = shared.object
          /\ task'[t].cred = task[t].cred /\ \A u \in Task \ {t} : task'[u] = task[u]
      BY <1>1, <1>6, <3>1, <3>2 DEF TaskT
    <3> QED
      BY <1>1, <2>1, <3>1, <3>2, <3>3, TaskKeepsObjects DEF WebKept
  <2>3. CASE shared = None
    <3>1. PICK o \in Object, pc \in {"login", "put"}, x \in Credential \cup {None} :
             /\ ~Referred(o, shared, task)
             /\ object' = [object EXCEPT ![o] = [cred |-> task[t].cred, profile |-> x]]
             /\ task' = [task EXCEPT ![t].object = o, ![t].pc = pc]
      BY <1>1, <1>c, <2>3 DEF LookUp, Kept
    <3>2. /\ object' \in [Object -> Client \cup {None}] /\ object'[o] \in Client /\ o # None
          /\ \A y \in Object : Referred(y, shared, task) => object'[y] = object[y]
      BY <1>1, <2>1, <3>1, NoneAssumption DEF Client
    <3>3. /\ task' \in [Task -> TaskT] /\ task'[t].pc = pc /\ task'[t].object = o
          /\ task'[t].cred = task[t].cred /\ \A u \in Task \ {t} : task'[u] = task[u]
      BY <1>1, <1>6, <3>1 DEF TaskT
    <3> QED
      BY <1>1, <1>7, <2>1, <3>2, <3>3, TaskKeeps DEF WebKept
  <2> QED
    BY <2>2, <2>3
<1>d. CASE NativeLogin(t)
  <2>1. /\ task[t].pc = "login" /\ task[t].kind # "login" /\ task[t].cred \in Credential
        /\ task[t].object \in Object /\ object[task[t].object] \in Client
        /\ UNCHANGED <<row, bonded, web, native, session, shared, verify, keeper, page, edits>>
    BY <1>1, <1>d DEF NativeLogin, ClientInv
  <2>2. CASE TaskGoes(t, "save")
             /\ object' = [object EXCEPT ![task[t].object].profile = object[task[t].object].cred]
    <3>1. /\ task' \in [Task -> TaskT] /\ task'[t].pc = "save"
          /\ task'[t].object = task[t].object /\ task'[t].cred = task[t].cred
          /\ \A u \in Task \ {t} : task'[u] = task[u]
      BY <1>5, <1>6, <2>2
    <3>2. object[task[t].object].cred \in {None, object[task[t].object].cred}
      OBVIOUS
    <3> QED
      BY <2>1, <2>2, <3>1, <3>2, TaskSetsProfile
  <2>3. CASE TaskEnds(t) /\ Collect(object, shared', task')
    BY <1>1, <1>4, <2>1, <2>3, TaskKeepsObjects DEF WebKept
  <2> QED
    BY <1>d, <2>1, <2>2, <2>3 DEF NativeLogin
<1>e. CASE SaveNative(t)
  <2>1. /\ task[t].pc = "save" /\ task[t].cred \in Credential
        /\ task[t].object \in Object /\ object[task[t].object] \in Client
        /\ UNCHANGED <<row, bonded, web, session, shared, verify, keeper, page, edits>>
    BY <1>1, <1>e DEF SaveNative, ClientInv
  <2>2. CASE Exists
    <3>1. /\ native' = Saved(Answer(object[task[t].object].cred)) /\ object' = object
          /\ TaskGoes(t, "call") \/ TaskGoes(t, "put")
      BY <1>e, <2>2 DEF SaveNative, Saved
    <3>2. /\ native' \in Kept \cup {None}
          /\ native' # None => Exists /\ (native'.cred = row.cred \/ native'.late)
      BY <1>1, <2>1, <3>1, AnswersAreEvident, SavedKept DEF Client
    <3> QED
      <4>1. /\ task' \in [Task -> TaskT] /\ task'[t].pc \in {"call", "put"}
            /\ task'[t].object = task[t].object /\ task'[t].cred = task[t].cred
            /\ \A u \in Task \ {t} : task'[u] = task[u]
        BY <1>5, <1>6, <3>1
      <4>2. task[t].object # None /\ WebKept /\ session' \in SessionT /\ shared' = shared
        BY <1>1, <2>1, NoneAssumption DEF WebKept
      <4> QED
        BY <2>1, <3>1, <3>2, <4>1, <4>2, TaskKeepsObjects
  <2>3. CASE ~Exists
    <3> DEFINE f == [object EXCEPT ![task[t].object].profile = None]
    <3>1. TaskEnds(t) /\ Collect(f, shared', task') /\ native' = native
      BY <1>e, <2>1, <2>3 DEF SaveNative
    <3> QED
      BY <1>4, <2>1, <3>1, TaskSetsProfile
  <2> QED
    BY <2>2, <2>3
<1>f. CASE Put(t)
  <2>1. /\ task[t].pc = "put" /\ task[t].cred \in Credential
        /\ task[t].object \in Object /\ object[task[t].object] \in Client
        /\ shared' = [object |-> task[t].object, late |-> Late(task[t].object)]
        /\ TaskGoes(t, "call") /\ Collect(object, shared', task')
        /\ UNCHANGED <<row, bonded, web, native, session, verify, keeper, page, edits>>
    BY <1>1, <1>f DEF Put, ClientInv
  <2>2. /\ task' \in [Task -> TaskT] /\ task'[t].pc = "call"
        /\ task'[t].object = task[t].object /\ task'[t].cred = task[t].cred
        /\ \A u \in Task \ {t} : task'[u] = task[u]
    BY <1>5, <1>6, <2>1
  <2>3. task[t].object # None /\ WebKept /\ session' \in SessionT /\ native' = native
    BY <1>1, <2>1, NoneAssumption DEF WebKept
  <2> QED
    BY <1>1, <2>1, <2>2, <2>3, TaskKeepsObjects
<1>g. CASE Call(t)
  <2>1. /\ task[t].pc = "call" /\ task[t].cred \in Credential
        /\ task[t].object \in Object /\ object[task[t].object] \in Client
        /\ UNCHANGED <<row, bonded, web, session, shared, verify, keeper, page, edits>>
    BY <1>1, <1>g DEF Call, ClientInv
  <2>2. CASE TaskEnds(t) /\ Collect(object, shared', task') /\ UNCHANGED native
    BY <1>1, <1>4, <2>1, <2>2, TaskKeepsObjects DEF WebKept
  <2> DEFINE f == [object EXCEPT ![task[t].object].profile = None]
  <2>3. CASE \E pc \in {"login", "look"}, o \in {task[t].object, None} :
                /\ pc = "login" => o = task[t].object
                /\ native' = None
                /\ task' = [task EXCEPT ![t].again = TRUE, ![t].pc = pc, ![t].object = o]
                /\ Collect(f, shared, task')
    <3>1. PICK pc \in {"login", "look"}, o \in {task[t].object, None} :
                /\ pc = "login" => o = task[t].object
                /\ native' = None
                /\ task' = [task EXCEPT ![t].again = TRUE, ![t].pc = pc, ![t].object = o]
                /\ Collect(f, shared, task')
      BY <2>3
    <3>2. /\ task' \in [Task -> TaskT] /\ task'[t].pc = pc
          /\ task'[t].object = o /\ task'[t].cred = task[t].cred
          /\ \A u \in Task \ {t} : task'[u] = task[u]
      BY <1>1, <1>6, <3>1 DEF TaskT
    <3> QED
      BY <2>1, <3>1, <3>2, TaskSetsProfile
  <2> QED
    BY <1>g, <2>1, <2>2, <2>3 DEF Call
<1> QED
  BY <1>a, <1>b, <1>c, <1>d, <1>e, <1>f, <1>g DEF TaskNext

----------------------------------------------------------------------------

LEMMA InitAuthInv ==
  ASSUME AuthInit
  PROVE  AuthInv
<1>1. AuthTypes
  <2>1. row \in Row
    BY DEF AuthInit, Row, Status
  <2>2. /\ Idle \in KeeperT /\ NoRequest \in PageT /\ NoTask \in TaskT /\ NoSession \in SessionT
    BY DEF Idle, KeeperT, KeeperPc, NoRequest, PageT, PagePc, NoTask, TaskT, TaskPc,
           NoSession, SessionT
  <2> QED
    BY <2>1, <2>2, EditsAssumption DEF AuthInit, AuthTypes
<1>2. WorkInv /\ ClientInv /\ BondInv
  BY DEF AuthInit, WorkInv, ClientInv, BondInv, Idle, NoTask, NoRequest
<1>3. OldLoginsAreCleared
  BY DEF AuthInit, OldLoginsAreCleared
<1> QED
  BY <1>1, <1>2, <1>3 DEF AuthInv

LEMMA OtherSteps ==
  ASSUME AuthInv, session' \in SessionT, verify' \in Credential \cup {None},
         UNCHANGED <<row, bonded, web, native, object, shared, keeper, task, page, edits>>
  PROVE  AuthInv'
<1>1. AuthTypes'
  BY DEF AuthInv, AuthTypes
<1>2. WorkInv' /\ ClientInv' /\ BondInv'
  BY DEF AuthInv, WorkInv, ClientInv, BondInv
<1>3. OldLoginsAreCleared'
  BY DEF AuthInv, OldLoginsAreCleared, Clearing, Late, Exists
<1> QED
  BY <1>1, <1>2, <1>3 DEF AuthInv

LEMMA StepAuthInv ==
  ASSUME AuthInv, [AuthNext]_authVars
  PROVE  AuthInv'
<1>1. NoSession \in SessionT /\ session \in SessionT /\ verify \in Credential \cup {None}
  BY DEF NoSession, SessionT, AuthInv, AuthTypes
<1>2. CASE StopAccount
  BY <1>1, <1>2, OtherSteps DEF StopAccount
<1>3. CASE VerificationExpires
  BY <1>1, <1>3, OtherSteps DEF VerificationExpires
<1>4. CASE \E k \in Keeper : KeeperNext(k)
  BY <1>4, KeeperSteps
<1>5. CASE \E t \in Task : TaskNext(t)
  BY <1>5, TaskSteps
<1>6. CASE \E p \in Page : PageNext(p)
  BY <1>6, PageSteps
<1>7. CASE UNCHANGED authVars
  BY <1>1, <1>7, OtherSteps DEF authVars
<1> QED
  BY <1>2, <1>3, <1>4, <1>5, <1>6, <1>7 DEF AuthNext

LEMMA AuthInvariance == AuthSpec => []AuthInv
<1>1. AuthInit => AuthInv
  BY InitAuthInv
<1>2. AuthInv /\ [AuthNext]_authVars => AuthInv'
  BY StepAuthInv
<1> QED
  BY <1>1, <1>2, PTL DEF AuthSpec

\* Every variable of the login model has the type of the place it stands for,
\* after any interleaving of keepers, tasks and requests.
THEOREM AuthTypeCorrect == AuthSpec => []AuthTypeOK
<1>1. AuthInv => AuthTypeOK
  BY DEF AuthInv, AuthTypes, AuthTypeOK, SessionT, KeeperT, TaskT, PageT, Client, SharedT
<1> QED
  BY <1>1, AuthInvariance, PTL

\* Whatever keepers, tasks and requests do meanwhile, an edit or a deletion of
\* the account leaves no login of the old credentials behind, in the two cache
\* tables or in the shared client, except one that was stored by somebody who
\* had read the old row.
THEOREM OldLoginsGo == AuthSpec => []OldLoginsAreCleared
<1>1. AuthInv => OldLoginsAreCleared
  BY DEF AuthInv
<1> QED
  BY <1>1, AuthInvariance, PTL

\* A step that makes the account verified has evidence for the credentials of the
\* row, or was overtaken by an edit.
LEMMA KeeperHasEvidence ==
  ASSUME AuthInv, NEW k \in Keeper, KeeperNext(k),
         Exists, row' # row, row'.status = "verified"
  PROVE  Device[row'.cred] \in bonded \/ Overtaken
<1>1. row \in Row
  BY DEF AuthInv, AuthTypes, Exists
<1>2. CASE KeeperCheck(k)
  <2>1. keeper[k].pc = "check" /\ (SetDeviceStatus("pending") \/ SetDeviceStatus("verified"))
    BY <1>2 DEF KeeperCheck
  <2>2. row'.cred = row.cred
    BY <1>1, <2>1 DEF SetDeviceStatus, Row
  <2>3. CASE keeper[k].profile.bonded
    <3>1. Device[keeper[k].profile.cred] \in bonded
      BY <2>1, <2>3 DEF AuthInv, BondInv
    <3> QED
      BY <2>1, <2>2, <3>1 DEF Overtaken
  <2>4. CASE ~keeper[k].profile.bonded
    <3>1. row' = [row EXCEPT !.status = "pending"]
      BY <1>2, <2>4 DEF KeeperCheck, SetDeviceStatus
    <3>2. row'.status = "pending"
      BY <1>1, <3>1 DEF Row
    <3> QED
      BY <3>2
  <2> QED
    BY <2>3, <2>4
<1> QED
  BY <1>2 DEF KeeperNext, Reconcile, Claim, Load, KeeperLogin, KeeperSave, KeeperList, KeeperAgain

LEMMA PageHasEvidence ==
  ASSUME AuthInv, NEW p \in Page, PageNext(p),
         Exists, row' # row, row' # None, row'.status = "verified",
         ~(row.status = "verified" /\ Device[row.cred] = Device[row'.cred])
  PROVE  Device[row'.cred] \in bonded \/ Overtaken
<1>1. row \in Row
  BY DEF AuthInv, AuthTypes, Exists
<1>2. CASE Save(p)
  <2>1. PICK c \in Credential, on \in BOOLEAN : row' = SavedRow(c, on)
    BY <1>2 DEF Save
  <2>2. row'.cred = c /\ row'.status = IF Device[c] # Device[row.cred] THEN "unknown" ELSE row.status
    BY <2>1 DEF SavedRow
  <2> QED
    BY <2>2
<1>3. CASE Ask(p)
  <2>1. page[p].pc = "ask" /\ Answer(page[p].cred).bonded /\ SetDeviceStatus("verified")
    BY <1>3 DEF Ask
  <2>2. row'.cred = row.cred /\ Device[page[p].cred] \in bonded
    BY <1>1, <2>1 DEF SetDeviceStatus, Row, Answer
  <2> QED
    BY <2>1, <2>2 DEF Overtaken
<1>4. CASE Sent(p)
  <2>1. row'.status = "pending"
    BY <1>1, <1>4 DEF Sent, SetDeviceStatus, Row
  <2> QED
    BY <2>1
<1>5. CASE Bound(p)
  <2>1. page[p].pc = "bound" /\ SetDeviceStatus("verified") /\ Device[page[p].cred] \in bonded
    BY <1>5 DEF Bound, AuthInv, BondInv
  <2>2. row'.cred = row.cred
    BY <1>1, <2>1 DEF SetDeviceStatus, Row
  <2> QED
    BY <2>1, <2>2 DEF Overtaken
<1>6. CASE Delete(p)
  BY <1>6 DEF Delete
<1> QED
  BY <1>2, <1>3, <1>4, <1>5, <1>6
     DEF PageNext, ClearWeb, ClearNative, ClearShared, RestartKeepalive, StartVerification,
         Begin, SendSMS, Complete, BindDevice

\* An account is marked as verified only on the platform's word that the device
\* of its credentials is bound: a keeper's login, a verification's login, or the
\* SMS code; an edit that overtook the report is the one exception.
THEOREM VerifiedByThePlatform == AuthSpec => VerifiedOnEvidence
<1>1. ASSUME AuthInv, [AuthNext]_authVars, Exists, row' # row, row' # None,
             row'.status = "verified", ~(row.status = "verified" /\ Device[row.cred] = Device[row'.cred])
      PROVE  Device[row'.cred] \in bonded \/ Overtaken
  <2>1. CASE \E k \in Keeper : KeeperNext(k)
    BY <1>1, <2>1, KeeperHasEvidence
  <2>2. CASE \E t \in Task : TaskNext(t)
    BY <1>1, <2>2 DEF TaskNext, ReadAccount, UseWeb, LookUp, NativeLogin, SaveNative, Put, Call
  <2>3. CASE \E p \in Page : PageNext(p)
    BY <1>1, <2>3, PageHasEvidence
  <2>4. CASE StopAccount \/ VerificationExpires \/ UNCHANGED authVars
    BY <1>1, <2>4 DEF StopAccount, VerificationExpires, authVars
  <2> QED
    BY <1>1, <2>1, <2>2, <2>3, <2>4 DEF AuthNext
<1>2. AuthInv /\ [AuthNext]_authVars =>
        [ Exists /\ row' # row /\ row' # None
          /\ row'.status = "verified" /\ ~(row.status = "verified" /\ Device[row.cred] = Device[row'.cred])
          => Device[row'.cred] \in bonded \/ Overtaken ]_authVars
  BY <1>1
<1> QED
  BY <1>2, AuthInvariance, PTL DEF AuthSpec, VerifiedOnEvidence

==============================================================================
