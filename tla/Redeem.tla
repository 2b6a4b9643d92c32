------------------------------- MODULE Redeem -------------------------------
(***************************************************************************)
(* The redeeming of one account's points: the configuration and the order  *)
(* state in the database, the handler that validates and saves a           *)
(* configuration, the scheduler and the finished pc runs that start a      *)
(* redeem task when one is due, the task's own reads, checks and writes    *)
(* around the order it places, and the user who resolves an order whose    *)
(* result is unknown (internal/service/manager.go, internal/web/server.go).*)
(*                                                                         *)
(* The accounts' orders do not touch each other.  TaskManager.tla shows    *)
(* that an account has one redeem task at a time, so here there is one.    *)
(* A day is a number; an error of the platform means that it took no order.*)
(***************************************************************************)
EXTENDS Naturals

CONSTANTS Target,   \* what can be ordered: a product and a desktop
          Handler,  \* web handlers that save a configuration
          Interval, \* interval_days of the schedule, 0 for a daily one
          MaxDays   \* bound on the days that pass

ASSUME IntervalAssumption == Interval \in Nat
ASSUME MaxDaysAssumption == MaxDays \in Nat \ {0}

Day == 1..MaxDays
NoDay == 0
NoTarget == "none"
Starter == {"tick", "chain"}    \* the scheduler, the end of a pc run

Config == [enabled : BOOLEAN, target : Target \cup {NoTarget}]
Form == [enabled : BOOLEAN, target : Target \cup {NoTarget}, immediate : BOOLEAN]
NoForm == [enabled |-> FALSE, target |-> NoTarget, immediate |-> FALSE]

Outcome == {"success", "failed", "risk", "unknown"}
RunStage == {"idle", "launched", "configured", "checked", "submitted", "sent", "answered"}
NoRun == [stage |-> "idle", auto |-> FALSE, target |-> NoTarget, today |-> NoDay,
          outcome |-> "unknown"]

VARIABLES
    day,
    cfg,             \* redeem_configs
    state,           \* redeem_states: status, dates of the last attempt and success
    claims,          \* scheduler_claims of type redeem
    starter,         \* how far a starter has come
    run,             \* the redeem task: its stage and its local variables
    saver, form,     \* the save handlers: stage and the configuration to save
    \* History.  unanswered: an order was sent that has neither a recorded
    \* result nor been resolved since; hasty: the user has resolved an order
    \* the program was still working on; dates: those the orders were
    \* recorded with; blocked: the platform answered risk control, and the
    \* user has done nothing since.
    unanswered, hasty, dates, blocked

history == <<unanswered, hasty, dates, blocked>>
vars == <<day, cfg, state, claims, starter, run, saver, form, history>>

TypeOK ==
    /\ day \in Day
    /\ cfg \in Config
    /\ state \in [status : {"none", "pending", "success", "failed"},
                  attempt : 0..MaxDays, success : 0..MaxDays]
    /\ claims \subseteq Day
    /\ starter \in [Starter -> {"idle", "enabled", "due", "claimed"}]
    /\ run \in [stage : RunStage, auto : BOOLEAN, target : Target \cup {NoTarget},
                today : 0..MaxDays, outcome : Outcome]
    /\ saver \in [Handler -> {"idle", "validated", "saved"}]
    /\ form \in [Handler -> Form]
    /\ unanswered \in BOOLEAN /\ hasty \in BOOLEAN /\ blocked \in BOOLEAN
    /\ dates \subseteq Day

Init ==
    /\ day = 1
    /\ cfg = [enabled |-> FALSE, target |-> NoTarget]
    /\ state = [status |-> "none", attempt |-> NoDay, success |-> NoDay]
    /\ claims = {}
    /\ starter = [s \in Starter |-> "idle"]
    /\ run = NoRun
    /\ saver = [h \in Handler |-> "idle"]
    /\ form = [h \in Handler |-> NoForm]
    /\ unanswered = FALSE /\ hasty = FALSE /\ blocked = FALSE
    /\ dates = {}

----------------------------------------------------------------------------
(* Starting a redeem task                                                   *)

\* redeemDue.
Due == /\ state.status # "pending"
       /\ state.attempt # day
       /\ state.success # NoDay => day >= state.success + Interval

\* StartTask: the key is taken while a redeem task of the account runs.
StartRun(auto) ==
    run' = IF run.stage = "idle"
             THEN [NoRun EXCEPT !.stage = "launched", !.auto = auto]
             ELSE run

StarterUnchanged == UNCHANGED <<day, cfg, state, saver, form, history>>

\* At 06:05 the scheduler, after its success a pc run.
ReadEnabled(s) ==
    /\ starter[s] = "idle"
    /\ cfg.enabled
    /\ starter' = [starter EXCEPT ![s] = "enabled"]
    /\ StarterUnchanged /\ UNCHANGED <<claims, run>>

ReadDue(s) ==
    /\ starter[s] = "enabled"
    /\ starter' = [starter EXCEPT ![s] = IF Due THEN "due" ELSE "idle"]
    /\ StarterUnchanged /\ UNCHANGED <<claims, run>>

\* Only the scheduler claims the day; its ticks of one minute share the claim.
ClaimDay ==
    /\ starter["tick"] = "due"
    /\ starter' = [starter EXCEPT !["tick"] = IF day \in claims THEN "idle" ELSE "claimed"]
    /\ claims' = claims \cup {day}
    /\ StarterUnchanged /\ UNCHANGED run

StartAutomatic(s) ==
    /\ starter[s] = IF s = "tick" THEN "claimed" ELSE "due"
    /\ starter' = [starter EXCEPT ![s] = "idle"]
    /\ StartRun(TRUE)
    /\ StarterUnchanged /\ UNCHANGED claims

\* StartTask fails, as it does during maintenance; the scheduler lets go of the day.
StartRefused(s) ==
    /\ starter[s] = IF s = "tick" THEN "claimed" ELSE "due"
    /\ starter' = [starter EXCEPT ![s] = "idle"]
    /\ claims' = IF s = "tick" THEN claims \ {day} ELSE claims
    /\ StarterUnchanged /\ UNCHANGED run

----------------------------------------------------------------------------
(* The redeem task                                                          *)

RunUnchanged == UNCHANGED <<day, claims, starter, saver, form>>

ReadConfig ==
    /\ run.stage = "launched"
    /\ run' = IF run.auto /\ ~cfg.enabled THEN NoRun
              ELSE [run EXCEPT !.stage = "configured", !.target = cfg.target]
    /\ RunUnchanged /\ UNCHANGED <<cfg, state, history>>

\* Mutant: the date of the last attempt is left to redeemDue.
ReadStateOnly ==
    /\ run.stage = "configured"
    /\ run' = IF state.status = "pending" THEN NoRun
              ELSE [run EXCEPT !.stage = "checked", !.today = day]
    /\ RunUnchanged /\ UNCHANGED <<cfg, state, history>>

ReadState ==
    /\ run.stage = "configured"
    /\ run' = IF state.status = "pending" \/ (run.auto /\ state.attempt = day) THEN NoRun
              ELSE [run EXCEPT !.stage = "checked", !.today = day]
    /\ RunUnchanged /\ UNCHANGED <<cfg, state, history>>

\* Login, product, price, points or desktop fail a check, or the task is stopped.
CheckFails ==
    /\ run.stage \in {"launched", "checked"}
    /\ run' = NoRun
    /\ RunUnchanged /\ UNCHANGED <<cfg, state, history>>

\* Mutant: the pending row is not written before the order is placed.
SubmitWithoutRow ==
    /\ run.stage = "checked" /\ run.target \in Target
    /\ run' = [run EXCEPT !.stage = "submitted"]
    /\ dates' = dates \cup {run.today}
    /\ RunUnchanged /\ UNCHANGED <<cfg, state, unanswered, hasty, blocked>>

\* The pending row comes before the order.
SubmitOrder ==
    /\ run.stage = "checked" /\ run.target \in Target
    /\ state' = [state EXCEPT !.status = "pending", !.attempt = run.today]
    /\ run' = [run EXCEPT !.stage = "submitted"]
    /\ dates' = dates \cup {run.today}
    /\ RunUnchanged /\ UNCHANGED <<cfg, unanswered, hasty, blocked>>

PlaceOrder ==
    /\ run.stage = "submitted"
    /\ run' = [run EXCEPT !.stage = "sent"]
    /\ unanswered' = TRUE
    /\ RunUnchanged /\ UNCHANGED <<cfg, state, hasty, dates, blocked>>

\* The client gives up before it sends anything: that is no platform error.
OrderNotSent ==
    /\ run.stage = "submitted"
    /\ run' = [run EXCEPT !.stage = "answered", !.outcome = "unknown"]
    /\ RunUnchanged /\ UNCHANGED <<cfg, state, history>>

\* A platform error or code 0, or none of them: a timeout, a stopped task.
OrderAnswered(o) ==
    /\ run.stage = "sent"
    /\ run' = [run EXCEPT !.stage = "answered", !.outcome = o]
    /\ blocked' = (blocked \/ o = "risk")
    /\ RunUnchanged /\ UNCHANGED <<cfg, state, unanswered, hasty, dates>>

\* Mutant: risk control is taken for any other platform error.
RiskIgnored ==
    /\ run.stage = "answered" /\ run.outcome = "risk"
    /\ run' = [run EXCEPT !.outcome = "failed"]
    /\ RunUnchanged /\ UNCHANGED <<cfg, state, history>>

RiskDisables ==
    /\ run.stage = "answered" /\ run.outcome = "risk"
    /\ cfg' = [cfg EXCEPT !.enabled = FALSE]
    /\ run' = [run EXCEPT !.outcome = "failed"]
    /\ RunUnchanged /\ UNCHANGED <<state, history>>

\* Mutant: an unknown result is recorded as it is.
RecordRaw ==
    /\ run.stage = "answered" /\ run.outcome # "risk"
    /\ state' = [state EXCEPT !.status = run.outcome,
                     !.success = IF run.outcome = "success" THEN run.today ELSE @]
    /\ run' = NoRun
    /\ unanswered' = (unanswered /\ run.outcome = "unknown")
    /\ RunUnchanged /\ UNCHANGED <<cfg, hasty, dates, blocked>>

\* The last UPDATE, whatever has become of the row since the order was sent.
RecordOutcome ==
    /\ run.stage = "answered" /\ run.outcome # "risk"
    /\ state' = [state EXCEPT !.status = IF run.outcome = "unknown" THEN "pending"
                                         ELSE run.outcome,
                     !.success = IF run.outcome = "success" THEN run.today ELSE @]
    /\ run' = NoRun
    /\ unanswered' = (unanswered /\ run.outcome = "unknown")
    /\ RunUnchanged /\ UNCHANGED <<cfg, hasty, dates, blocked>>

\* The last UPDATE fails: the task ends and the row stays as it is.
RecordFails ==
    /\ run.stage = "answered" /\ run.outcome # "risk"
    /\ run' = NoRun
    /\ RunUnchanged /\ UNCHANGED <<cfg, state, history>>

----------------------------------------------------------------------------
(* The user                                                                 *)

UserUnchanged == UNCHANGED <<day, claims, starter>>

\* ValidateRedeemConfig lets a disabled configuration pass as it is; an enabled
\* one, and ValidateImmediateRedeem's, may not change the target of a pending
\* order.  The catalog it is compared with comes from the platform.
Validate(h, f) ==
    /\ saver[h] = "idle"
    /\ f.enabled \/ f.immediate =>
          /\ f.target \in Target
          /\ state.status = "pending" => f.target = cfg.target
    /\ saver' = [saver EXCEPT ![h] = "validated"]
    /\ form' = [form EXCEPT ![h] = f]
    /\ UserUnchanged /\ UNCHANGED <<cfg, state, run, history>>

\* The catalog cannot be read or does not have the target.
ValidateFails(h) ==
    /\ saver[h] = "validated" /\ (form[h].enabled \/ form[h].immediate)
    /\ saver' = [saver EXCEPT ![h] = "idle"]
    /\ form' = [form EXCEPT ![h] = NoForm]
    /\ UserUnchanged /\ UNCHANGED <<cfg, state, run, history>>

SaveRedeem(h) ==
    /\ saver[h] = "validated"
    /\ cfg' = [enabled |-> form[h].enabled, target |-> form[h].target]
    /\ saver' = [saver EXCEPT ![h] = IF form[h].immediate THEN "saved" ELSE "idle"]
    /\ form' = [form EXCEPT ![h] = NoForm]
    /\ blocked' = (blocked /\ ~form[h].enabled)
    /\ UserUnchanged /\ UNCHANGED <<state, run, unanswered, hasty, dates>>

\* After an immediate save; a running task makes it fail, as maintenance does.
StartImmediate(h) ==
    /\ saver[h] = "saved"
    /\ saver' = [saver EXCEPT ![h] = "idle"]
    /\ StartRun(FALSE) \/ UNCHANGED run
    /\ UserUnchanged /\ UNCHANGED <<cfg, state, form, history>>

\* The task route starts a redeem task without a new configuration.
StartManual ==
    /\ run.stage = "idle"
    /\ StartRun(FALSE)
    /\ UserUnchanged /\ UNCHANGED <<cfg, state, saver, form, history>>

\* The user has looked the order up, and says what became of it.
ResolveRedeem(succeeded) ==
    /\ state.status = "pending"
    /\ state' = [state EXCEPT !.status = IF succeeded THEN "success" ELSE "failed",
                     !.success = IF succeeded THEN state.attempt ELSE @]
    /\ unanswered' = FALSE
    /\ blocked' = FALSE
    /\ hasty' = (hasty \/ run.stage \in {"submitted", "sent", "answered"})
    /\ UserUnchanged /\ UNCHANGED <<cfg, run, saver, form, dates>>

----------------------------------------------------------------------------
(* Time, crashes                                                            *)

\* No starter is at work at midnight: a tick's clock reads 06:05, and between
\* the end of a pc run and its StartTask there are two queries.
DayPasses ==
    /\ day < MaxDays
    /\ \A s \in Starter : starter[s] = "idle"
    /\ day' = day + 1
    /\ UNCHANGED <<cfg, state, claims, starter, run, saver, form, history>>

\* The program ends anywhere and starts again; the database stays.
CrashAndRestart ==
    /\ run' = NoRun
    /\ starter' = [s \in Starter |-> "idle"]
    /\ saver' = [h \in Handler |-> "idle"]
    /\ form' = [h \in Handler |-> NoForm]
    /\ UNCHANGED <<day, cfg, state, claims, history>>

----------------------------------------------------------------------------

StartStep ==
    \/ \E s \in Starter : ReadEnabled(s) \/ ReadDue(s) \/ StartAutomatic(s) \/ StartRefused(s)
    \/ ClaimDay

RunStep ==
    \/ ReadConfig \/ ReadState \/ CheckFails \/ SubmitOrder \/ PlaceOrder \/ OrderNotSent
    \/ \E o \in Outcome : OrderAnswered(o)
    \/ RiskDisables \/ RecordOutcome \/ RecordFails

UserStep ==
    \/ \E h \in Handler :
          \/ \E f \in Form : Validate(h, f)
          \/ ValidateFails(h) \/ SaveRedeem(h) \/ StartImmediate(h)
    \/ StartManual
    \/ \E succeeded \in BOOLEAN : ResolveRedeem(succeeded)

Next == StartStep \/ RunStep \/ UserStep \/ DayPasses \/ CrashAndRestart

Spec == Init /\ [][Next]_vars

----------------------------------------------------------------------------
(* Properties                                                               *)

\* No order is sent while the result of an earlier one is unknown, so that no
\* points are spent twice, after crashes, failed writes and stopped tasks too,
\* provided the user resolves only orders the program has given up on.
OrdersWait == [][PlaceOrder => ~unanswered \/ hasty]_vars

\* The same without the proviso: the page says that redeeming is paused until
\* the user has said what became of the last order (web/server.go:964).
OrdersAlwaysWait == [][PlaceOrder => ~unanswered]_vars

\* An automatic order is the only order of its date, and none follows a manual one
\* of that date, however manual tasks, pc runs, ticks and midnight overlap: what
\* redeemDue found may be stale when the task begins.
AutomaticOncePerDate ==
    [][SubmitOrder /\ run.auto => run.today \notin dates]_vars

\* After the platform answered risk control no automatic order follows until the
\* user acts: not even when the program ends before it has recorded the answer
\* (with the proviso of OrdersWait).
RiskControlStops == [][SubmitOrder /\ run.auto => ~blocked \/ hasty]_vars

=============================================================================
