---------------------------- MODULE KeepaliveProofs ----------------------------
(***************************************************************************)
(* Theorems about Keepalive for every set of accounts and web handlers and *)
(* every number of sessions and desktops: type correctness, silence after  *)
(* Close, and the two action properties that MCKeepaliveSafety checks,     *)
(* from one inductive invariant.                                           *)
(***************************************************************************)
EXTENDS Keepalive, TLAPS

\* The desktops a session still has to connect, and those it has connected,
\* are no more than there are; a session that is used again begins with none.
CountInv ==
    \A s \in Session :
        /\ workers[s] + left[s] <= Desktops
        /\ conn[s] + left[s] <= Desktops
        /\ stage[s] \in {"free", "launched", "login", "done"} =>
              workers[s] = 0 /\ left[s] = 0
        /\ stage[s] \in {"free", "launched", "login"} => conn[s] = 0

\* Between PrepareForUpdate's last look at the tasks and its end no usage task
\* can begin.
QuietInv == prep \in {"clear", "prepared"} => \A a \in Account : usage[a] = "none"

IInv == TypeOK /\ CountInv /\ QuietInv /\ ClosedIsSilent

\* TypeOK in four parts.
EntryT == [session : Session \cup {NoSession}, workers : 0..Desktops]
EntryOK == entry \in [Account -> EntryT]
SessionsOK == /\ stage \in [Session -> SessionStage]
              /\ who \in [Session -> Account \cup {NoAccount}]
              /\ alive \subseteq Session
              /\ left \in [Session -> 0..Desktops]
              /\ workers \in [Session -> 0..Desktops]
              /\ conn \in [Session -> 0..Desktops]
CallsOK == /\ call \in [Caller -> CallStage]
           /\ todo \in [Caller -> SUBSET Account] /\ wants \in [Caller -> SUBSET Account]
           /\ at \in [Caller -> Account \cup {NoAccount}]
RestOK == /\ life \in {"up", "cancelled", "latched", "closed"}
          /\ scheduling \in BOOLEAN
          /\ stored \subseteq Account /\ wanted \subseteq Account
          /\ usage \in [Account -> {"none", "starting", "active", "dropped"}]
          /\ prep \in {"idle", "preparing", "clear", "prepared"}
          /\ changes \in 0..MaxChanges

LEMMA TypeParts == TypeOK <=> EntryOK /\ SessionsOK /\ CallsOK /\ RestOK
BY DEF TypeOK, EntryT, EntryOK, SessionsOK, CallsOK, RestOK

----------------------------------------------------------------------------

\* A session ends, or comes to another stage.
LEMMA EndTyped ==
  ASSUME SessionsOK, NEW s \in Session, End(s), UNCHANGED <<alive, conn>>
  PROVE  SessionsOK'
<1>1. stage' = [stage EXCEPT ![s] = "done"] /\ "done" \in SessionStage
  BY DEF End, SetStage, SessionStage
<1>2. stage' \in [Session -> SessionStage]
  BY <1>1 DEF SessionsOK
<1>3. who' \in [Session -> Account \cup {NoAccount}]
  BY DEF End, SessionsOK
<1>4. left' \in [Session -> 0..Desktops] /\ workers' \in [Session -> 0..Desktops]
  BY DesktopsAssumption DEF End, SessionsOK
<1> QED
  BY <1>2, <1>3, <1>4 DEF SessionsOK

LEMMA StageTyped ==
  ASSUME SessionsOK, NEW s \in Session, NEW v \in SessionStage, SetStage(s, v),
         UNCHANGED <<who, alive, left, workers, conn>>
  PROVE  SessionsOK'
BY DEF SessionsOK, SetStage

\* What is written to clients.
LEMMA EntryTyped ==
  ASSUME NEW e \in [Account -> EntryT], NEW a, NEW s \in Session, NEW n \in 0..Desktops
  PROVE  [e EXCEPT ![a] = [session |-> s, workers |-> n]] \in [Account -> EntryT]
<1>1. [session |-> s, workers |-> n] \in EntryT
  BY DEF EntryT
<1> QED
  BY <1>1

LEMMA NoEntryTyped ==
  ASSUME NEW e \in [Account -> EntryT], NEW a
  PROVE  /\ [e EXCEPT ![a] = NoEntry] \in [Account -> EntryT]
         /\ [b \in Account |-> NoEntry] \in [Account -> EntryT]
<1>1. NoEntry \in EntryT
  BY DesktopsAssumption DEF EntryT, NoEntry
<1> QED
  BY <1>1

\* A loop reads the accounts.
LEMMA LoadTyped ==
  ASSUME CallsOK, RestOK, NEW c \in Caller, NEW n \in CallStage, Load(c, n)
  PROVE  CallsOK'
BY DEF CallsOK, RestOK, Load

LEMMA InitIInv == Init => IInv
<1> SUFFICES ASSUME Init
             PROVE  IInv
  OBVIOUS
<1> USE MaxSessionsAssumption, DesktopsAssumption, MaxChangesAssumption DEF Init
<1>1. TypeOK
  BY DEF TypeOK, NoEntry, SessionStage, WriteStage, CallStage
<1>2. CountInv /\ QuietInv /\ ClosedIsSilent
  BY DEF CountInv, QuietInv, ClosedIsSilent
<1> QED
  BY <1>1, <1>2 DEF IInv

LEMMA CallIInv ==
  ASSUME IInv, TickKeepalive \/ (\E c \in WebCaller : RestartKeepalive(c)) \/ \E c \in Caller : CallStep(c)
  PROVE  IInv'
<1> USE MaxSessionsAssumption, DesktopsAssumption, MaxChangesAssumption
        DEF IInv, NoEntry, SessionStage, WriteStage, CallStage, Caller, Change,
            lifeVars, accountVars, sessionVars, callVars
<1> EntryOK /\ SessionsOK /\ CallsOK /\ RestOK
  BY TypeParts
<1>1. CASE TickKeepalive
  <2>1. EntryOK' /\ SessionsOK' /\ RestOK' /\ CountInv' /\ QuietInv' /\ ClosedIsSilent'
    BY <1>1 DEF TickKeepalive,
              EntryOK, SessionsOK, RestOK, CountInv, QuietInv, ClosedIsSilent
  <2>2. CallsOK'
    BY <1>1 DEF TickKeepalive, Load, CallsOK, EntryOK, RestOK
  <2> QED
    BY <2>1, <2>2 DEF IInv, TypeOK, EntryT, EntryOK, SessionsOK, CallsOK, RestOK
<1>2. CASE \E c \in WebCaller : RestartKeepalive(c)
  <2>1. EntryOK' /\ SessionsOK' /\ CountInv' /\ QuietInv' /\ ClosedIsSilent'
    BY <1>2 DEF RestartKeepalive,
              EntryOK, SessionsOK, CountInv, QuietInv, ClosedIsSilent
  <2>2. CallsOK'
    BY <1>2 DEF RestartKeepalive, Load, CallsOK, EntryOK, RestOK
  <2>3. RestOK'
    BY <1>2 DEF RestartKeepalive, Load, RestOK, SessionsOK
  <2> QED
    BY <2>1, <2>2, <2>3 DEF IInv, TypeOK, EntryT, EntryOK, SessionsOK, CallsOK, RestOK
<1>3. CASE \E c \in Caller : ClearClients(c)
  <2>1. RestOK' /\ CountInv' /\ QuietInv' /\ ClosedIsSilent'
    BY <1>3 DEF ClearClients,
              RestOK, CountInv, QuietInv, ClosedIsSilent
  <2>2. EntryOK'
    BY <1>3, NoEntryTyped DEF ClearClients, EntryOK
  <2>3. SessionsOK'
    BY <1>3 DEF ClearClients, Held, SessionsOK, CountInv
  <2>4. CallsOK'
    BY <1>3 DEF ClearClients, Held, CallsOK, EntryOK, RestOK
  <2> QED
    BY <2>1, <2>2, <2>3, <2>4 DEF IInv, TypeOK, EntryT, EntryOK, SessionsOK, CallsOK, RestOK
<1>4. CASE \E c \in Caller : WriteIdle(c)
  <2>1. SessionsOK' /\ RestOK' /\ CountInv' /\ QuietInv' /\ ClosedIsSilent'
    BY <1>4 DEF WriteIdle,
              SessionsOK, RestOK, CountInv, QuietInv, ClosedIsSilent
  <2>2. EntryOK'
    BY <1>4, NoEntryTyped DEF WriteIdle, EntryOK
  <2>3. CallsOK'
    BY <1>4 DEF WriteIdle, CallsOK, EntryOK, RestOK
  <2> QED
    BY <2>1, <2>2, <2>3 DEF IInv, TypeOK, EntryT, EntryOK, SessionsOK, CallsOK, RestOK
<1>5. CASE \E c \in Caller : StopKeepalive(c)
  <2>1. RestOK' /\ CountInv' /\ QuietInv' /\ ClosedIsSilent'
    BY <1>5 DEF StopKeepalive,
              RestOK, CountInv, QuietInv, ClosedIsSilent
  <2>2. EntryOK'
    BY <1>5, NoEntryTyped DEF StopKeepalive, EntryOK
  <2>3. SessionsOK'
    BY <1>5 DEF StopKeepalive, Held, SessionsOK, CountInv
  <2>4. CallsOK'
    BY <1>5 DEF StopKeepalive, Held, CallsOK, EntryOK, RestOK
  <2> QED
    BY <2>1, <2>2, <2>3, <2>4 DEF IInv, TypeOK, EntryT, EntryOK, SessionsOK, CallsOK, RestOK
<1>6. CASE \E c \in Caller, a \in Account : Reconcile(c, a)
  <2>1. EntryOK' /\ RestOK'
    BY <1>6 DEF Reconcile, ReconcileRunning,
              EntryOK, RestOK
  <2>2. SessionsOK'
    <3> PICK c \in Caller, a \in Account : Reconcile(c, a)
      BY <1>6
    <3>1. UNCHANGED <<alive, left, workers, conn>> /\ (UNCHANGED <<stage, who>> \/ Launch(a))
      BY DEF Reconcile, ReconcileRunning
    <3>2. stage' \in [Session -> SessionStage]
      BY <3>1 DEF SessionsOK, Launch, SetStage
    <3>3. who' \in [Session -> Account \cup {NoAccount}]
      BY <3>1 DEF SessionsOK, Launch
    <3> QED
      BY <3>1, <3>2, <3>3 DEF SessionsOK
  <2>3. CallsOK'
    <3> PICK c \in Caller, a \in Account : Reconcile(c, a)
      BY <1>6
    <3>1. todo' \in [Caller -> SUBSET Account] /\ wants' \in [Caller -> SUBSET Account]
      BY DEF Reconcile, ReconcileRunning, CallsOK
    <3>2. call' \in [Caller -> CallStage]
      BY DEF Reconcile, ReconcileRunning, CallsOK
    <3>3. at' \in [Caller -> Account \cup {NoAccount}]
      BY DEF Reconcile, ReconcileRunning, CallsOK
    <3> QED
      BY <3>1, <3>2, <3>3 DEF CallsOK
  <2>4. CountInv'
    BY <1>6 DEF Reconcile, ReconcileRunning, Launch, Unused, SetStage, Closing, CountInv, SessionsOK
  <2>5. QuietInv' /\ ClosedIsSilent'
    BY <1>6 DEF Reconcile, ReconcileRunning, Launch, Unused, SetStage, Closing, QuietInv, ClosedIsSilent, SessionsOK, RestOK
  <2> QED
    BY <2>1, <2>2, <2>3, <2>4, <2>5 DEF IInv, TypeOK, EntryT, EntryOK, SessionsOK, CallsOK, RestOK
<1> QED
  BY <1>1, <1>2, <1>3, <1>4, <1>5, <1>6 DEF CallStep

LEMMA SessionIInv ==
  ASSUME IInv, \E s \in Session : SessionStep(s) \/ ConnectionEnds(s)
  PROVE  IInv'
<1> USE MaxSessionsAssumption, DesktopsAssumption, MaxChangesAssumption
        DEF IInv, NoEntry, SessionStage, WriteStage, CallStage, Caller, Change,
            lifeVars, accountVars, sessionVars, callVars
<1> EntryOK /\ SessionsOK /\ CallsOK /\ RestOK
  BY TypeParts
<1>1. CASE \E s \in Session : Register(s)
  <2>1. CallsOK' /\ RestOK'
    BY <1>1 DEF Register, StartUnchanged,
              CallsOK, RestOK
  <2>2. EntryOK'
    <3> PICK s \in Session : Register(s)
      BY <1>1
    <3>1. 0 \in 0..Desktops
      OBVIOUS
    <3> QED
      BY <3>1, EntryTyped DEF Register, EntryOK
  <2>3. SessionsOK'
    <3> PICK s \in Session : Register(s)
      BY <1>1
    <3>1. CASE Running(who[s])
      BY <3>1, EndTyped DEF Register
    <3>2. CASE ~Running(who[s])
      BY <3>2 DEF Register, SetStage, SessionsOK
    <3> QED
      BY <3>1, <3>2
  <2>4. CountInv'
    BY <1>1 DEF Register, End, SetStage, StartUnchanged, CountInv, SessionsOK
  <2>5. QuietInv' /\ ClosedIsSilent'
    BY <1>1 DEF Register, End, SetStage, StartUnchanged, QuietInv, ClosedIsSilent, SessionsOK, RestOK
  <2> QED
    BY <2>1, <2>2, <2>3, <2>4, <2>5 DEF IInv, TypeOK, EntryT, EntryOK, SessionsOK, CallsOK, RestOK
<1>2. CASE \E s \in Session : LoginFails(s)
  <2>1. EntryOK' /\ CallsOK'
    BY <1>2 DEF LoginFails, StartUnchanged,
              EntryOK, CallsOK
  <2>2. SessionsOK'
    <3> PICK s \in Session : LoginFails(s)
      BY <1>2
    <3>1. CASE End(s)
      BY <3>1, EndTyped DEF LoginFails
    <3>2. CASE UNCHANGED <<who, left, workers>> /\ SetStage(s, "fail")
      BY <3>2, StageTyped DEF LoginFails
    <3> QED
      BY <3>1, <3>2 DEF LoginFails, CheckContext
  <2>3. RestOK'
    BY <1>2 DEF LoginFails, Verified, CheckContext, End, SetStage, StartUnchanged, RestOK, SessionsOK
  <2>4. CountInv'
    BY <1>2 DEF LoginFails, Verified, CheckContext, End, SetStage, StartUnchanged, CountInv, SessionsOK
  <2>5. QuietInv' /\ ClosedIsSilent'
    BY <1>2 DEF LoginFails, Verified, CheckContext, End, SetStage, StartUnchanged, QuietInv, ClosedIsSilent, SessionsOK, RestOK
  <2> QED
    BY <2>1, <2>2, <2>3, <2>4, <2>5 DEF IInv, TypeOK, EntryT, EntryOK, SessionsOK, CallsOK, RestOK
<1>3. CASE \E s \in Session : LoginUnbound(s)
  <2>1. EntryOK' /\ CallsOK'
    BY <1>3 DEF LoginUnbound, StartUnchanged,
              EntryOK, CallsOK
  <2>2. SessionsOK'
    <3> PICK s \in Session : LoginUnbound(s)
      BY <1>3
    <3>1. CASE End(s)
      BY <3>1, EndTyped DEF LoginUnbound, StartUnchanged
    <3>2. CASE UNCHANGED <<who, left, workers>> /\ SetStage(s, "fail")
      BY <3>2, StageTyped DEF LoginUnbound, StartUnchanged
    <3> QED
      BY <3>1, <3>2 DEF LoginUnbound, CheckContext
  <2>3. RestOK'
    BY <1>3 DEF LoginUnbound, CheckContext, End, SetStage, StartUnchanged, RestOK, SessionsOK
  <2>4. CountInv'
    BY <1>3 DEF LoginUnbound, CheckContext, End, SetStage, StartUnchanged, CountInv, SessionsOK
  <2>5. QuietInv' /\ ClosedIsSilent'
    BY <1>3 DEF LoginUnbound, CheckContext, End, SetStage, StartUnchanged, QuietInv, ClosedIsSilent, SessionsOK, RestOK
  <2> QED
    BY <2>1, <2>2, <2>3, <2>4, <2>5 DEF IInv, TypeOK, EntryT, EntryOK, SessionsOK, CallsOK, RestOK
<1>4. CASE \E s \in Session : LoginSucceeds(s)
  <2>1. EntryOK' /\ CallsOK'
    BY <1>4 DEF LoginSucceeds, StartUnchanged,
              EntryOK, CallsOK
  <2>2. SessionsOK'
    BY <1>4 DEF LoginSucceeds, Verified, SetStage, StartUnchanged, SessionsOK, CountInv
  <2>3. RestOK'
    BY <1>4 DEF LoginSucceeds, Verified, SetStage, StartUnchanged, RestOK, SessionsOK
  <2>4. CountInv'
    BY <1>4 DEF LoginSucceeds, Verified, SetStage, StartUnchanged, CountInv, SessionsOK
  <2>5. QuietInv' /\ ClosedIsSilent'
    BY <1>4 DEF LoginSucceeds, Verified, SetStage, StartUnchanged, QuietInv, ClosedIsSilent, SessionsOK, RestOK
  <2> QED
    BY <2>1, <2>2, <2>3, <2>4, <2>5 DEF IInv, TypeOK, EntryT, EntryOK, SessionsOK, CallsOK, RestOK
<1>5. CASE \E s \in Session : WriteState(s)
  <2>1. CallsOK' /\ RestOK'
    BY <1>5 DEF WriteState, StartUnchanged,
              CallsOK, RestOK
  <2>2. EntryOK'
    <3> PICK s \in Session : WriteState(s)
      BY <1>5
    <3>1. workers[s] \in 0..Desktops
      BY DEF SessionsOK
    <3> QED
      BY <3>1, EntryTyped DEF WriteState, EntryOK
  <2>3. SessionsOK'
    <3> PICK s \in Session : WriteState(s)
      BY <1>5
    <3>1. CASE End(s)
      BY <3>1, EndTyped DEF WriteState, StartUnchanged
    <3>2. CASE UNCHANGED <<who, left, workers>> /\ (SetStage(s, "connecting") \/ SetStage(s, "awake"))
      BY <3>2, StageTyped DEF WriteState, StartUnchanged
    <3> QED
      BY <3>1, <3>2 DEF WriteState
  <2>4. CountInv'
    BY <1>5 DEF WriteState, End, SetStage, StartUnchanged, CountInv, SessionsOK
  <2>5. QuietInv' /\ ClosedIsSilent'
    BY <1>5 DEF WriteState, End, SetStage, StartUnchanged, QuietInv, ClosedIsSilent, SessionsOK, RestOK
  <2> QED
    BY <2>1, <2>2, <2>3, <2>4, <2>5 DEF IInv, TypeOK, EntryT, EntryOK, SessionsOK, CallsOK, RestOK
<1>6. CASE \E s \in Session : WakeDesktop(s)
  <2>1. EntryOK' /\ CallsOK' /\ RestOK'
    BY <1>6 DEF WakeDesktop, StartUnchanged,
              EntryOK, CallsOK, RestOK
  <2>2. SessionsOK'
    BY <1>6 DEF WakeDesktop, SetStage, StartUnchanged, SessionsOK, CountInv
  <2>3. CountInv'
    BY <1>6 DEF WakeDesktop, SetStage, StartUnchanged, CountInv, SessionsOK
  <2>4. QuietInv' /\ ClosedIsSilent'
    BY <1>6 DEF WakeDesktop, SetStage, StartUnchanged, QuietInv, ClosedIsSilent, SessionsOK, RestOK
  <2> QED
    BY <2>1, <2>2, <2>3, <2>4 DEF IInv, TypeOK, EntryT, EntryOK, SessionsOK, CallsOK, RestOK
<1>7. CASE \E s \in Session : ConnectDesktop(s)
  <2>1. EntryOK' /\ CallsOK' /\ RestOK'
    BY <1>7 DEF ConnectDesktop, StartUnchanged,
              EntryOK, CallsOK, RestOK
  <2>2. SessionsOK'
    BY <1>7 DEF ConnectDesktop, SetStage, StartUnchanged, SessionsOK, CountInv
  <2>3. CountInv'
    BY <1>7 DEF ConnectDesktop, SetStage, StartUnchanged, CountInv, SessionsOK
  <2>4. QuietInv' /\ ClosedIsSilent'
    BY <1>7 DEF ConnectDesktop, SetStage, StartUnchanged, QuietInv, ClosedIsSilent, SessionsOK, RestOK
  <2> QED
    BY <2>1, <2>2, <2>3, <2>4 DEF IInv, TypeOK, EntryT, EntryOK, SessionsOK, CallsOK, RestOK
<1>8. CASE \E s \in Session : SkipDesktop(s)
  <2>1. EntryOK' /\ CallsOK' /\ RestOK'
    BY <1>8 DEF SkipDesktop, StartUnchanged,
              EntryOK, CallsOK, RestOK
  <2>2. SessionsOK'
    <3> PICK s \in Session : SkipDesktop(s)
      BY <1>8
    <3>1. CASE End(s)
      BY <3>1, EndTyped DEF SkipDesktop
    <3>2. CASE ~End(s)
      BY <3>2 DEF SkipDesktop, SetStage, SessionsOK
    <3> QED
      BY <3>1, <3>2
  <2>3. CountInv'
    BY <1>8 DEF SkipDesktop, End, SetStage, StartUnchanged, CountInv, SessionsOK
  <2>4. QuietInv' /\ ClosedIsSilent'
    BY <1>8 DEF SkipDesktop, End, SetStage, StartUnchanged, QuietInv, ClosedIsSilent, SessionsOK, RestOK
  <2> QED
    BY <2>1, <2>2, <2>3, <2>4 DEF IInv, TypeOK, EntryT, EntryOK, SessionsOK, CallsOK, RestOK
<1>9. CASE \E s \in Session : DesktopsDone(s)
  <2>1. EntryOK' /\ CallsOK' /\ RestOK'
    BY <1>9 DEF DesktopsDone, StartUnchanged,
              EntryOK, CallsOK, RestOK
  <2>2. SessionsOK'
    <3> PICK s \in Session : DesktopsDone(s)
      BY <1>9
    <3>1. CASE End(s)
      BY <3>1, EndTyped DEF DesktopsDone, StartUnchanged
    <3>2. CASE UNCHANGED <<who, left, workers>> /\ SetStage(s, "run")
      BY <3>2, StageTyped DEF DesktopsDone, StartUnchanged
    <3> QED
      BY <3>1, <3>2 DEF DesktopsDone, CheckContext
  <2>3. CountInv'
    BY <1>9 DEF DesktopsDone, CheckContext, End, SetStage, StartUnchanged, CountInv, SessionsOK
  <2>4. QuietInv' /\ ClosedIsSilent'
    BY <1>9 DEF DesktopsDone, CheckContext, End, SetStage, StartUnchanged, QuietInv, ClosedIsSilent, SessionsOK, RestOK
  <2> QED
    BY <2>1, <2>2, <2>3, <2>4 DEF IInv, TypeOK, EntryT, EntryOK, SessionsOK, CallsOK, RestOK
<1>10. CASE \E s \in Session : ConnectionEnds(s)
  <2>1. EntryOK' /\ CallsOK' /\ RestOK'
    BY <1>10 DEF ConnectionEnds, StartUnchanged,
              EntryOK, CallsOK, RestOK
  <2>2. SessionsOK'
    BY <1>10 DEF ConnectionEnds, StartUnchanged, SessionsOK, CountInv
  <2>3. CountInv'
    BY <1>10 DEF ConnectionEnds, StartUnchanged, CountInv, SessionsOK
  <2>4. QuietInv' /\ ClosedIsSilent'
    BY <1>10 DEF ConnectionEnds, StartUnchanged, QuietInv, ClosedIsSilent, SessionsOK, RestOK
  <2> QED
    BY <2>1, <2>2, <2>3, <2>4 DEF IInv, TypeOK, EntryT, EntryOK, SessionsOK, CallsOK, RestOK
<1> QED
  BY <1>1, <1>2, <1>3, <1>4, <1>5, <1>6, <1>7, <1>8, <1>9, <1>10 DEF SessionStep

LEMMA AccountIInv ==
  ASSUME IInv, \E a \in Account : WantChanges(a) \/ DeleteAccount(a) \/ UsageStarts(a) \/ UsageEnters(a) \/ UsageEnds(a)
  PROVE  IInv'
<1> USE MaxSessionsAssumption, DesktopsAssumption, MaxChangesAssumption
        DEF IInv, NoEntry, SessionStage, WriteStage, CallStage, Caller, Change,
            lifeVars, accountVars, sessionVars, callVars
<1> EntryOK /\ SessionsOK /\ CallsOK /\ RestOK
  BY TypeParts
<1>1. CASE \E a \in Account : WantChanges(a)
  <2>1. EntryOK' /\ SessionsOK' /\ CallsOK' /\ CountInv' /\ QuietInv' /\ ClosedIsSilent'
    BY <1>1 DEF WantChanges,
              EntryOK, SessionsOK, CallsOK, CountInv, QuietInv, ClosedIsSilent
  <2>2. RestOK'
    BY <1>1 DEF WantChanges, RestOK, SessionsOK
  <2> QED
    BY <2>1, <2>2 DEF IInv, TypeOK, EntryT, EntryOK, SessionsOK, CallsOK, RestOK
<1>2. CASE \E a \in Account : DeleteAccount(a)
  <2>1. EntryOK' /\ SessionsOK' /\ CallsOK' /\ CountInv' /\ QuietInv' /\ ClosedIsSilent'
    BY <1>2 DEF DeleteAccount,
              EntryOK, SessionsOK, CallsOK, CountInv, QuietInv, ClosedIsSilent
  <2>2. RestOK'
    BY <1>2 DEF DeleteAccount, RestOK, SessionsOK
  <2> QED
    BY <2>1, <2>2 DEF IInv, TypeOK, EntryT, EntryOK, SessionsOK, CallsOK, RestOK
<1>3. CASE \E a \in Account : UsageStarts(a)
  <2>1. EntryOK' /\ SessionsOK' /\ CallsOK' /\ CountInv'
    BY <1>3 DEF UsageStarts, Maintenance,
              EntryOK, SessionsOK, CallsOK, CountInv
  <2>2. RestOK'
    BY <1>3 DEF UsageStarts, Maintenance, RestOK, SessionsOK
  <2>3. QuietInv' /\ ClosedIsSilent'
    BY <1>3 DEF UsageStarts, Maintenance, QuietInv, ClosedIsSilent, SessionsOK, RestOK
  <2> QED
    BY <2>1, <2>2, <2>3 DEF IInv, TypeOK, EntryT, EntryOK, SessionsOK, CallsOK, RestOK
<1>4. CASE \E a \in Account : UsageEnters(a)
  <2>1. EntryOK' /\ SessionsOK' /\ CallsOK' /\ CountInv'
    BY <1>4 DEF UsageEnters,
              EntryOK, SessionsOK, CallsOK, CountInv
  <2>2. RestOK'
    BY <1>4 DEF UsageEnters, RestOK, SessionsOK
  <2>3. QuietInv' /\ ClosedIsSilent'
    BY <1>4 DEF UsageEnters, QuietInv, ClosedIsSilent, SessionsOK, RestOK
  <2> QED
    BY <2>1, <2>2, <2>3 DEF IInv, TypeOK, EntryT, EntryOK, SessionsOK, CallsOK, RestOK
<1>5. CASE \E a \in Account : UsageEnds(a)
  <2>1. EntryOK' /\ SessionsOK' /\ CallsOK' /\ CountInv'
    BY <1>5 DEF UsageEnds,
              EntryOK, SessionsOK, CallsOK, CountInv
  <2>2. RestOK'
    BY <1>5 DEF UsageEnds, RestOK, SessionsOK
  <2>3. QuietInv' /\ ClosedIsSilent'
    BY <1>5 DEF UsageEnds, QuietInv, ClosedIsSilent, SessionsOK, RestOK
  <2> QED
    BY <2>1, <2>2, <2>3 DEF IInv, TypeOK, EntryT, EntryOK, SessionsOK, CallsOK, RestOK
<1> QED
  BY <1>1, <1>2, <1>3, <1>4, <1>5 DEF IInv

LEMMA UpdateIInv ==
  ASSUME IInv, BeginPrepare \/ SnapshotTasks \/ CancelSessions \/ InstallFails
  PROVE  IInv'
<1> USE MaxSessionsAssumption, DesktopsAssumption, MaxChangesAssumption
        DEF IInv, NoEntry, SessionStage, WriteStage, CallStage, Caller, Change,
            lifeVars, accountVars, sessionVars, callVars
<1> EntryOK /\ SessionsOK /\ CallsOK /\ RestOK
  BY TypeParts
<1>1. CASE BeginPrepare
  <2>1. EntryOK' /\ SessionsOK' /\ CallsOK' /\ CountInv'
    BY <1>1 DEF BeginPrepare, PrepUnchanged,
              EntryOK, SessionsOK, CallsOK, CountInv
  <2>2. RestOK'
    BY <1>1 DEF BeginPrepare, PrepUnchanged, RestOK, SessionsOK
  <2>3. QuietInv' /\ ClosedIsSilent'
    BY <1>1 DEF BeginPrepare, PrepUnchanged, QuietInv, ClosedIsSilent, SessionsOK, RestOK
  <2> QED
    BY <2>1, <2>2, <2>3 DEF IInv, TypeOK, EntryT, EntryOK, SessionsOK, CallsOK, RestOK
<1>2. CASE SnapshotTasks
  <2>1. EntryOK' /\ SessionsOK' /\ CountInv'
    BY <1>2 DEF SnapshotTasks, CancelUpdateMaintenance, PrepUnchanged,
              EntryOK, SessionsOK, CountInv
  <2>2. CallsOK'
    <3>1. UNCHANGED callVars \/ Load("update", "idle")
      BY <1>2 DEF SnapshotTasks, CancelUpdateMaintenance
    <3>2. CASE UNCHANGED callVars
      BY <3>2 DEF CallsOK
    <3> QED
      BY <3>1, <3>2, LoadTyped
  <2>3. RestOK'
    BY <1>2 DEF SnapshotTasks, CancelUpdateMaintenance, Load, PrepUnchanged, RestOK, SessionsOK
  <2>4. QuietInv' /\ ClosedIsSilent'
    BY <1>2 DEF SnapshotTasks, CancelUpdateMaintenance, Load, PrepUnchanged, QuietInv, ClosedIsSilent, SessionsOK, RestOK
  <2> QED
    BY <2>1, <2>2, <2>3, <2>4 DEF IInv, TypeOK, EntryT, EntryOK, SessionsOK, CallsOK, RestOK
<1>3. CASE CancelSessions
  <2>1. EntryOK' /\ CallsOK' /\ CountInv'
    BY <1>3 DEF CancelSessions, PrepUnchanged,
              EntryOK, CallsOK, CountInv
  <2>2. SessionsOK'
    BY <1>3 DEF CancelSessions, PrepUnchanged, SessionsOK, CountInv
  <2>3. RestOK'
    BY <1>3 DEF CancelSessions, PrepUnchanged, RestOK, SessionsOK
  <2>4. QuietInv' /\ ClosedIsSilent'
    BY <1>3 DEF CancelSessions, PrepUnchanged, QuietInv, ClosedIsSilent, SessionsOK, RestOK
  <2> QED
    BY <2>1, <2>2, <2>3, <2>4 DEF IInv, TypeOK, EntryT, EntryOK, SessionsOK, CallsOK, RestOK
<1>4. CASE InstallFails
  <2>1. EntryOK' /\ SessionsOK' /\ CountInv'
    BY <1>4 DEF InstallFails, CancelUpdateMaintenance, PrepUnchanged,
              EntryOK, SessionsOK, CountInv
  <2>2. CallsOK'
    <3>1. UNCHANGED callVars \/ Load("update", "idle")
      BY <1>4 DEF InstallFails, CancelUpdateMaintenance
    <3>2. CASE UNCHANGED callVars
      BY <3>2 DEF CallsOK
    <3> QED
      BY <3>1, <3>2, LoadTyped
  <2>3. RestOK'
    BY <1>4 DEF InstallFails, CancelUpdateMaintenance, Load, PrepUnchanged, RestOK, SessionsOK
  <2>4. QuietInv' /\ ClosedIsSilent'
    BY <1>4 DEF InstallFails, CancelUpdateMaintenance, Load, PrepUnchanged, QuietInv, ClosedIsSilent, SessionsOK, RestOK
  <2> QED
    BY <2>1, <2>2, <2>3, <2>4 DEF IInv, TypeOK, EntryT, EntryOK, SessionsOK, CallsOK, RestOK
<1> QED
  BY <1>1, <1>2, <1>3, <1>4 DEF IInv

LEMMA CloseIInv ==
  ASSUME IInv, CloseCancel \/ CloseStep
  PROVE  IInv'
<1> USE MaxSessionsAssumption, DesktopsAssumption, MaxChangesAssumption
        DEF IInv, NoEntry, SessionStage, WriteStage, CallStage, Caller, Change,
            lifeVars, accountVars, sessionVars, callVars
<1> EntryOK /\ SessionsOK /\ CallsOK /\ RestOK
  BY TypeParts
<1>1. CASE CloseCancel
  <2>1. EntryOK' /\ SessionsOK' /\ CallsOK' /\ CountInv'
    BY <1>1 DEF CloseCancel, CloseUnchanged,
              EntryOK, SessionsOK, CallsOK, CountInv
  <2>2. RestOK'
    BY <1>1 DEF CloseCancel, CloseUnchanged, RestOK, SessionsOK
  <2>3. QuietInv' /\ ClosedIsSilent'
    BY <1>1 DEF CloseCancel, CloseUnchanged, QuietInv, ClosedIsSilent, SessionsOK, RestOK
  <2> QED
    BY <2>1, <2>2, <2>3 DEF IInv, TypeOK, EntryT, EntryOK, SessionsOK, CallsOK, RestOK
<1>2. CASE CloseLatch
  <2>1. EntryOK' /\ SessionsOK' /\ CallsOK' /\ CountInv'
    BY <1>2 DEF CloseLatch, CloseUnchanged,
              EntryOK, SessionsOK, CallsOK, CountInv
  <2>2. RestOK'
    BY <1>2 DEF CloseLatch, CloseUnchanged, RestOK, SessionsOK
  <2>3. QuietInv' /\ ClosedIsSilent'
    BY <1>2 DEF CloseLatch, CloseUnchanged, QuietInv, ClosedIsSilent, SessionsOK, RestOK
  <2> QED
    BY <2>1, <2>2, <2>3 DEF IInv, TypeOK, EntryT, EntryOK, SessionsOK, CallsOK, RestOK
<1>3. CASE SchedulerExits
  <2>1. EntryOK' /\ SessionsOK' /\ CallsOK' /\ CountInv'
    BY <1>3 DEF SchedulerExits, CloseUnchanged,
              EntryOK, SessionsOK, CallsOK, CountInv
  <2>2. RestOK'
    BY <1>3 DEF SchedulerExits, CloseUnchanged, RestOK, SessionsOK
  <2>3. QuietInv' /\ ClosedIsSilent'
    BY <1>3 DEF SchedulerExits, CloseUnchanged, QuietInv, ClosedIsSilent, SessionsOK, RestOK
  <2> QED
    BY <2>1, <2>2, <2>3 DEF IInv, TypeOK, EntryT, EntryOK, SessionsOK, CallsOK, RestOK
<1>4. CASE CloseDone
  <2>1. EntryOK' /\ SessionsOK' /\ CallsOK' /\ CountInv'
    BY <1>4 DEF CloseDone, CloseUnchanged,
              EntryOK, SessionsOK, CallsOK, CountInv
  <2>2. RestOK'
    BY <1>4 DEF CloseDone, CloseUnchanged, RestOK, SessionsOK
  <2>3. QuietInv' /\ ClosedIsSilent'
    BY <1>4 DEF CloseDone, CloseUnchanged, QuietInv, ClosedIsSilent, SessionsOK, RestOK
  <2> QED
    BY <2>1, <2>2, <2>3 DEF IInv, TypeOK, EntryT, EntryOK, SessionsOK, CallsOK, RestOK
<1> QED
  BY <1>1, <1>2, <1>3, <1>4 DEF CloseStep

LEMMA StepIInv == IInv /\ [Next]_vars => IInv'
<1> SUFFICES ASSUME IInv, [Next]_vars
             PROVE  IInv'
  OBVIOUS
<1>1. CASE UNCHANGED vars
  BY <1>1 DEF vars, lifeVars, accountVars, sessionVars, callVars,
              IInv, TypeOK, CountInv, QuietInv, ClosedIsSilent
<1> QED
  BY <1>1, CallIInv, SessionIInv, AccountIInv, UpdateIInv, CloseIInv DEF Next

LEMMA Invariance == Spec => []IInv
BY InitIInv, StepIInv, PTL DEF Spec

\* Sessions, entries, loops and the update's state have their types in every
\* state, for any number of sessions: no session counts more desktops than
\* there are (startAccount).
THEOREM TypeCorrect == Spec => []TypeOK
BY Invariance, PTL DEF IInv

\* After Close has returned, no startAccount goroutine and no connection runs,
\* and none starts again: the latch of closing precedes wg.Wait (Close, launch).
THEOREM CloseIsFinal == Spec => []ClosedIsSilent
BY Invariance, PTL DEF IInv

\* PrepareForUpdate cancels sessions only while no usage task is active: none
\* can have begun since it looked (StartTask tests maintenance twice).
THEOREM PrepareSparesUsage == Spec => UpdateSparesUsage
<1>1. IInv => [CancelSessions => \A a \in Account : ~UsageActive(a)]_vars
  BY DEF IInv, QuietInv, CancelSessions, UsageActive
<1> QED
  BY <1>1, Invariance, PTL DEF UpdateSparesUsage

\* Every step but setState's write keeps a live session in clients or cancels
\* it, whoever runs the loops and however old what they read is.
LEMMA StepKeeps ==
  ASSUME IInv, Next, \A s \in Session : ~WriteState(s), NEW a \in Account
  PROVE  KeepsOrCancels(a)
<1> USE DEF KeepsOrCancels, Running, Cancelled, IInv, TypeOK
<1>1. CASE \E c \in Caller : CallStep(c)
  <2> PICK c \in Caller : CallStep(c)
    BY <1>1
  <2>1. CASE ClearClients(c)
    BY <2>1 DEF ClearClients, Held
  <2>2. CASE WriteIdle(c)
    BY <2>2 DEF WriteIdle
  <2>3. CASE StopKeepalive(c)
    BY <2>3 DEF StopKeepalive, Held
  <2>4. CASE \E b \in Account : Reconcile(c, b)
    BY <2>4 DEF Reconcile, ReconcileRunning
  <2> QED
    BY <2>1, <2>2, <2>3, <2>4 DEF CallStep
<1>2. CASE \E s \in Session : SessionStep(s) \/ ConnectionEnds(s)
  <2> PICK s \in Session : SessionStep(s) \/ ConnectionEnds(s)
    BY <1>2
  <2>1. CASE Register(s)
    BY <2>1 DEF Register
  <2>2. CASE UNCHANGED entry
    BY <2>2
  <2> QED
    BY <2>1, <2>2 DEF SessionStep, StartUnchanged, LoginFails, LoginUnbound, LoginSucceeds,
                      WakeDesktop, ConnectDesktop, SkipDesktop, DesktopsDone, ConnectionEnds
<1>3. CASE UNCHANGED entry
  BY <1>3
<1> QED
  BY <1>1, <1>2, <1>3
     DEF Next, TickKeepalive, RestartKeepalive, WantChanges, DeleteAccount, UsageStarts,
         UsageEnters, UsageEnds, BeginPrepare, SnapshotTasks, CancelUpdateMaintenance,
         CancelSessions, InstallFails, CloseCancel, CloseStep, CloseLatch, SchedulerExits,
         CloseDone, CloseUnchanged

\* No loop, no registration, no deletion, update or Close loses a live session
\* from clients: with the exception of setState's write, which trusts a test
\* made before it had the lock.
THEOREM LoopsLoseNothing == Spec => LoopsKeepSessions
<1>1. IInv /\ [Next]_vars =>
         [(\A s \in Session : ~WriteState(s)) => \A a \in Account : KeepsOrCancels(a)]_vars
  BY StepKeeps
<1> QED
  BY <1>1, Invariance, PTL DEF LoopsKeepSessions, Spec
=============================================================================
