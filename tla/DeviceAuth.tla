----------------------------- MODULE DeviceAuth -----------------------------
(***************************************************************************)
(* Logins and device verification of one account.                          *)
(*                                                                         *)
(* The account's row names the credentials in force (user, password and    *)
(* device code, one value here; user and device code are its device, which *)
(* the platform binds).  What a login answered is kept in four             *)
(* places: the two cache tables, the client of the keepalive session       *)
(* (Manager.clients) and the shared native client (Manager.nativeClients). *)
(* An edit changes the row and then clears these places one after the      *)
(* other, while keepers (startAccount) and tasks log in with the row they  *)
(* read before.                                                            *)
(*                                                                         *)
(* A keeper, a task and a page request are processes; a step ends where    *)
(* the code waits for the platform, the database or Manager.mu.            *)
(***************************************************************************)
EXTENDS Naturals, FiniteSets

CONSTANTS
    Credential,     \* what an account may be saved with
    Device,         \* of each credential, the user and the device code
    Keeper,         \* goroutines that may run startAccount
    Task,           \* goroutines that need a logged-in client
    Page,           \* requests of the account pages
    Object,         \* native client objects in memory
    None,           \* nothing there
    MaxEdits        \* bound on the edits of the account

VARIABLES
    row,        \* the account's row: credentials, enabled, device_status
    bonded,     \* the devices the platform has bound
    web,        \* account_auth_cache: the profile kept of the web login
    native,     \* account_native_auth_cache
    session,    \* Manager.clients[id]: the keeper whose context is live, and
                \* whether there is a client with a profile
    object,     \* the native client objects
    shared,     \* Manager.nativeClients[id]
    verify,     \* Manager.verify[id]: the client that asked for the SMS
    keeper,     \* where each startAccount is, and what it holds
    task,       \* where each task is
    page,       \* where each request is
    edits       \* how often the account was saved

authVars == <<row, bonded, web, native, session, object, shared, verify,
              keeper, task, page, edits>>

Devices == {Device[c] : c \in Credential}
Status == {"unknown", "pending", "verified"}
Row == [cred : Credential, enabled : BOOLEAN, status : Status]

\* "Nothing there" is told from every row and every object (a nil pointer, no row).
ASSUME NoneAssumption == None \notin Object \cup Row
ASSUME EditsAssumption == MaxEdits \in Nat

\* A profile as a login returns it.
Profile == [cred : Credential, bonded : BOOLEAN]

\* What is kept of a login.  "late" is for the properties: the credentials
\* of the row had changed when it was stored.
Kept == [cred : Credential, bonded : BOOLEAN, late : BOOLEAN]

Exists == row # None
Keep(p) == [cred |-> p.cred, bonded |-> p.bonded, late |-> p.cred # row.cred]

\* Login: the platform tells whether the device of these credentials is bound.
Answer(c) == [cred |-> c, bonded |-> Device[c] \in bonded]

Idle == [pc |-> "idle", cred |-> None, profile |-> None]
NoRequest == [pc |-> "idle", cred |-> None]
NoTask == [pc |-> "idle", kind |-> "chat", cred |-> None, object |-> None, again |-> FALSE]
NoSession == [owner |-> None, ready |-> FALSE]

AuthInit ==
    /\ row \in [cred : Credential, enabled : {TRUE}, status : {"unknown"}]
    /\ bonded \in SUBSET Devices
    /\ web = None /\ native = None
    /\ session = NoSession
    /\ object = [o \in Object |-> None]
    /\ shared = None
    /\ verify = None
    /\ keeper = [k \in Keeper |-> Idle]
    /\ task = [t \in Task |-> NoTask]
    /\ page = [p \in Page |-> NoRequest]
    /\ edits = 0

-----------------------------------------------------------------------------
(* The database.                                                           *)

\* SetDeviceStatus: an UPDATE by id, whoever's row it is by now.
SetDeviceStatus(s) ==
    row' = IF Exists THEN [row EXCEPT !.status = s] ELSE row

\* SaveAuthCache and SaveNativeAuthCache: the foreign key refuses a row of a
\* deleted account.
Saved(p) == IF Exists THEN Keep(p) ELSE None

\* newClient: a client of the credentials the caller read, with the profile
\* of the cache, whoever's login that is.
CachedProfile == IF web = None THEN None ELSE [cred |-> web.cred, bonded |-> web.bonded]

-----------------------------------------------------------------------------
(* The keeper: reconcileAccountKeepalive and startAccount.                 *)

Wanted == Exists /\ row.enabled /\ row.status # "pending"

KeeperGoes(k, pc, c, p) ==
    keeper' = [keeper EXCEPT ![k] = [pc |-> pc, cred |-> c, profile |-> p]]

\* setState does nothing once the session's context is cancelled.
SetState(k, ready) ==
    session' = IF session.owner = k THEN [session EXCEPT !.ready = ready] ELSE session

Reconcile(k) ==
    /\ keeper[k].pc = "idle"
    /\ Wanted /\ session.owner = None
    /\ KeeperGoes(k, "claim", row.cred, None)
    /\ UNCHANGED <<row, bonded, web, native, session, object, shared, verify, task, page, edits>>

StopAccount ==
    /\ ~Wanted /\ session.owner # None
    /\ session' = NoSession
    /\ UNCHANGED <<row, bonded, web, native, object, shared, verify, keeper, task, page, edits>>

Claim(k) ==
    /\ keeper[k].pc = "claim"
    /\ \/ /\ session.owner # None
          /\ keeper' = [keeper EXCEPT ![k] = Idle]
          /\ UNCHANGED session
       \/ /\ session.owner = None
          /\ session' = [owner |-> k, ready |-> FALSE]
          /\ KeeperGoes(k, "load", keeper[k].cred, None)
    /\ UNCHANGED <<row, bonded, web, native, object, shared, verify, task, page, edits>>

Load(k) ==
    /\ keeper[k].pc = "load"
    /\ KeeperGoes(k, IF CachedProfile = None THEN "login" ELSE "check", keeper[k].cred, CachedProfile)
    /\ UNCHANGED <<row, bonded, web, native, session, object, shared, verify, task, page, edits>>

KeeperLogin(k) ==
    /\ keeper[k].pc = "login"
    /\ \/ /\ session.owner = k
          /\ KeeperGoes(k, "save", keeper[k].cred, Answer(keeper[k].cred))
          /\ UNCHANGED session
       \/ /\ SetState(k, FALSE)
          /\ keeper' = [keeper EXCEPT ![k] = Idle]
    /\ UNCHANGED <<row, bonded, web, native, object, shared, verify, task, page, edits>>

KeeperSave(k) ==
    /\ keeper[k].pc = "save"
    /\ web' = Saved(keeper[k].profile)
    /\ KeeperGoes(k, "check", keeper[k].cred, keeper[k].profile)
    /\ UNCHANGED <<row, bonded, native, session, object, shared, verify, task, page, edits>>

KeeperCheck(k) ==
    /\ keeper[k].pc = "check"
    /\ \/ /\ ~keeper[k].profile.bonded
          /\ SetDeviceStatus("pending")
          /\ SetState(k, TRUE)
          /\ keeper' = [keeper EXCEPT ![k] = Idle]
       \/ /\ keeper[k].profile.bonded
          /\ SetDeviceStatus("verified")
          /\ KeeperGoes(k, "list", keeper[k].cred, None)
          /\ UNCHANGED session
    /\ UNCHANGED <<bonded, web, native, object, shared, verify, task, page, edits>>

\* ListDesktops succeeds, or the login is thrown away for a new one.
KeeperList(k) ==
    /\ keeper[k].pc = "list"
    /\ \/ /\ SetState(k, TRUE)
          /\ keeper' = [keeper EXCEPT ![k] = Idle]
          /\ UNCHANGED web
       \/ /\ web' = None
          /\ KeeperGoes(k, "again", keeper[k].cred, None)
          /\ UNCHANGED session
    /\ UNCHANGED <<row, bonded, native, object, shared, verify, task, page, edits>>

\* The second login is saved and used whatever it says of the device.
KeeperAgain(k) ==
    /\ keeper[k].pc = "again"
    /\ \/ /\ session.owner = k
          /\ web' = Saved(Answer(keeper[k].cred))
          /\ SetState(k, TRUE)
       \/ /\ SetState(k, FALSE)
          /\ UNCHANGED web
    /\ keeper' = [keeper EXCEPT ![k] = Idle]
    /\ UNCHANGED <<row, bonded, native, object, shared, verify, task, page, edits>>

-----------------------------------------------------------------------------
(* Tasks: "login" works with the web client (Manager.client), "chat" and   *)
(* "status" with the shared native client (Manager.nativeClient).          *)

TaskGoes(t, pc) == task' = [task EXCEPT ![t].pc = pc]
TaskEnds(t) == task' = [task EXCEPT ![t] = NoTask]

\* A client object is gone when neither the map nor a task refers to it.
Referred(o, s, ts) == (s # None /\ s.object = o) \/ \E t \in Task : ts[t].object = o
Collect(f, s, ts) == object' = [o \in Object |-> IF Referred(o, s, ts) THEN f[o] ELSE None]

ReadAccount(t) ==
    /\ task[t].pc = "idle"
    /\ Exists
    /\ \E kind \in {"login", "chat", "status"} :
          task' = [task EXCEPT ![t] = [pc |-> "look", kind |-> kind, cred |-> row.cred,
                                       object |-> None, again |-> FALSE]]
    /\ UNCHANGED <<row, bonded, web, native, session, object, shared, verify, keeper, page, edits>>

\* client: the client of the session if it has a profile, else one of the
\* cache, else a new login.
UseWeb(t) ==
    /\ task[t].kind = "login" /\ task[t].pc \in {"look", "login"}
    /\ \/ /\ task[t].pc = "look"
          /\ \/ session.ready /\ TaskEnds(t) /\ UNCHANGED session
             \/ /\ ~session.ready /\ CachedProfile # None
                /\ session' = [session EXCEPT !.ready = TRUE]
                /\ TaskEnds(t)
             \/ /\ ~session.ready /\ CachedProfile = None
                /\ TaskGoes(t, "login")
                /\ UNCHANGED session
          /\ UNCHANGED web
       \/ /\ task[t].pc = "login"
          /\ \/ TaskEnds(t) /\ UNCHANGED <<web, session>>
             \/ /\ web' = Saved(Answer(task[t].cred))
                /\ session' = [session EXCEPT !.ready = TRUE]
                /\ TaskEnds(t)
    /\ UNCHANGED <<row, bonded, native, object, shared, verify, keeper, page, edits>>

\* nativeClient: the shared client if there is one, whoever built it.
LookUp(t) ==
    /\ task[t].kind # "login" /\ task[t].pc = "look"
    /\ \/ /\ shared # None
          /\ task' = [task EXCEPT ![t].object = shared.object,
                                  ![t].pc = IF object[shared.object].profile # None
                                            THEN "call" ELSE "login"]
          /\ UNCHANGED object
       \/ /\ shared = None
          /\ \E o \in {x \in Object : ~Referred(x, shared, task)} :
                /\ object' = [object EXCEPT ![o] =
                       [cred |-> task[t].cred,
                        profile |-> IF native = None THEN None ELSE native.cred]]
                /\ task' = [task EXCEPT ![t].object = o,
                                        ![t].pc = IF native = None THEN "login" ELSE "put"]
    /\ UNCHANGED <<row, bonded, web, native, session, shared, verify, keeper, page, edits>>

NativeLogin(t) ==
    /\ task[t].kind # "login" /\ task[t].pc = "login"
    /\ \/ /\ object' = [object EXCEPT ![task[t].object].profile = object[task[t].object].cred]
          /\ TaskGoes(t, "save")
       \/ TaskEnds(t) /\ Collect(object, shared, task')
    /\ UNCHANGED <<row, bonded, web, native, session, shared, verify, keeper, page, edits>>

\* saveNativeProfile: a login that cannot be kept is not used either.
SaveNative(t) ==
    LET o == task[t].object IN
    /\ task[t].pc = "save"
    /\ \/ /\ Exists
          /\ native' = Keep(Answer(object[o].cred))
          /\ TaskGoes(t, IF task[t].kind = "chat" /\ task[t].again THEN "call" ELSE "put")
          /\ UNCHANGED object
       \/ /\ ~Exists
          /\ TaskEnds(t)
          /\ Collect([object EXCEPT ![o].profile = None], shared, task')
          /\ UNCHANGED native
    /\ UNCHANGED <<row, bonded, web, session, shared, verify, keeper, page, edits>>

\* The credentials of the row are no longer those of this client.
Late(o) ==
    ~Exists \/ object[o].cred # row.cred \/ object[o].profile \notin {None, row.cred}

Put(t) ==
    /\ task[t].pc = "put"
    /\ shared' = [object |-> task[t].object, late |-> Late(task[t].object)]
    /\ TaskGoes(t, "call")
    /\ Collect(object, shared', task')
    /\ UNCHANGED <<row, bonded, web, native, session, verify, keeper, page, edits>>

\* The platform's answer.  A login that expired is forgotten and made once
\* more: by the chat on the client it has, by RefreshStatus on whatever
\* client is shared by then.
Call(t) ==
    LET o == task[t].object IN
    /\ task[t].pc = "call"
    /\ \/ TaskEnds(t) /\ Collect(object, shared, task') /\ UNCHANGED native
       \/ /\ ~task[t].again /\ object[o].profile # None
          /\ native' = None
          /\ \E chat \in BOOLEAN :
                /\ chat = (task[t].kind = "chat")
                /\ task' = [task EXCEPT ![t].again = TRUE,
                                        ![t].pc = IF chat THEN "login" ELSE "look",
                                        ![t].object = IF chat THEN o ELSE None]
          /\ Collect([object EXCEPT ![o].profile = None], shared, task')
    /\ UNCHANGED <<row, bonded, web, session, shared, verify, keeper, page, edits>>

-----------------------------------------------------------------------------
(* The account pages: saveAccount, delete and device verification.         *)

PageGoes(p, pc, c) == page' = [page EXCEPT ![p] = [pc |-> pc, cred |-> c]]
PageEnds(p) == page' = [page EXCEPT ![p] = NoRequest]

\* Mutants: the status stays with another device; the column is emptied.
SavedRowKeepsStatus(c, on) == [cred |-> c, enabled |-> on, status |-> row.status]

SavedRowBlanks(c, on) ==
    [cred |-> c, enabled |-> on,
     status |-> IF Device[c] # Device[row.cred] THEN "" ELSE row.status]

\* SaveAccount: another user or device has not been verified yet; with only
\* another password the status stays.
SavedRow(c, on) ==
    [cred |-> c, enabled |-> on,
     status |-> IF Device[c] # Device[row.cred] THEN "unknown" ELSE row.status]

\* cred remembers what the request asked for: None if the account is off.
Save(p) ==
    /\ page[p].pc = "idle"
    /\ Exists /\ edits < MaxEdits
    /\ \E c \in Credential, on \in BOOLEAN :
          /\ row' = SavedRow(c, on)
          /\ PageGoes(p, "clearweb", IF on THEN c ELSE None)
    /\ edits' = edits + 1
    /\ UNCHANGED <<bonded, web, native, session, object, shared, verify, keeper, task>>

\* DeleteAccount: the caches go with the row.
Delete(p) ==
    /\ page[p].pc = "idle"
    /\ Exists
    /\ row' = None /\ web' = None /\ native' = None
    /\ PageGoes(p, "clearnative", None)
    /\ UNCHANGED <<bonded, session, object, shared, verify, keeper, task, edits>>

\* Mutant: the cache of the web login is left.
ClearWebNot(p) ==
    /\ page[p].pc = "clearweb"
    /\ PageGoes(p, "clearnative", page[p].cred)
    /\ UNCHANGED <<row, bonded, web, native, session, object, shared, verify, keeper, task, edits>>

ClearWeb(p) ==
    /\ page[p].pc = "clearweb"
    /\ web' = None
    /\ PageGoes(p, "clearnative", page[p].cred)
    /\ UNCHANGED <<row, bonded, native, session, object, shared, verify, keeper, task, edits>>

ClearNative(p) ==
    /\ page[p].pc = "clearnative"
    /\ native' = None
    /\ PageGoes(p, "clearshared", page[p].cred)
    /\ UNCHANGED <<row, bonded, web, session, object, shared, verify, keeper, task, edits>>

ClearShared(p) ==
    /\ page[p].pc = "clearshared"
    /\ shared' = None
    /\ Collect(object, None, task)
    /\ PageGoes(p, IF page[p].cred = None THEN "restart" ELSE "begin", None)
    /\ UNCHANGED <<row, bonded, web, native, session, verify, keeper, task, edits>>

RestartKeepalive(p) ==
    /\ page[p].pc = "restart"
    /\ session' = NoSession
    /\ PageEnds(p)
    /\ UNCHANGED <<row, bonded, web, native, object, shared, verify, keeper, task, edits>>

\* The button "device verification" of the account list.
StartVerification(p) ==
    /\ page[p].pc = "idle"
    /\ PageGoes(p, "begin", None)
    /\ UNCHANGED <<row, bonded, web, native, session, object, shared, verify, keeper, task, edits>>

Begin(p) ==
    /\ page[p].pc = "begin"
    /\ \/ ~Exists /\ PageEnds(p)
       \/ Exists /\ PageGoes(p, "ask", row.cred)
    /\ UNCHANGED <<row, bonded, web, native, session, object, shared, verify, keeper, task, edits>>

\* BeginVerification always logs in, and keeps nothing of the login.
Ask(p) ==
    /\ page[p].pc = "ask"
    /\ \/ PageEnds(p) /\ UNCHANGED row
       \/ /\ Answer(page[p].cred).bonded
          /\ SetDeviceStatus("verified")
          /\ PageGoes(p, "restart", None)
       \/ /\ ~Answer(page[p].cred).bonded
          /\ PageGoes(p, "sms", page[p].cred)
          /\ UNCHANGED row
    /\ UNCHANGED <<bonded, web, native, session, object, shared, verify, keeper, task, edits>>

SendSMS(p) ==
    /\ page[p].pc = "sms"
    /\ \/ PageEnds(p) /\ UNCHANGED verify
       \/ verify' = page[p].cred /\ PageGoes(p, "sent", page[p].cred)
    /\ UNCHANGED <<row, bonded, web, native, session, object, shared, keeper, task, edits>>

Sent(p) ==
    /\ page[p].pc = "sent"
    /\ SetDeviceStatus("pending")
    /\ PageEnds(p)
    /\ UNCHANGED <<bonded, web, native, session, object, shared, verify, keeper, task, edits>>

\* Ten minutes after the SMS.
VerificationExpires ==
    /\ verify # None
    /\ verify' = None
    /\ UNCHANGED <<row, bonded, web, native, session, object, shared, keeper, task, page, edits>>

Complete(p) ==
    /\ page[p].pc = "idle"
    /\ verify # None
    /\ PageGoes(p, "bind", verify)
    /\ UNCHANGED <<row, bonded, web, native, session, object, shared, verify, keeper, task, edits>>

BindDevice(p) ==
    /\ page[p].pc = "bind"
    /\ \/ PageEnds(p) /\ UNCHANGED bonded
       \/ /\ bonded' = bonded \cup {Device[page[p].cred]}
          /\ PageGoes(p, "bound", page[p].cred)
    /\ UNCHANGED <<row, web, native, session, object, shared, verify, keeper, task, edits>>

Bound(p) ==
    /\ page[p].pc = "bound"
    /\ SetDeviceStatus("verified")
    /\ verify' = None
    /\ PageGoes(p, "restart", None)
    /\ UNCHANGED <<bonded, web, native, session, object, shared, keeper, task, edits>>

-----------------------------------------------------------------------------

KeeperNext(k) ==
    \/ Reconcile(k) \/ Claim(k) \/ Load(k) \/ KeeperLogin(k) \/ KeeperSave(k)
    \/ KeeperCheck(k) \/ KeeperList(k) \/ KeeperAgain(k)

TaskNext(t) ==
    \/ ReadAccount(t) \/ UseWeb(t) \/ LookUp(t) \/ NativeLogin(t)
    \/ SaveNative(t) \/ Put(t) \/ Call(t)

PageNext(p) ==
    \/ Save(p) \/ Delete(p) \/ ClearWeb(p) \/ ClearNative(p) \/ ClearShared(p)
    \/ RestartKeepalive(p) \/ StartVerification(p) \/ Begin(p) \/ Ask(p)
    \/ SendSMS(p) \/ Sent(p) \/ Complete(p) \/ BindDevice(p) \/ Bound(p)

AuthNext ==
    \/ StopAccount
    \/ VerificationExpires
    \/ \E k \in Keeper : KeeperNext(k)
    \/ \E t \in Task : TaskNext(t)
    \/ \E p \in Page : PageNext(p)

AuthSpec == AuthInit /\ [][AuthNext]_authVars

-----------------------------------------------------------------------------

AuthTypeOK ==
    /\ row \in Row \cup {None}
    /\ bonded \subseteq Devices
    /\ web \in Kept \cup {None}
    /\ native \in Kept \cup {None}
    /\ session.owner \in Keeper \cup {None}
    /\ session.ready \in BOOLEAN
    /\ \A o \in Object : object[o] \in [cred : Credential, profile : Credential \cup {None}] \cup {None}
    /\ shared \in [object : Object, late : BOOLEAN] \cup {None}
    /\ verify \in Credential \cup {None}
    /\ \A k \in Keeper : keeper[k].cred \in Credential \cup {None}
    /\ \A t \in Task : task[t].object \in Object \cup {None}
    /\ \A p \in Page : page[p].cred \in Credential \cup {None}
    /\ edits \in 0 .. MaxEdits

Clearing(pcs) == \E p \in Page : page[p].pc \in pcs

\* After an edit or a deletion nothing is kept of a login with the old
\* credentials, in neither cache table nor in memory, except by somebody who
\* was logging in while the account was edited.
OldLoginsAreCleared ==
    /\ web # None =>
          Exists /\ (web.cred = row.cred \/ web.late \/ Clearing({"clearweb"}))
    /\ native # None =>
          Exists /\ (native.cred = row.cred \/ native.late \/ Clearing({"clearweb", "clearnative"}))
    /\ shared # None =>
          \/ shared.late
          \/ Clearing({"clearweb", "clearnative", "clearshared"})
          \/ Exists /\ ~Late(shared.object)

\* Somebody whose login was of another device than the row's is about to report
\* on it.
Overtaken ==
    \/ \E k \in Keeper :
          keeper[k].pc = "check" /\ Device[keeper[k].profile.cred] # Device[row.cred]
    \/ \E p \in Page :
          page[p].pc \in {"ask", "bound"} /\ Device[page[p].cred] # Device[row.cred]

\* An account becomes "verified" for a device only if the platform has bound it,
\* except by the report of a login or an SMS code that an edit of the account
\* has overtaken.  Another password leaves the status as it was; another user
\* or device code must not.
VerifiedOnEvidence ==
    [][ Exists /\ row' # row /\ row' # None /\ row'.status = "verified"
        /\ ~(row.status = "verified" /\ Device[row.cred] = Device[row'.cred])
        => Device[row'.cred] \in bonded \/ Overtaken ]_authVars

\* "The device is bound and keepalive has started" (server.go:738): once
\* keepalive has been restarted and no keeper of before is left, an account
\* that was verified, of a device the platform has bound, is not told to verify
\* it again.
BindingSticks ==
    [][ /\ Exists /\ row.status = "verified" /\ Device[row.cred] \in bonded
        /\ row' # None /\ row'.cred = row.cred
        /\ \A p \in Page : page[p].pc # "restart"
        /\ \A k \in Keeper : keeper[k].pc = "check" => session.owner = k
        => row'.status # "pending" ]_authVars
=============================================================================
