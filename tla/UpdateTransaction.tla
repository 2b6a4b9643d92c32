-------------------------- MODULE UpdateTransaction --------------------------
(***************************************************************************)
(* What an update promises, whoever carries it out and wherever that is    *)
(* cut off: between two versions there is one transaction; only within it  *)
(* does the program or its data change; no program serves on data of a     *)
(* newer one; and it closes with the version that its fate names.          *)
(*                                                                         *)
(* Launcher (the container) and WindowsUpdater implement this.             *)
(***************************************************************************)
EXTENDS Integers

CONSTANTS Version,  \* program versions
          Final     \* a decided transaction is never taken up again

VARIABLES
    version,   \* the version of the files that are run next, 0 while they are mixed
    serving,   \* a program runs
    data,      \* the versions that have written the data
    txn        \* the open transaction, or NoTxn

absVars == <<version, serving, data, txn>>

Fate == {"open", "success", "rolled_back", "failed"}
NoTxn == [fate |-> "none"]
Open == txn # NoTxn

\* The version a transaction of this fate ends with.
Outcome(t, fate) == IF fate = "success" THEN t.to ELSE t.from

\* The executor may still change program and data.
InHand == Open /\ ~serving /\ (Final => txn.fate = "open")

Init ==
    /\ version \in Version
    /\ serving = FALSE
    /\ data = {version}
    /\ txn = NoTxn

\* A program starts; it leaves data that it cannot read as it is.
Serve ==
    /\ ~serving /\ version # 0
    /\ \A v \in data : v <= version
    /\ serving' = TRUE
    /\ data' \in {data, data \cup {version}}
    /\ UNCHANGED <<version, txn>>

Stop ==
    /\ serving
    /\ serving' = FALSE
    /\ UNCHANGED <<version, data, txn>>

\* From a version that can serve; what was still open then is superseded.
Begin ==
    /\ ~serving /\ version # 0 /\ \A v \in data : v <= version
    /\ \E to \in Version : txn' = [from |-> version, to |-> to, fate |-> "open"]
    /\ UNCHANGED <<version, serving, data>>

\* Files are moved: one of the two versions, or a mixture of them.
Switch ==
    /\ InHand
    /\ version' \in {0, txn.from, txn.to}
    /\ UNCHANGED <<serving, data, txn>>

\* The data are put back, or are away for a moment.
Restore ==
    /\ InHand
    /\ \A v \in data' : v <= txn.from \/ v <= txn.to
    /\ UNCHANGED <<version, serving, txn>>

\* The version it ends with has been run and proved healthy.
Decide ==
    /\ Open /\ txn.fate = "open" /\ version \in data
    /\ \E fate \in Fate \ {"open"} :
          /\ version = Outcome(txn, fate)
          /\ txn' = [txn EXCEPT !.fate = fate]
    /\ UNCHANGED <<version, serving, data>>

Reopen ==
    /\ ~Final /\ Open
    /\ txn' = [txn EXCEPT !.fate = "open"]
    /\ UNCHANGED <<version, serving, data>>

\* A decided transaction, or one that has changed nothing.
Close ==
    /\ Open
    /\ version = Outcome(txn, txn.fate)
    /\ txn.fate = "open" => \A v \in data : v <= version
    /\ txn' = NoTxn
    /\ UNCHANGED <<version, serving, data>>

\* From outside: another image comes with another program.
Exchange ==
    /\ ~serving
    /\ version' \in {v \in Version : v > version}
    /\ UNCHANGED <<serving, data, txn>>

Next == Serve \/ Stop \/ Begin \/ Switch \/ Restore \/ Decide \/ Reopen \/ Close \/ Exchange

Spec == Init /\ [][Next]_absVars

=============================================================================
