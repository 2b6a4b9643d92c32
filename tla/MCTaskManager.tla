--------------------------- MODULE MCTaskManager ---------------------------
(***************************************************************************)
(* Instances of TaskManager for TLC: one account, since tasks of different *)
(* accounts share nothing but the maintenance flag, and the two task types *)
(* that chain.                                                             *)
(***************************************************************************)
EXTENDS TaskManager

CONSTANT a1

OneAccount == {a1}
ChainTypes == {"pc", "redeem"}
=============================================================================
