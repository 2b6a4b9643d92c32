---------------------------- MODULE MCKeepalive ----------------------------
(***************************************************************************)
(* Instances of Keepalive for TLC: one account with one desktop, one web   *)
(* handler beside the scheduler and the update.                            *)
(***************************************************************************)
EXTENDS Keepalive

CONSTANTS a1, web

OneAccount == {a1}
OneHandler == {web}
=============================================================================
