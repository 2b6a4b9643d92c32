------------------------------ MODULE MCRedeem ------------------------------
(***************************************************************************)
(* Instances of Redeem for TLC: one handler, one target (no property tells *)
(* targets apart), three days and an interval of two.                      *)
(***************************************************************************)
EXTENDS Redeem

CONSTANTS t1, web

OneTarget == {t1}
OneHandler == {web}
=============================================================================
