--------------------------- MODULE MCUpdateInstall ---------------------------
(* A small instance of UpdateInstall for TLC.                              *)
EXTENDS UpdateInstall, TLC
=============================================================================
