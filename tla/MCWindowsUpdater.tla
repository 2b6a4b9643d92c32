-------------------------- MODULE MCWindowsUpdater --------------------------
(***************************************************************************)
(* Instances of WindowsUpdater for TLC.                                    *)
(***************************************************************************)
EXTENDS WindowsUpdater

Versions == 1..3
=============================================================================
