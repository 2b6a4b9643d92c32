-------------------------- MODULE MCDesktopSession --------------------------
(* A small instance of DesktopSession for TLC.                             *)
EXTENDS DesktopSession
=============================================================================
