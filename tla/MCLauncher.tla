----------------------------- MODULE MCLauncher -----------------------------
(***************************************************************************)
(* Instances of Launcher for TLC: three versions, the second of which needs*)
(* a newer launcher than the image old has; new brings the third version.  *)
(***************************************************************************)
EXTENDS Launcher

ThreeVersions == 1..3
Needs == [v \in 1..3 |-> IF v = 2 THEN 2 ELSE 1]
Images == {[builtin |-> 1, launcher |-> 1],
           [builtin |-> 1, launcher |-> 2],
           [builtin |-> 3, launcher |-> 2]}
=============================================================================
