---------------------------- MODULE MCDeviceAuth ----------------------------
(***************************************************************************)
(* Instances of DeviceAuth for TLC: two credentials of one device, which   *)
(* differ in the password, and one of another device.                      *)
(***************************************************************************)
EXTENDS DeviceAuth, TLC

CONSTANTS c1, c2, c3, d1, d2

Credentials == {c1, c2, c3}
DeviceOf == c1 :> d1 @@ c2 :> d1 @@ c3 :> d2

\* The account begins with c1 or c2: beginning with c3 would differ only in that
\* no other credential has its device.
BeginsWithThePair == edits = 0 /\ row # None => row.cred # c3

Symmetry == Permutations({c1, c2})
=============================================================================
