-------------------------- MODULE MCDirectorySync --------------------------
(***************************************************************************)
(* Instances of DirectorySync for TLC.                                     *)
(***************************************************************************)
EXTENDS DirectorySync, TLC

CONSTANTS d1, d2, ta, tb, u1, u2, g1, a, b, s1, s2

OneTenant == (d1 :> ta)
TwoTenants == (d1 :> ta) @@ (d2 :> tb)

SyncSymmetry == Permutations({u1, u2}) \cup Permutations({s1, s2})
=============================================================================
