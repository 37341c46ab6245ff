---------------------------- MODULE MCGoogleSync ----------------------------
(***************************************************************************)
(* An instance of GoogleSync for TLC: one sync, again and again.           *)
(***************************************************************************)
EXTENDS GoogleSync, TLC

CONSTANTS la, lb, u1, u2, g1, s1, i1

MCRank == (u1 :> 1) @@ (u2 :> 2) @@ (g1 :> 3)
OneSync == s1 :> i1
SyncSymmetry == Permutations(Label)
=============================================================================
