----------------------------- MODULE MCCronLock -----------------------------
(***************************************************************************)
(* Instances of CronLock for TLC: two jobs in one process and one in the   *)
(* other, or one in each.                                                  *)
(***************************************************************************)
EXTENDS CronLock, TLC

CONSTANTS i1, i2, j1, j2, j3

\* Two jobs share i1, the third runs in i2.
SharedHost == (j1 :> i1) @@ (j2 :> i1) @@ (j3 :> i2)

\* One job in each of two processes.
PairHost == (j1 :> i1) @@ (j2 :> i2)
=============================================================================
