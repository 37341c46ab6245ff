----------------------------- MODULE MCLockSync -----------------------------
(***************************************************************************)
(* The cron lock, and the sync with Google that it guards, in one run: the *)
(* first state chooses which of the two a behaviour is of, and the other   *)
(* one rests.                                                              *)
(***************************************************************************)
EXTENDS MCCronLock, GoogleSync

CONSTANTS v1, v2, g1, la, lb, s1, s2

VARIABLE part

\* Two syncs of one process.
BothInOne == (s1 :> i1) @@ (s2 :> i1)
MCRank == (v1 :> 1) @@ (v2 :> 2) @@ (g1 :> 3)

ASSUME GoogleParameters == GoogleAssumption

\* Google has its first user from the start; labels may be exchanged.
FirstIsLa == google.label[v1] = la

LockSyncInit ==
  /\ part \in {"lock", "google"}
  /\ Init /\ GoogleInit /\ FirstIsLa
  /\ part = "lock" => google.label[v2] = None /\ google.label[g1] = None

LockSyncNext ==
  \/ part = "lock" /\ UNCHANGED <<part, googleVars>> /\ Next
  \/ part = "google" /\ UNCHANGED <<part, vars>> /\ GoogleNext

LockSyncSpec == LockSyncInit /\ [][LockSyncNext]_<<part, vars, googleVars>>

SyncSymmetry == Permutations({s1, s2})

=============================================================================
